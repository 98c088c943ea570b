-------------------------- MODULE Conversions_proofs --------------------------
(***************************************************************************)
(* The angles of the trigonometric functions, the forms of a decimal, the  *)
(* ranges of random ones, the numeric form of PostgreSQL and the roots and *)
(* logarithms, for every value of the constants.  Angles: the calls are    *)
(* counted against a measure of the angle, and each of them keeps the      *)
(* angle asked for, or its opposite, up to whole turns and the little the  *)
(* constants are off from each other.  Forms and ranges: each is one call, *)
(* so that what is to be shown are the functions themselves.  PostgreSQL:  *)
(* the groups sent so far and what is left make up the mantissa, and what  *)
(* has been read of them is exact, or as near as a decimal can be.  Roots: *)
(* a guess that comes twice was halved from its sum with a quotient, each  *)
(* rounded at most half a place; logarithms: the zeros taken off.          *)
(***************************************************************************)
EXTENDS Angles, Forms, RandomRange, Postgres, Powers, DecimalLemmas, SequenceTheorems

-----------------------------------------------------------------------------
(* Angles *)

\* a is a whole number of periods, but for n at most.
WithinOf(a, period, n) == \E e \in -n..n : (a + e) % period = 0

\* How many calls an angle may still take.
Distance(f, a) ==
    IF a >= TWO_PI THEN 5
    ELSE IF a >= PI THEN 4
    ELSE IF f = "tan"
    THEN IF a < 0 THEN 6 ELSE IF a > HALF_PI THEN 3 ELSE IF a > QUARTER_PI THEN 2 ELSE IF a > EIGHTH_PI THEN 1 ELSE 0
    ELSE IF a < -HALF_PI THEN 6 ELSE IF a < 0 THEN 2 ELSE IF a > HALF_PI THEN 3 ELSE IF a > QUARTER_PI THEN 1 ELSE 0
Left == Distance(fn, angle)

\* The angle whose cosine is the result: the sign is half a turn.
Cosine == Phase(fn, angle) + (IF flipped THEN PI ELSE 0)

AngleTypeOK ==
    /\ of \in [fn : {"sin", "cos", "tan"}, angle : Int]
    /\ fn \in {"sin", "cos", "tan"} /\ angle \in Int
    /\ flipped \in BOOLEAN /\ inverse \in BOOLEAN /\ halved \in BOOLEAN
    /\ calls \in Nat /\ apc \in {"call", "series", "zero", "none"}

\* What the constants may be off by so far: tan loses one when it takes a supplement
\* and one when it halves an angle, sin one with every change of sign.
TangentSlack(n) == IF n >= 3 THEN 0 ELSE IF n >= 1 THEN 1 ELSE 2
CosineSlack(n)  == IF n = 6 THEN 0 ELSE IF n >= 2 THEN 1 ELSE 2

\* The result so far is that of an angle a number of periods from the one asked for.
TangentKept == WithinOf(Tangent - of.angle, PI, TangentSlack(Left))
CosineKept ==
    \/ WithinOf(Cosine - Phase(of.fn, of.angle), TWO_PI, CosineSlack(Left))
    \/ WithinOf(Cosine + Phase(of.fn, of.angle), TWO_PI, CosineSlack(Left))

\* Tan stays tan; its reciprocal is for the last two calls, its double angle formula
\* for the last, whose angle is not zero.
AngleInv ==
    /\ AngleTypeOK
    /\ calls + Left <= 6
    /\ fn = "tan" <=> of.fn = "tan"
    /\ IF fn = "tan" THEN TangentKept /\ (Left >= 2 => ~inverse) /\ (Left >= 1 => ~halved)
       ELSE CosineKept /\ ~inverse /\ ~halved
    /\ halved => angle > 0
    /\ apc = "none" => inverse /\ angle = 0

\* The angles of the constants, in eighths.
LEMMA AngleConstants ==
    /\ EIGHTH_PI \in Nat \ {0} /\ QUARTER_PI = 2 * EIGHTH_PI /\ HALF_PI = 4 * EIGHTH_PI
    /\ PI = 8 * EIGHTH_PI + 1 /\ TWO_PI = 16 * EIGHTH_PI + 2
    /\ PI \in Nat \ {0} /\ TWO_PI \in Nat \ {0} /\ TWO_PI = 2 * PI
  BY AngleAssumption DEF QUARTER_PI, HALF_PI, PI, TWO_PI

\* To be within n of a whole number of periods, by their number.
LEMMA WithinTurns ==
    ASSUME NEW a \in Int, NEW p \in Nat \ {0}, NEW n \in Nat
    PROVE  WithinOf(a, p, n) <=> \E e \in -n..n, k \in Int : a + e = k * p
<1>1. ASSUME NEW e \in -n..n, (a + e) % p = 0
      PROVE  a + e = ((a + e) \div p) * p /\ (a + e) \div p \in Int
  BY <1>1
<1>2. ASSUME NEW e \in -n..n, NEW k \in Int, a + e = k * p
      PROVE  (a + e) % p = 0
  <2>1. a + e \in Int /\ a + e = k * p + 0 /\ 0 < p /\ 0 \in Nat
    BY <1>2
  <2>2. QED
    BY <2>1, IntQuotientUnique
<1>3. QED
  BY <1>1, <1>2 DEF WithinOf

\* Whole periods change nothing, and anything else adds up.
LEMMA WithinMoved ==
    ASSUME NEW a \in Int, NEW p \in Nat \ {0}, NEW n \in Nat, NEW c \in Nat,
           NEW d \in -c..c, NEW j \in Int, NEW b \in Int, b = a + d + j * p,
           WithinOf(a, p, n)
    PROVE  WithinOf(b, p, n + c)
<1>1. PICK e \in -n..n, k \in Int : a + e = k * p
  BY WithinTurns
<1>2. (k + j) * p = k * p + j * p /\ k * p \in Int /\ j * p \in Int
  BY Distribute
<1> DEFINE sum == n + c
<1> DEFINE off == e - d
<1> DEFINE turns == k + j
<1>3. sum \in Nat /\ off \in -sum..sum /\ turns \in Int /\ b + off = turns * p
  BY <1>1, <1>2
<1> HIDE DEF sum, off, turns
<1>4. WithinOf(b, p, sum)
  BY <1>3, WithinTurns
<1>5. QED
  BY <1>4 DEF sum

LEMMA WithinOpposite ==
    ASSUME NEW a \in Int, NEW p \in Nat \ {0}, NEW n \in Nat, WithinOf(a, p, n)
    PROVE  WithinOf(-a, p, n)
<1>1. PICK e \in -n..n, k \in Int : a + e = k * p
  BY WithinTurns
<1>2. (0 - k) * p = 0 * p - k * p /\ k * p \in Int
  BY Distribute
<1>3. -e \in -n..n /\ -a + -e = (-k) * p
  BY <1>1, <1>2
<1>4. -a \in Int /\ -k \in Int
  OBVIOUS
<1>5. QED
  BY <1>3, <1>4, WithinTurns

LEMMA WithinMore ==
    ASSUME NEW a \in Int, NEW p \in Nat \ {0}, NEW n \in Nat, NEW c \in Nat, n <= c, WithinOf(a, p, n)
    PROVE  WithinOf(a, p, c)
  BY DEF WithinOf

\* Half of an angle, twice.
LEMMA HalfTwice ==
    ASSUME NEW a \in Nat
    PROVE  /\ HalfEven(a, 2) \in Nat
           /\ 2 * HalfEven(a, 2) - a \in -1..1
<1>1. HalfEven(a, 2) \in Nat /\ IsHalfEven(HalfEven(a, 2), a, 2)
  BY HalfEvenRight
<1>2. QED
  BY <1>1 DEF IsHalfEven

\* The same for a phase or its opposite.
LEMMA PhaseMoved ==
    ASSUME NEW c \in Int, NEW ph \in Int, NEW n \in Nat, NEW k \in Nat, NEW d \in -k..k,
           NEW j \in Int, NEW b \in Int,
           b = c + d + j * TWO_PI \/ b = -c + d + j * TWO_PI,
           WithinOf(c - ph, TWO_PI, n) \/ WithinOf(c + ph, TWO_PI, n)
    PROVE  WithinOf(b - ph, TWO_PI, n + k) \/ WithinOf(b + ph, TWO_PI, n + k)
<1>1. TWO_PI \in Nat \ {0} /\ j * TWO_PI \in Int
  BY AngleConstants, Distribute
<1> HIDE DEF TWO_PI
<1> DEFINE turns == j * TWO_PI
<1>2. c - ph \in Int /\ c + ph \in Int /\ b - ph \in Int /\ b + ph \in Int
  OBVIOUS
<1>3. CASE b = c + d + turns
  <2>1. b - ph = (c - ph) + d + turns /\ b + ph = (c + ph) + d + turns
    BY <1>1, <1>3
  <2>2. QED
    BY <1>1, <1>2, <2>1, WithinMoved
<1>4. CASE b = -c + d + turns
  <2>1. b - ph = -(c + ph) + d + turns /\ b + ph = -(c - ph) + d + turns
    BY <1>1, <1>4
  <2>2. ASSUME WithinOf(c - ph, TWO_PI, n) PROVE WithinOf(b + ph, TWO_PI, n + k)
    <3>1. WithinOf(-(c - ph), TWO_PI, n) /\ -(c - ph) \in Int
      BY <1>1, <1>2, <2>2, WithinOpposite
    <3>2. QED
      BY <1>1, <1>2, <2>1, <3>1, WithinMoved
  <2>3. ASSUME WithinOf(c + ph, TWO_PI, n) PROVE WithinOf(b - ph, TWO_PI, n + k)
    <3>1. WithinOf(-(c + ph), TWO_PI, n) /\ -(c + ph) \in Int
      BY <1>1, <1>2, <2>3, WithinOpposite
    <3>2. QED
      BY <1>1, <1>2, <2>1, <3>1, WithinMoved
  <2>4. QED
    BY <2>2, <2>3
<1>5. QED
  BY <1>3, <1>4

\* The bounds of the measure.
LEMMA DistanceRange ==
    ASSUME NEW f \in {"sin", "cos", "tan"}, NEW a \in Int
    PROVE  /\ Distance(f, a) \in 0..6
           /\ a >= 0 => Distance(f, a) <= 5
           /\ a >= 0 /\ a < TWO_PI => Distance(f, a) <= 4
           /\ a >= 0 /\ a < PI => Distance(f, a) <= 3
           /\ a >= TWO_PI => Distance(f, a) = 5
           /\ PI <= a /\ a < TWO_PI => Distance(f, a) = 4
           /\ a < 0 => IF f = "tan" \/ a < -HALF_PI THEN Distance(f, a) = 6 ELSE Distance(f, a) = 2
           /\ f = "tan" =>
                /\ HALF_PI < a /\ a < PI => Distance(f, a) = 3
                /\ QUARTER_PI < a /\ a <= HALF_PI => Distance(f, a) = 2
                /\ EIGHTH_PI < a /\ a <= QUARTER_PI => Distance(f, a) = 1
                /\ 0 <= a /\ a <= EIGHTH_PI => Distance(f, a) = 0
           /\ f # "tan" =>
                /\ HALF_PI < a /\ a < PI => Distance(f, a) = 3
                /\ QUARTER_PI < a /\ a <= HALF_PI => Distance(f, a) = 1
                /\ 0 <= a /\ a <= QUARTER_PI => Distance(f, a) = 0
<1>1. /\ EIGHTH_PI \in Nat \ {0} /\ QUARTER_PI = 2 * EIGHTH_PI /\ HALF_PI = 4 * EIGHTH_PI
      /\ PI = 8 * EIGHTH_PI + 1 /\ TWO_PI = 16 * EIGHTH_PI + 2
  BY AngleConstants
<1> HIDE DEF QUARTER_PI, HALF_PI, PI, TWO_PI
<1>2. CASE f = "tan"
  BY <1>1, <1>2 DEF Distance
<1>3. CASE f # "tan"
  BY <1>1, <1>3 DEF Distance
<1>4. QED
  BY <1>2, <1>3

\* What a call of a function does to the flags.
LEMMA CallsFlag ==
    ASSUME AngleInv, NEW f \in {"sin", "cos", "tan"}, NEW a \in Int, NEW not \in BOOLEAN, Calls(f, a, not)
    PROVE  /\ apc' = "call" /\ fn' = f /\ angle' = a /\ of' = of /\ calls' = calls + 1
           /\ calls' \in Nat /\ flipped' \in BOOLEAN
           /\ not => (flipped' <=> ~flipped)
           /\ ~not => (flipped' <=> flipped)
<1>1. flipped \in BOOLEAN /\ calls \in Nat
  BY DEF AngleInv, AngleTypeOK
<1>2. flipped' = (flipped # not)
  BY DEF Calls
<1>3. /\ flipped' \in BOOLEAN
      /\ not => (flipped' <=> ~flipped)
      /\ ~not => (flipped' <=> flipped)
  <2>1. flipped' \in BOOLEAN
    BY <1>2, Zenon
  <2>2. not => (flipped' <=> ~flipped)
    BY <1>1, <1>2, Zenon
  <2>3. ~not => (flipped' <=> flipped)
    BY <1>1, <1>2, Zenon
  <2>4. QED
    BY <2>1, <2>2, <2>3
<1>4. QED
  BY <1>1, <1>3 DEF Calls

\* A call of sin or cos that keeps the phase, or its opposite, up to j whole turns
\* and d, which is at most k.
CosineCall(f, a, not, k, d, j) ==
    /\ fn # "tan" /\ f \in {"sin", "cos"} /\ a \in Int /\ not \in BOOLEAN
    /\ Calls(f, a, not) /\ Kept
    /\ Distance(f, a) < Left
    /\ k \in {0, 1} /\ d \in -k..k /\ j \in Int
    /\ CosineSlack(Left) + k <= CosineSlack(Distance(f, a))
    /\ Cosine' = Cosine + d + j * TWO_PI \/ Cosine' = -Cosine + d + j * TWO_PI

LEMMA CosineStep ==
    ASSUME AngleInv, NEW f, NEW a, NEW not, NEW k, NEW d, NEW j, CosineCall(f, a, not, k, d, j)
    PROVE  AngleInv'
<1> USE DEF CosineCall
<1>1. /\ apc' = "call" /\ fn' = f /\ angle' = a /\ of' = of /\ calls' = calls + 1
      /\ calls' \in Nat /\ flipped' \in BOOLEAN /\ inverse' = inverse /\ halved' = halved
  BY CallsFlag DEF Kept
<1>2. /\ AngleTypeOK /\ calls + Left <= 6 /\ of.fn # "tan" /\ CosineKept /\ ~inverse /\ ~halved
  BY DEF AngleInv
<1>3. AngleTypeOK'
  BY <1>1, <1>2 DEF AngleTypeOK
<1>4. Left' = Distance(f, a) /\ Left' \in 0..6 /\ Left \in 0..6
  BY <1>1, <1>2, DistanceRange DEF Left, AngleTypeOK, Distance
<1>5. calls' + Left' <= 6
  BY <1>1, <1>2, <1>4 DEF AngleTypeOK
<1>6. CosineKept'
  <2> DEFINE ph == Phase(of.fn, of.angle)
  <2> DEFINE n == CosineSlack(Left)
  <2> DEFINE n2 == CosineSlack(Left')
  <2>1. ph \in Int /\ Cosine \in Int /\ Cosine' \in Int /\ ph' = ph
    BY <1>1, <1>2, <1>3, AngleConstants DEF Phase, Cosine, AngleTypeOK
  <2>2. n \in Nat /\ n2 \in Nat /\ n + k \in Nat /\ n + k <= n2 /\ TWO_PI \in Nat \ {0} /\ k \in Nat
    BY <1>4, AngleConstants DEF CosineSlack
  <2>3. WithinOf(Cosine - ph, TWO_PI, n) \/ WithinOf(Cosine + ph, TWO_PI, n)
    BY <1>2 DEF CosineKept
  <2>4. WithinOf(Cosine' - ph, TWO_PI, n + k) \/ WithinOf(Cosine' + ph, TWO_PI, n + k)
    <3> HIDE DEF ph, n, TWO_PI, Cosine
    <3>1. QED
      BY <2>1, <2>2, <2>3, PhaseMoved
  <2>5. WithinOf(Cosine' - ph, TWO_PI, n2) \/ WithinOf(Cosine' + ph, TWO_PI, n2)
    <3>1. Cosine' - ph \in Int /\ Cosine' + ph \in Int
      BY <2>1
    <3>2. QED
      BY <2>2, <2>4, <3>1, WithinMore
  <2>6. CosineKept' = (WithinOf(Cosine' - ph', TWO_PI, n2) \/ WithinOf(Cosine' + ph', TWO_PI, n2))
    BY DEF CosineKept, WithinOf, CosineSlack, TWO_PI
  <2>7. QED
    BY <2>1, <2>5, <2>6
<1>7. QED
  BY <1>1, <1>2, <1>3, <1>5, <1>6 DEF AngleInv

\* A call of tan that keeps the tangent, up to j half turns and d.
TangentCall(a, not, k, d, j) ==
    /\ fn = "tan" /\ a \in Int /\ not \in BOOLEAN /\ Calls(fn, a, not)
    /\ inverse' \in BOOLEAN /\ halved' \in BOOLEAN
    /\ Distance(fn, a) < Left
    /\ Distance(fn, a) >= 2 => ~inverse'
    /\ Distance(fn, a) >= 1 => ~halved'
    /\ halved' => a > 0
    /\ k \in {0, 1} /\ d \in -k..k /\ j \in Int
    /\ TangentSlack(Left) + k <= TangentSlack(Distance(fn, a))
    /\ Tangent' = Tangent + d + j * PI

LEMMA TangentStep ==
    ASSUME AngleInv, NEW a, NEW not, NEW k, NEW d, NEW j, TangentCall(a, not, k, d, j)
    PROVE  AngleInv'
<1> USE DEF TangentCall
<1>1. /\ AngleTypeOK /\ calls + Left <= 6 /\ of.fn = "tan" /\ TangentKept
  BY DEF AngleInv
<1>2. /\ apc' = "call" /\ fn' = "tan" /\ angle' = a /\ of' = of /\ calls' = calls + 1
      /\ calls' \in Nat /\ flipped' \in BOOLEAN
  BY CallsFlag
<1>3. AngleTypeOK'
  BY <1>1, <1>2 DEF AngleTypeOK
<1>4. Left' = Distance(fn, a) /\ Left' \in 0..6 /\ Left \in 0..6
  BY <1>1, <1>2, DistanceRange DEF Left, AngleTypeOK, Distance
<1>5. calls' + Left' <= 6
  BY <1>1, <1>2, <1>4 DEF AngleTypeOK
<1>6. TangentKept'
  <2> DEFINE t == Tangent - of.angle
  <2> DEFINE t2 == Tangent' - of.angle
  <2> DEFINE n == TangentSlack(Left)
  <2> DEFINE n2 == TangentSlack(Left')
  <2>1. Tangent \in Int /\ Tangent' \in Int /\ of.angle \in Int /\ of'.angle = of.angle
    BY <1>1, <1>2, <1>3, AngleConstants DEF Tangent, AngleTypeOK
  <2>2. n \in Nat /\ n2 \in Nat /\ n + k \in Nat /\ n + k <= n2 /\ PI \in Nat \ {0} /\ k \in Nat
    BY <1>4, AngleConstants DEF TangentSlack
  <2>3. j * PI \in Int
    BY <2>2, Distribute
  <2>4. t \in Int /\ t2 \in Int /\ t2 = t + d + j * PI
    <3> HIDE DEF PI, Tangent
    <3>1. QED
      BY <2>1, <2>3
  <2>5. WithinOf(t, PI, n)
    BY <1>1 DEF TangentKept
  <2>6. WithinOf(t2, PI, n2)
    <3> HIDE DEF t, t2, n, n2, PI
    <3>1. WithinOf(t2, PI, n + k)
      BY <2>2, <2>4, <2>5, WithinMoved
    <3>2. QED
      BY <2>2, <2>4, <3>1, WithinMore
  <2>7. TangentKept' = WithinOf(Tangent' - of'.angle, PI, n2)
    BY DEF TangentKept, WithinOf, TangentSlack, PI
  <2>8. QED
    BY <2>1, <2>6, <2>7
<1>7. QED
  BY <1>1, <1>2, <1>3, <1>4, <1>5, <1>6 DEF AngleInv

\* What an angle is before each of the calls.
LEMMA AngleFacts ==
    ASSUME AngleInv
    PROVE  /\ fn \in {"sin", "cos", "tan"} /\ angle \in Int
           /\ flipped \in BOOLEAN /\ inverse \in BOOLEAN /\ halved \in BOOLEAN
           /\ Left = Distance(fn, angle) /\ Left \in 0..6
  BY DistanceRange DEF AngleInv, AngleTypeOK, Left

LEMMA ReflectStep == ASSUME AngleInv, Reflect PROVE AngleInv'
<1>1. /\ fn \in {"sin", "cos", "tan"} /\ angle \in Int /\ flipped \in BOOLEAN
      /\ Left = Distance(fn, angle) /\ Left \in 0..6
  BY AngleFacts
<1>2. angle < 0 /\ Calls(fn, -angle, fn # "cos") /\ Kept /\ -angle \in Int /\ (fn # "cos") \in BOOLEAN
  BY <1>1 DEF Reflect
<1>3. /\ fn' = fn /\ angle' = -angle
      /\ fn # "cos" => (flipped' <=> ~flipped)
      /\ fn = "cos" => (flipped' <=> flipped)
  BY <1>1, <1>2, CallsFlag
<1>4. /\ PI \in Nat /\ TWO_PI = 2 * PI /\ HALF_PI \in Nat /\ PI = 2 * HALF_PI + 1
      /\ 0 * PI = 0 /\ 0 * TWO_PI = 0 /\ 1 * TWO_PI = TWO_PI
  BY AngleConstants
<1>5. -angle > 0 /\ Distance(fn, -angle) \in 0..5
  <2>1. -angle \in Int /\ -angle >= 0
    BY <1>1, <1>2
  <2>2. QED
    BY <1>1, <1>2, <2>1, DistanceRange
<1>6. CASE fn = "tan"
  <2>1. Left = 6
    BY <1>1, <1>2, <1>6, DistanceRange
  <2>2. ~inverse /\ ~halved /\ inverse' = inverse /\ halved' = halved
    BY <1>2, <1>6, <2>1 DEF AngleInv, Kept
  <2>8. inverse' \in BOOLEAN /\ ~inverse' /\ halved' \in BOOLEAN /\ ~halved'
    BY <2>2, AngleFacts
  <2>3. Tangent = (IF flipped THEN -angle ELSE angle) /\ Tangent' = (IF flipped' THEN angle ELSE -angle)
    BY <1>1, <1>3, <2>2 DEF Tangent
  <2>4. Tangent' = Tangent + 0 + 0 * PI
    BY <1>1, <1>3, <1>4, <1>6, <2>3
  <2>5. TangentSlack(Left) + 0 <= TangentSlack(Distance(fn, -angle))
    BY <1>5, <2>1 DEF TangentSlack
  <2>6. TangentCall(-angle, fn # "cos", 0, 0, 0)
    BY <1>2, <1>5, <1>6, <2>1, <2>8, <2>4, <2>5 DEF TangentCall
  <2>7. QED
    BY <2>6, TangentStep
<1>7. CASE fn # "tan"
  <2>1. Left \in {2, 6} /\ (Left = 2 => angle >= -HALF_PI)
    <3>1. IF angle < -HALF_PI THEN Left = 6 ELSE Left = 2
      BY <1>1, <1>2, <1>7, DistanceRange
    <3>2. QED
      BY <1>1, <1>4, <3>1
  <2>2. Left = 2 => Distance(fn, -angle) \in 0..1
    BY <1>1, <1>2, <1>4, <1>5, <1>7, <2>1 DEF Distance
  <2>3. CosineSlack(Left) + 1 <= CosineSlack(Distance(fn, -angle)) /\ Distance(fn, -angle) < Left
    BY <1>5, <2>1, <2>2 DEF CosineSlack
  <2>4. CASE fn = "cos"
    <3>1. Cosine = (IF flipped THEN angle + PI ELSE angle) /\ Cosine' = (IF flipped THEN -angle + PI ELSE -angle)
      BY <1>1, <1>3, <1>4, <2>4, AngleConstants DEF Cosine, Phase
    <3>2. \/ Cosine' = -Cosine + 0 + 1 * TWO_PI
          \/ Cosine' = -Cosine + 0 + 0 * TWO_PI
      BY <1>1, <1>4, <3>1
    <3>3. CosineCall(fn, -angle, fn # "cos", 1, 0, 1) \/ CosineCall(fn, -angle, fn # "cos", 1, 0, 0)
      BY <1>2, <1>7, <2>3, <2>4, <3>2 DEF CosineCall
    <3>4. QED
      BY <3>3, CosineStep
  <2>5. CASE fn = "sin"
    <3>1. /\ Cosine = (IF flipped THEN angle - HALF_PI + PI ELSE angle - HALF_PI)
          /\ Cosine' = (IF flipped THEN -angle - HALF_PI ELSE -angle - HALF_PI + PI)
      BY <1>1, <1>3, <1>4, <2>5, AngleConstants DEF Cosine, Phase
    <3>2. Cosine' = -Cosine + 1 + 0 * TWO_PI
      BY <1>1, <1>4, <3>1
    <3>3. CosineCall(fn, -angle, fn # "cos", 1, 1, 0)
      BY <1>2, <1>7, <2>3, <2>5, <3>2 DEF CosineCall
    <3>4. QED
      BY <3>3, CosineStep
  <2>6. QED
    BY <1>1, <1>7, <2>4, <2>5
<1>8. QED
  BY <1>6, <1>7

LEMMA WrapStep == ASSUME AngleInv, Wrap PROVE AngleInv'
<1>1. /\ fn \in {"sin", "cos", "tan"} /\ angle \in Int /\ flipped \in BOOLEAN
      /\ Left = Distance(fn, angle) /\ Left \in 0..6
  BY AngleFacts
<1> DEFINE turns == angle \div TWO_PI
<1> DEFINE rest == angle % TWO_PI
<1>2. angle >= TWO_PI /\ Calls(fn, rest, FALSE) /\ Kept
  BY DEF Wrap
<1>3. /\ PI \in Nat \ {0} /\ TWO_PI \in Nat \ {0} /\ TWO_PI = 2 * PI /\ HALF_PI \in Nat
  BY AngleConstants
<1>4. turns \in Nat /\ rest \in Nat /\ rest < TWO_PI /\ angle = turns * TWO_PI + rest
  <2>1. angle \in Nat
    BY <1>1, <1>2, <1>3
  <2>2. QED
    BY <1>3, <2>1, DivMod
<1> HIDE DEF turns, rest
<1>5. (-turns) * TWO_PI = -(turns * TWO_PI) /\ (-(2 * turns)) * PI = -(turns * TWO_PI) /\ turns * TWO_PI \in Int
  <2>1. (0 - turns) * TWO_PI = 0 * TWO_PI - turns * TWO_PI /\ turns * TWO_PI \in Int
    BY <1>3, <1>4, Distribute
  <2>2. (2 * turns) * PI = turns * (2 * PI)
    BY <1>3, <1>4
  <2>3. (0 - 2 * turns) * PI = 0 * PI - (2 * turns) * PI /\ (2 * turns) * PI \in Int
    BY <1>3, <1>4, Distribute
  <2>4. QED
    BY <1>3, <1>4, <2>1, <2>2, <2>3
<1>6. fn' = fn /\ angle' = rest /\ (flipped' <=> flipped)
  <2>1. rest \in Int /\ FALSE \in BOOLEAN
    BY <1>4
  <2>2. QED
    BY <1>1, <1>2, <2>1, CallsFlag
<1>7. Left = 5 /\ Distance(fn, rest) \in 0..4 /\ -turns \in Int /\ -(2 * turns) \in Int
  BY <1>1, <1>2, <1>4, DistanceRange
<1>8. CASE fn = "tan"
  <2>1. ~inverse /\ ~halved
    BY <1>7, <1>8 DEF AngleInv
  <2>2. inverse' = inverse /\ halved' = halved
    BY <1>2 DEF Kept
  <2>8. inverse' \in BOOLEAN /\ ~inverse' /\ halved' \in BOOLEAN /\ ~halved'
    BY <2>1, <2>2, AngleFacts
  <2>3. \/ ~flipped /\ Tangent' = Tangent + 0 + (-(2 * turns)) * PI
        \/ flipped /\ Tangent' = Tangent + 0 + (2 * turns) * PI
    <3>1. (2 * turns) * PI = turns * TWO_PI
      BY <1>3, <1>4
    <3>2. CASE flipped
      BY <1>1, <1>3, <1>4, <1>5, <1>6, <1>8, <2>1, <2>2, <3>1, <3>2 DEF Tangent
    <3>3. CASE ~flipped
      BY <1>1, <1>3, <1>4, <1>5, <1>6, <1>8, <2>1, <2>2, <3>3 DEF Tangent
    <3>4. QED
      BY <3>2, <3>3
  <2>4. TangentSlack(Left) + 0 <= TangentSlack(Distance(fn, rest))
    BY <1>7 DEF TangentSlack
  <2>5. 2 * turns \in Int /\ Distance(fn, rest) < Left /\ rest \in Int
    BY <1>4, <1>7
  <2>6. TangentCall(rest, FALSE, 0, 0, -(2 * turns)) \/ TangentCall(rest, FALSE, 0, 0, 2 * turns)
    <3>1. rest >= 0 /\ FALSE \in BOOLEAN /\ 0 \in {0, 1} /\ 0 \in -0..0
      BY <1>4
    <3>2. ASSUME NEW j \in Int, Tangent' = Tangent + 0 + j * PI PROVE TangentCall(rest, FALSE, 0, 0, j)
      <4> HIDE DEF Tangent, Calls, Distance, TangentSlack
      <4>1. QED
        BY <1>2, <1>7, <1>8, <2>8, <2>4, <2>5, <3>1, <3>2 DEF TangentCall
    <3> HIDE DEF Tangent, Calls, Distance, TangentSlack
    <3>3. QED
      BY <1>7, <2>3, <2>5, <3>2
  <2>7. QED
    BY <2>6, TangentStep
<1>9. CASE fn # "tan"
  <2>1. Cosine' = Cosine + 0 + (-turns) * TWO_PI
    BY <1>1, <1>3, <1>4, <1>5, <1>6, <1>9 DEF Cosine, Phase
  <2>2. CosineSlack(Left) + 0 <= CosineSlack(Distance(fn, rest))
    BY <1>7 DEF CosineSlack
  <2>3. fn \in {"sin", "cos"} /\ rest \in Int /\ Distance(fn, rest) < Left
    BY <1>1, <1>4, <1>7, <1>9
  <2>4. CosineCall(fn, rest, FALSE, 0, 0, -turns)
    <3>1. FALSE \in BOOLEAN /\ 0 \in {0, 1} /\ 0 \in -0..0
      OBVIOUS
    <3> HIDE DEF Cosine, Kept, Calls
    <3>2. QED
      BY <1>2, <1>7, <1>9, <2>1, <2>2, <2>3, <3>1 DEF CosineCall
  <2>5. QED
    BY <2>4, CosineStep
<1>10. QED
  BY <1>8, <1>9

LEMMA HalfTurnStep == ASSUME AngleInv, HalfTurn PROVE AngleInv'
<1>1. /\ fn \in {"sin", "cos", "tan"} /\ angle \in Int /\ flipped \in BOOLEAN
      /\ Left = Distance(fn, angle) /\ Left \in 0..6
  BY AngleFacts
<1>2. /\ PI \in Nat \ {0} /\ TWO_PI = 2 * PI /\ HALF_PI \in Nat
      /\ 1 * PI = PI /\ (-1) * PI = -PI /\ 0 * TWO_PI = 0 /\ (-1) * TWO_PI = -TWO_PI
  BY AngleConstants
<1>3. /\ PI <= angle /\ angle < TWO_PI /\ Calls(fn, angle - PI, fn # "tan") /\ Kept
      /\ angle - PI \in Int /\ (fn # "tan") \in BOOLEAN
  BY <1>1, <1>2 DEF HalfTurn
<1>4. /\ fn' = fn /\ angle' = angle - PI
      /\ fn # "tan" => (flipped' <=> ~flipped)
      /\ fn = "tan" => (flipped' <=> flipped)
  BY <1>1, <1>3, CallsFlag
<1>5. Left = 4 /\ Distance(fn, angle - PI) \in 0..3
  <2>1. 0 <= angle - PI /\ angle - PI < PI
    BY <1>1, <1>2, <1>3
  <2>2. QED
    BY <1>1, <1>3, <2>1, DistanceRange
<1>6. CASE fn = "tan"
  <2>1. ~inverse /\ ~halved
    BY <1>5, <1>6 DEF AngleInv
  <2>2. inverse' = inverse /\ halved' = halved
    BY <1>3 DEF Kept
  <2>8. inverse' \in BOOLEAN /\ ~inverse' /\ halved' \in BOOLEAN /\ ~halved'
    BY <2>1, <2>2, AngleFacts
  <2>3. \/ Tangent' = Tangent + 0 + (-1) * PI
        \/ Tangent' = Tangent + 0 + 1 * PI
    BY <1>1, <1>2, <1>4, <1>6, <2>1, <2>2 DEF Tangent
  <2>4. TangentSlack(Left) + 0 <= TangentSlack(Distance(fn, angle - PI))
    BY <1>5 DEF TangentSlack
  <2>5. TangentCall(angle - PI, fn # "tan", 0, 0, -1) \/ TangentCall(angle - PI, fn # "tan", 0, 0, 1)
    BY <1>3, <1>5, <1>6, <2>8, <2>3, <2>4 DEF TangentCall
  <2>6. QED
    BY <2>5, TangentStep
<1>7. CASE fn # "tan"
  <2>1. \/ Cosine' = Cosine + 0 + 0 * TWO_PI
        \/ Cosine' = Cosine + 0 + (-1) * TWO_PI
    <3> DEFINE ph == Phase(fn, angle)
    <3>1. Phase(fn, angle - PI) = ph - PI /\ ph \in Int
      BY <1>1, <1>2, AngleConstants DEF Phase
    <3>2. Phase(fn, angle)' = Phase(fn, angle - PI)
      BY <1>4 DEF Phase, HALF_PI
    <3>3. Cosine = (IF flipped THEN ph + PI ELSE ph) /\ Cosine' = (IF flipped THEN ph - PI ELSE ph - PI + PI)
      <4>1. Cosine = ph + (IF flipped THEN PI ELSE 0)
        BY DEF Cosine
      <4>2. Cosine' = ph - PI + (IF flipped' THEN PI ELSE 0)
        BY <3>1, <3>2 DEF Cosine, PI
      <4> HIDE DEF ph
      <4>3. QED
        BY <1>2, <1>4, <1>7, <3>1, <4>1, <4>2
    <3> HIDE DEF ph
    <3>4. QED
      BY <1>2, <3>1, <3>3
  <2>2. CosineSlack(Left) + 0 <= CosineSlack(Distance(fn, angle - PI))
    BY <1>5 DEF CosineSlack
  <2>3. fn \in {"sin", "cos"} /\ Distance(fn, angle - PI) < Left
    BY <1>1, <1>5, <1>7
  <2>4. CosineCall(fn, angle - PI, fn # "tan", 0, 0, 0) \/ CosineCall(fn, angle - PI, fn # "tan", 0, 0, -1)
    BY <1>3, <1>5, <1>7, <2>1, <2>2, <2>3 DEF CosineCall
  <2>5. QED
    BY <2>4, CosineStep
<1>8. QED
  BY <1>6, <1>7

LEMMA CofunctionStep == ASSUME AngleInv, Cofunction PROVE AngleInv'
<1> DEFINE f == IF fn = "sin" THEN "cos" ELSE "sin"
<1> DEFINE a == HALF_PI - angle
<1>1. /\ fn \in {"sin", "cos"} /\ angle \in Int /\ flipped \in BOOLEAN
      /\ Left = Distance(fn, angle) /\ Left \in 0..6
  BY AngleFacts DEF Cofunction
<1>2. /\ EIGHTH_PI \in Nat /\ QUARTER_PI = 2 * EIGHTH_PI /\ HALF_PI = 4 * EIGHTH_PI
      /\ PI = 8 * EIGHTH_PI + 1 /\ TWO_PI = 2 * PI /\ 0 * TWO_PI = 0 /\ 1 * TWO_PI = TWO_PI
  BY AngleConstants
<1>3. /\ fn # "tan" /\ QUARTER_PI < angle /\ angle < PI /\ Calls(f, a, FALSE) /\ Kept
      /\ a \in Int /\ f \in {"sin", "cos"} /\ FALSE \in BOOLEAN
  <2>1. a \in Int /\ f \in {"sin", "cos"} /\ FALSE \in BOOLEAN
    BY <1>1, <1>2
  <2>2. QED
    BY <2>1 DEF Cofunction
<1>4. fn' = f /\ angle' = a /\ (flipped' <=> flipped)
  BY <1>3, CallsFlag
<1>5. Left = (IF angle > HALF_PI THEN 3 ELSE 1)
  BY <1>1, <1>2, <1>3, DistanceRange
<1>6. Distance(f, a) = (IF angle > HALF_PI THEN 2 ELSE 0)
  <2>1. CASE angle > HALF_PI
    <3>1. a < 0 /\ ~(a < -HALF_PI)
      BY <1>1, <1>2, <1>3, <2>1
    <3> HIDE DEF a
    <3>2. QED
      BY <1>3, <2>1, <3>1, DistanceRange
  <2>2. CASE ~(angle > HALF_PI)
    <3>1. 0 <= a /\ a <= QUARTER_PI
      BY <1>1, <1>2, <1>3, <2>2
    <3> HIDE DEF a
    <3>2. QED
      BY <1>3, <2>2, <3>1, DistanceRange
  <2>3. QED
    BY <2>1, <2>2
<1>7. CosineSlack(Left) + 0 <= CosineSlack(Distance(f, a)) /\ Distance(f, a) < Left
  BY <1>5, <1>6 DEF CosineSlack
<1>8. \/ Cosine' = -Cosine + 0 + 1 * TWO_PI
      \/ Cosine' = -Cosine + 0 + 0 * TWO_PI
  <2>1. Phase(fn, angle) \in Int /\ Phase(f, a) = -Phase(fn, angle)
    BY <1>1, <1>2 DEF Phase
  <2> DEFINE ph == Phase(fn, angle)
  <2>2. Cosine = ph + (IF flipped THEN PI ELSE 0)
    BY DEF Cosine
  <2>3. Cosine' = -ph + (IF flipped' THEN PI ELSE 0)
    <3>1. Phase(fn, angle)' = Phase(f, a)
      BY <1>4 DEF Phase, HALF_PI
    <3>2. QED
      BY <2>1, <3>1 DEF Cosine, PI
  <2> HIDE DEF ph
  <2>4. ph \in Int
    BY <2>1 DEF ph
  <2>5. QED
    BY <1>1, <1>2, <1>4, <2>2, <2>3, <2>4
<1> HIDE DEF f, a
<1>9. ASSUME NEW j \in Int, Cosine' = -Cosine + 0 + j * TWO_PI PROVE CosineCall(f, a, FALSE, 0, 0, j)
  <2>1. 0 \in {0, 1} /\ 0 \in -0..0
    OBVIOUS
  <2>2. QED
    BY <1>3, <1>7, <1>9, <2>1 DEF CosineCall
<1>10. 0 \in Int /\ 1 \in Int
  OBVIOUS
<1>11. QED
  BY <1>8, <1>9, <1>10, CosineStep

LEMMA SupplementStep == ASSUME AngleInv, Supplement PROVE AngleInv'
<1> DEFINE a == (HALF_PI - angle) + HALF_PI
<1>1. /\ angle \in Int /\ flipped \in BOOLEAN /\ inverse \in BOOLEAN /\ halved \in BOOLEAN
      /\ Left = Distance(fn, angle)
  BY AngleFacts
<1>2. /\ EIGHTH_PI \in Nat /\ QUARTER_PI = 2 * EIGHTH_PI /\ HALF_PI = 4 * EIGHTH_PI
      /\ PI = 8 * EIGHTH_PI + 1 /\ 1 * PI = PI /\ (-1) * PI = -PI
  BY AngleConstants
<1>3. /\ fn = "tan" /\ HALF_PI < angle /\ angle < PI /\ Calls(fn, a, TRUE) /\ Kept
      /\ a \in Int /\ TRUE \in BOOLEAN
  <2>1. a \in Int /\ TRUE \in BOOLEAN
    BY <1>1, <1>2
  <2>2. QED
    BY <2>1 DEF Supplement
<1>4. angle' = a /\ (flipped' <=> ~flipped)
  BY <1>3, CallsFlag
<1>5. Left = 3 /\ Distance(fn, a) \in 0..2
  <2>1. 0 <= a /\ a < PI /\ ~(HALF_PI < a)
    BY <1>1, <1>2, <1>3
  <2> HIDE DEF a
  <2>2. QED
    BY <1>1, <1>2, <1>3, <2>1, DistanceRange
<1>6. ~inverse /\ ~halved /\ inverse' = inverse /\ halved' = halved
  BY <1>3, <1>5 DEF AngleInv, Kept
<1>7. inverse' \in BOOLEAN /\ ~inverse' /\ halved' \in BOOLEAN /\ ~halved'
  BY <1>1, <1>6
<1>8. TangentSlack(Left) + 1 <= TangentSlack(Distance(fn, a)) /\ Distance(fn, a) < Left
  BY <1>5 DEF TangentSlack
<1>9. \/ Tangent' = Tangent + 1 + (-1) * PI
      \/ Tangent' = Tangent + (-1) + 1 * PI
  <2>1. Tangent = (IF flipped THEN -angle ELSE angle) /\ Tangent' = (IF flipped' THEN -a ELSE a)
    BY <1>4, <1>6 DEF Tangent
  <2>2. QED
    BY <1>1, <1>2, <1>4, <2>1
<1> HIDE DEF a
<1>10. ASSUME NEW d \in -1..1, NEW j \in Int, Tangent' = Tangent + d + j * PI PROVE TangentCall(a, TRUE, 1, d, j)
  BY <1>3, <1>7, <1>8, <1>10 DEF TangentCall
<1>11. 1 \in -1..1 /\ -1 \in -1..1 /\ 1 \in Int /\ -1 \in Int
  OBVIOUS
<1>12. QED
  BY <1>9, <1>10, <1>11, TangentStep

LEMMA ReciprocalStep == ASSUME AngleInv, Reciprocal PROVE AngleInv'
<1> DEFINE a == HALF_PI - angle
<1>1. /\ angle \in Int /\ flipped \in BOOLEAN /\ inverse \in BOOLEAN /\ halved \in BOOLEAN
      /\ Left = Distance(fn, angle)
  BY AngleFacts
<1>2. /\ EIGHTH_PI \in Nat /\ QUARTER_PI = 2 * EIGHTH_PI /\ HALF_PI = 4 * EIGHTH_PI
      /\ PI = 8 * EIGHTH_PI + 1 /\ 0 * PI = 0
  BY AngleConstants
<1>3. /\ fn = "tan" /\ QUARTER_PI < angle /\ angle <= HALF_PI /\ Calls(fn, a, FALSE)
      /\ inverse' = TRUE /\ halved' = halved /\ a \in Int /\ FALSE \in BOOLEAN
  <2>1. a \in Int /\ FALSE \in BOOLEAN
    BY <1>1, <1>2
  <2>2. QED
    BY <2>1 DEF Reciprocal
<1>4. angle' = a /\ (flipped' <=> flipped)
  BY <1>3, CallsFlag
<1>5. Left = 2 /\ Distance(fn, a) \in 0..1
  <2>1. 0 <= a /\ a <= QUARTER_PI
    BY <1>1, <1>2, <1>3
  <2> HIDE DEF a
  <2>2. QED
    BY <1>1, <1>3, <2>1, AngleConstants DEF Distance
<1>6. ~inverse /\ ~halved
  BY <1>3, <1>5 DEF AngleInv
<1>7. inverse' \in BOOLEAN /\ inverse' /\ halved' \in BOOLEAN /\ ~halved'
  BY <1>1, <1>3, <1>6
<1>8. TangentSlack(Left) + 0 <= TangentSlack(Distance(fn, a)) /\ Distance(fn, a) < Left
  BY <1>5 DEF TangentSlack
<1>9. Tangent' = Tangent + 0 + 0 * PI
  <2>1. Tangent = (IF flipped THEN -angle ELSE angle)
    BY <1>6 DEF Tangent
  <2>2. Tangent' = (IF flipped' THEN -(HALF_PI - a) ELSE HALF_PI - a)
    BY <1>4, <1>7 DEF Tangent, HALF_PI
  <2>3. QED
    BY <1>1, <1>2, <1>4, <2>1, <2>2
<1> HIDE DEF a
<1>10. ~(Distance(fn, a) >= 2) /\ 0 \in {0, 1} /\ 0 \in -0..0 /\ 0 \in Int
  BY <1>5
<1>11. TangentCall(a, FALSE, 0, 0, 0)
  BY <1>3, <1>7, <1>8, <1>9, <1>10 DEF TangentCall
<1>12. QED
  BY <1>11, TangentStep

LEMMA HalfAngleStep == ASSUME AngleInv, HalfAngle PROVE AngleInv'
<1> DEFINE a == HalfEven(angle, 2)
<1> DEFINE off == 2 * a - angle
<1>1. /\ angle \in Int /\ flipped \in BOOLEAN /\ inverse \in BOOLEAN /\ halved \in BOOLEAN
      /\ Left = Distance(fn, angle)
  BY AngleFacts
<1>2. /\ EIGHTH_PI \in Nat \ {0} /\ QUARTER_PI = 2 * EIGHTH_PI /\ HALF_PI \in Int /\ 0 * PI = 0
  BY AngleConstants
<1>3. /\ fn = "tan" /\ EIGHTH_PI < angle /\ angle <= QUARTER_PI /\ Calls(fn, a, FALSE)
      /\ halved' = TRUE /\ inverse' = inverse /\ FALSE \in BOOLEAN
  BY DEF HalfAngle
<1>4. a \in Nat /\ off \in -1..1
  <2>1. angle \in Nat
    BY <1>1, <1>2, <1>3
  <2>2. QED
    BY <2>1, HalfTwice
<1> HIDE DEF a
<1>5. a > 0 /\ a <= EIGHTH_PI /\ a \in Int
  BY <1>1, <1>2, <1>3, <1>4
<1>6. angle' = a /\ (flipped' <=> flipped)
  BY <1>3, <1>5, CallsFlag
<1>7. Left = 1 /\ Distance(fn, a) = 0
  BY <1>1, <1>2, <1>3, <1>5, DistanceRange
<1>8. ~halved /\ halved' \in BOOLEAN /\ halved' /\ inverse' \in BOOLEAN
  BY <1>1, <1>3, <1>7 DEF AngleInv
<1>9. TangentSlack(Left) + 1 <= TangentSlack(Distance(fn, a)) /\ Distance(fn, a) < Left
  BY <1>7 DEF TangentSlack
<1>10. Tangent' = Tangent + off + 0 * PI \/ Tangent' = Tangent + (-off) + 0 * PI
  <2> DEFINE turned(w) == IF inverse THEN HALF_PI - w ELSE w
  <2>1. Tangent = (IF flipped THEN -turned(angle) ELSE turned(angle))
    BY <1>8 DEF Tangent
  <2>2. Tangent' = (IF flipped' THEN -turned(2 * a) ELSE turned(2 * a))
    BY <1>3, <1>6, <1>8 DEF Tangent, HALF_PI
  <2>3. 2 * a = angle + off /\ off \in Int
    BY <1>1, <1>4
  <2> HIDE DEF off
  <2>4. QED
    BY <1>1, <1>2, <1>6, <2>1, <2>2, <2>3
<1> HIDE DEF off
<1>11. ASSUME NEW d \in -1..1, Tangent' = Tangent + d + 0 * PI PROVE TangentCall(a, FALSE, 1, d, 0)
  <2>1. ~(Distance(fn, a) >= 2) /\ ~(Distance(fn, a) >= 1) /\ 1 \in {0, 1} /\ 0 \in Int
    BY <1>7
  <2> HIDE DEF Tangent
  <2>2. QED
    BY <1>3, <1>5, <1>8, <1>9, <1>11, <2>1 DEF TangentCall
<1>12. -off \in -1..1
  BY <1>4
<1>13. QED
  BY <1>4, <1>10, <1>11, <1>12, TangentStep

LEMMA EndsStep == ASSUME AngleInv, Ends PROVE AngleInv'
<1>1. /\ angle \in Int /\ 0 <= angle
      /\ apc' = IF angle > 0 THEN "series" ELSE IF inverse THEN "none" ELSE "zero"
      /\ UNCHANGED <<of, fn, angle, flipped, inverse, halved, calls>>
  BY AngleFacts DEF Ends
<1>2. apc' \in {"series", "zero", "none"} /\ (apc' = "none" => inverse /\ angle = 0)
  BY <1>1
<1>3. AngleTypeOK'
  BY <1>1, <1>2 DEF AngleInv, AngleTypeOK
<1>4. Left' = Left /\ (TangentKept' <=> TangentKept) /\ (CosineKept' <=> CosineKept)
  BY <1>1 DEF Left, Distance, TangentKept, CosineKept, TangentSlack, CosineSlack, WithinOf, Tangent,
              Cosine, Phase, PI, TWO_PI, HALF_PI, QUARTER_PI
<1>5. QED
  BY <1>1, <1>2, <1>3, <1>4 DEF AngleInv

\* Nothing is off before the first call.
LEMMA AngleStarts == AngleInit => AngleInv
<1>1. SUFFICES ASSUME NEW f \in {"sin", "cos", "tan"}, NEW d \in Decimal, AngleStart(f, UnitsIn(d))
               PROVE  AngleInv
  BY DEF AngleInit
<1> DEFINE a == UnitsIn(d)
<1>2. a \in Int
  <2>1. d.m \in Int /\ MAX_SCALE - d.s \in 0..PowLimit
    BY BaseType, ScaleAssumption DEF Decimal, Mantissa
  <2>2. POWERS[MAX_SCALE - d.s] \in Int
    BY <2>1, PowersType
  <2>3. QED
    BY <2>1, <2>2, Distribute DEF UnitsIn
<1> HIDE DEF a
<1>3. /\ of = [fn |-> f, angle |-> a] /\ fn = f /\ angle = a /\ flipped = FALSE /\ inverse = FALSE
      /\ halved = FALSE /\ calls = 0 /\ apc = "call"
  BY <1>1 DEF AngleStart, AngleAt, a
<1>4. AngleTypeOK
  BY <1>2, <1>3 DEF AngleTypeOK
<1>5. Left \in 0..6
  BY <1>2, <1>3, DistanceRange DEF Left
<1>6. PI \in Nat \ {0} /\ TWO_PI \in Nat \ {0} /\ HALF_PI \in Int /\ 0 * PI = 0 /\ 0 * TWO_PI = 0
  BY AngleConstants
<1>7. ASSUME NEW n \in Nat, NEW p \in Nat \ {0}, 0 * p = 0 PROVE WithinOf(0, p, n)
  <2>1. 0 \in -n..n /\ 0 \in Int /\ 0 + 0 = 0 * p
    BY <1>7
  <2>2. QED
    BY <2>1, WithinTurns
<1>8. TangentSlack(Left) \in Nat /\ CosineSlack(Left) \in Nat
  BY <1>5 DEF TangentSlack, CosineSlack
<1>9. TangentKept
  <2>1. Tangent - of.angle = 0
    BY <1>2, <1>3 DEF Tangent
  <2>2. QED
    BY <1>6, <1>7, <1>8, <2>1 DEF TangentKept
<1>10. CosineKept
  <2>1. Cosine - Phase(of.fn, of.angle) = 0
    BY <1>2, <1>3, <1>6 DEF Cosine, Phase
  <2>2. QED
    BY <1>6, <1>7, <1>8, <2>1 DEF CosineKept
<1>11. QED
  BY <1>3, <1>4, <1>5, <1>9, <1>10 DEF AngleInv

LEMMA AngleKept == AngleInv /\ [AngleNext]_avars => AngleInv'
<1>1. SUFFICES ASSUME AngleInv, [AngleNext]_avars PROVE AngleInv'
  OBVIOUS
<1>2. CASE Reflect
  BY <1>1, <1>2, ReflectStep
<1>3. CASE Wrap
  BY <1>1, <1>3, WrapStep
<1>4. CASE HalfTurn
  BY <1>1, <1>4, HalfTurnStep
<1>5. CASE Cofunction
  BY <1>1, <1>5, CofunctionStep
<1>6. CASE Supplement
  BY <1>1, <1>6, SupplementStep
<1>7. CASE Reciprocal
  BY <1>1, <1>7, ReciprocalStep
<1>8. CASE HalfAngle
  BY <1>1, <1>8, HalfAngleStep
<1>9. CASE Ends
  BY <1>1, <1>9, EndsStep
<1>10. CASE UNCHANGED avars
  BY <1>1, <1>10 DEF avars, AngleInv, AngleTypeOK, Left, Distance, TangentKept, CosineKept, TangentSlack,
                     CosineSlack, WithinOf, Tangent, Cosine, Phase, PI, TWO_PI, HALF_PI, QUARTER_PI
<1>11. QED
  BY <1>1, <1>2, <1>3, <1>4, <1>5, <1>6, <1>7, <1>8, <1>9, <1>10 DEF AngleNext

\* The inductive invariant of the functions that call each other.
THEOREM AngleInvariant == AngleSpec => []AngleInv
  BY AngleStarts, AngleKept, PTL DEF AngleSpec

LEMMA AngleInvReduced == ASSUME AngleInv PROVE AngleReduced
<1>1. /\ fn \in {"sin", "cos", "tan"} /\ angle \in Int /\ flipped \in BOOLEAN
      /\ of.fn \in {"sin", "cos", "tan"} /\ of.angle \in Int /\ calls \in Nat
      /\ Left = Distance(fn, angle) /\ Left \in 0..6
  BY AngleFacts DEF AngleInv, AngleTypeOK
<1>2. calls <= 6
  BY <1>1 DEF AngleInv
<1>3. /\ PI \in Nat \ {0} /\ TWO_PI \in Nat \ {0} /\ HALF_PI \in Int /\ PI = 2 * HALF_PI + 1
      /\ 0 * PI = 0 /\ (-1) * PI = -PI /\ EIGHTH_PI \in Nat
  BY AngleConstants
<1>4. ASSUME NEW a \in Int, NEW p \in Nat \ {0}, NEW n \in 0..3, WithinOf(a, p, n) PROVE Near(a, p)
  <2>1. n \in Nat /\ 3 \in Nat /\ n <= 3
    BY <1>4
  <2>2. WithinOf(a, p, 3)
    BY <1>4, <2>1, WithinMore
  <2>3. QED
    BY <2>2 DEF WithinOf, Near
<1>5. TangentSlack(Left) \in 0..2 /\ CosineSlack(Left) \in 0..2
  BY <1>1 DEF TangentSlack, CosineSlack
<1>6. CASE fn = "tan"
  <2> DEFINE t == Tangent - of.angle
  <2>1. of.fn = "tan" /\ WithinOf(t, PI, TangentSlack(Left))
    BY <1>6 DEF AngleInv, TangentKept
  <2>2. t \in Int
    BY <1>1, <1>3 DEF Tangent
  <2>3. Near(t, PI)
    <3> HIDE DEF t
    <3>1. TangentSlack(Left) \in 0..3
      BY <1>5
    <3>2. QED
      BY <1>3, <1>4, <2>1, <2>2, <3>1
  <2>4. ASSUME apc = "none" PROVE Near(of.angle - HALF_PI, PI)
    <3>1. inverse /\ angle = 0 /\ ~halved
      BY <2>4 DEF AngleInv
    <3>2. t = (IF flipped THEN -HALF_PI - of.angle ELSE HALF_PI - of.angle)
      BY <1>1, <1>3, <3>1 DEF Tangent
    <3> DEFINE u == of.angle - HALF_PI
    <3>3. -t \in Int /\ u \in Int /\ (u = -t + 1 + (-1) * PI \/ u = -t + 0 + 0 * PI)
      BY <1>1, <1>3, <2>2, <3>2
    <3> HIDE DEF t, u
    <3>4. WithinOf(-t, PI, 2)
      <4>1. 2 \in Nat /\ TangentSlack(Left) \in Nat /\ TangentSlack(Left) <= 2
        BY <1>5
      <4>2. WithinOf(t, PI, 2)
        BY <1>3, <2>1, <2>2, <4>1, WithinMore
      <4>3. QED
        BY <1>3, <2>2, <4>1, <4>2, WithinOpposite
    <3>5. WithinOf(u, PI, 2 + 1)
      <4>1. 2 \in Nat /\ 1 \in Nat /\ 1 \in -1..1 /\ 0 \in -1..1 /\ -1 \in Int /\ 0 \in Int
        OBVIOUS
      <4>2. QED
        BY <1>3, <3>3, <3>4, <4>1, WithinMoved
    <3>6. WithinOf(u, PI, 3) /\ 3 \in 0..3
      BY <3>5
    <3>7. QED
      BY <1>3, <1>4, <3>3, <3>6 DEF u
  <2>5. QED
    BY <1>2, <2>1, <2>3, <2>4 DEF AngleReduced
<1>7. CASE fn # "tan"
  <2> DEFINE ph == Phase(of.fn, of.angle)
  <2>1. of.fn # "tan" /\ (WithinOf(Cosine - ph, TWO_PI, CosineSlack(Left)) \/ WithinOf(Cosine + ph, TWO_PI, CosineSlack(Left)))
    BY <1>7 DEF AngleInv, CosineKept
  <2>2. Cosine - ph \in Int /\ Cosine + ph \in Int /\ CosineSlack(Left) \in 0..3
    BY <1>1, <1>3, <1>5 DEF Cosine, Phase
  <2>3. Near(Cosine - ph, TWO_PI) \/ Near(Cosine + ph, TWO_PI)
    BY <1>3, <1>4, <2>1, <2>2
  <2>4. QED
    BY <1>2, <2>1, <2>3 DEF AngleReduced, Cosine
<1>8. QED
  BY <1>6, <1>7

\* checked_sin, checked_cos and checked_tan come to an angle for their series in at most
\* six calls, and its function with the sign, the reciprocal and the double angle
\* formula that are due is that of the angle asked for.
THEOREM AnglesReduced == AngleSpec => []AngleReduced
<1>1. AngleInv => AngleReduced
  BY AngleInvReduced
<1>2. QED
  BY <1>1, AngleInvariant, PTL

-----------------------------------------------------------------------------
(* Forms *)

\* One step of a long division: the remainder of the words above and the next word.
LEMMA DivideWord ==
    ASSUME NEW p \in Nat \ {0}, NEW above \in Nat, NEW word \in Nat
    PROVE  /\ (above % p) * Base + word \in Nat
           /\ above * Base + word = (above \div p) * Base * p + ((above % p) * Base + word)
           /\ (above \div p) * Base \in Nat /\ above \div p \in Nat
<1> DEFINE q == above \div p
<1> DEFINE r == above % p
<1>1. q \in Nat /\ r \in Nat /\ above = q * p + r /\ Base \in Nat
  BY DivMod, BaseType
<1> HIDE DEF q, r
<1>2. q * p \in Nat /\ r * Base \in Nat /\ q * Base \in Nat
  BY <1>1, MulMono
<1>3. (q * p + r) * Base = (q * p) * Base + r * Base
  BY <1>1, <1>2, Distribute
<1>4. (q * p) * Base = (q * Base) * p
  BY <1>1, MulAssoc
<1>5. QED
  BY <1>1, <1>2, <1>3, <1>4 DEF q, r

\* div_by_power divides, word by word.
LEMMA DividesByPower ==
    ASSUME NEW m \in Mantissa, NEW e \in 0..PowLimit
    PROVE  /\ DivByPower(m, e).q \in Nat /\ DivByPower(m, e).r \in Nat
           /\ DivByPower(m, e).r < POWERS[e]
           /\ m = DivByPower(m, e).q * POWERS[e] + DivByPower(m, e).r
<1> DEFINE p == POWERS[e]
<1> DEFINE t1 == (Hi(m) % p) * Base + Mid(m)
<1> DEFINE t0 == (t1 % p) * Base + Lo(m)
<1> DEFINE q2 == Hi(m) \div p
<1> DEFINE q1 == t1 \div p
<1> DEFINE q0 == t0 \div p
<1>1. p \in Nat \ {0} /\ Base \in Nat /\ B2 \in Nat /\ B2 = Base * Base
  BY PowersType, BaseType DEF B2
<1>2. /\ Lo(m) \in Nat /\ Mid(m) \in Nat /\ Hi(m) \in Nat
      /\ m = Lo(m) + Base * Mid(m) + B2 * Hi(m)
  BY <1>1, WordsOf
<1>3. DivByPower(m, e).q = q2 * B2 + q1 * Base + q0 /\ DivByPower(m, e).r = t0 % p
  BY DEF DivByPower
<1> HIDE DEF p
<1>4. t1 \in Nat /\ Hi(m) * Base + Mid(m) = q2 * Base * p + t1 /\ q2 * Base \in Nat /\ q2 \in Nat
  BY <1>1, <1>2, DivideWord
<1> HIDE DEF t1, q2
<1>5. t0 \in Nat /\ t1 * Base + Lo(m) = q1 * Base * p + t0 /\ q1 * Base \in Nat /\ q1 \in Nat
  BY <1>1, <1>2, <1>4, DivideWord
<1> HIDE DEF t0, q1
<1>6. q0 \in Nat /\ t0 % p \in Nat /\ t0 % p < p /\ t0 = q0 * p + (t0 % p)
  BY <1>1, <1>5, DivMod
<1> HIDE DEF q0
<1>7. m = (Hi(m) * Base + Mid(m)) * Base + Lo(m)
  <2>1. (Hi(m) * Base + Mid(m)) * Base = (Hi(m) * Base) * Base + Mid(m) * Base /\ Hi(m) * Base \in Int
    BY <1>1, <1>2, Distribute
  <2>2. (Hi(m) * Base) * Base = B2 * Hi(m) /\ Mid(m) * Base = Base * Mid(m) /\ B2 * Hi(m) \in Int /\ Base * Mid(m) \in Int
    BY <1>1, <1>2, MulAssoc
  <2>3. QED
    BY <1>2, <2>1, <2>2
<1>8. (q2 * Base * p + t1) * Base = q2 * B2 * p + t1 * Base
  <2>1. (q2 * Base * p + t1) * Base = (q2 * Base * p) * Base + t1 * Base
    BY <1>1, <1>4, Distribute
  <2>2. (q2 * Base * p) * Base = (q2 * Base) * Base * p
    BY <1>1, <1>4, MulAssoc
  <2>3. (q2 * Base) * Base = q2 * B2
    BY <1>1, <1>4, MulAssoc
  <2>4. QED
    BY <2>1, <2>2, <2>3
<1>9. (q2 * B2 + q1 * Base + q0) * p = q2 * B2 * p + q1 * Base * p + q0 * p
  <2>1. q2 * B2 \in Nat
    BY <1>1, <1>4, MulMono
  <2>2. (q2 * B2 + q1 * Base + q0) * p = (q2 * B2 + q1 * Base) * p + q0 * p
    BY <1>1, <1>5, <1>6, <2>1, Distribute
  <2>3. QED
    BY <1>1, <1>5, <2>1, <2>2, Distribute
<1>10. q2 * B2 * p \in Int /\ q1 * Base * p \in Int /\ q0 * p \in Int /\ t1 * Base \in Int /\ q2 * B2 \in Nat
  BY <1>1, <1>4, <1>5, <1>6, MulMono
<1>11. m = (q2 * B2 + q1 * Base + q0) * p + (t0 % p)
  BY <1>2, <1>4, <1>5, <1>6, <1>7, <1>8, <1>9, <1>10
<1>12. q2 * B2 + q1 * Base + q0 \in Nat
  BY <1>5, <1>6, <1>10
<1>13. QED
  BY <1>3, <1>6, <1>11, <1>12 DEF p

\* deserialize: what it makes of any 16 bytes.
LEMMA DeserializedRight ==
    ASSUME NEW b \in [neg : BOOLEAN, field : Word, m : Mantissa]
    PROVE  LET d    == Deserialized(b)
               more == (b.field % ScaleBits) - MAX_SCALE
               off  == b.m - d.m * POWERS[more]
           IN  /\ d \in Decimal /\ d.neg = b.neg
               /\ more <= 0 => Serialized(d) = [b EXCEPT !.field = @ % ScaleBits]
               /\ more = 1  => off >= -(Ten \div 2) /\ off < Ten \div 2
               /\ more > 1  => off > -POWERS[more] /\ off < POWERS[more]
<1> DEFINE s == b.field % ScaleBits
<1> DEFINE more == s - MAX_SCALE
<1> DEFINE d == Deserialized(b)
<1>1. b.neg \in BOOLEAN /\ b.field \in Nat /\ b.m \in Mantissa
  BY DEF Word
<1>2. MAX_SCALE \in Nat /\ ScaleBits = MAX_SCALE + 4 /\ 3 <= PowLimit /\ PowLimit \in Nat
  BY ScaleAssumption, ScaleBitsAssumption
<1>3. s \in 0..(MAX_SCALE + 3) /\ more \in Int /\ more <= 3
  BY <1>1, <1>2
<1> HIDE DEF s
<1>4. CASE s <= MAX_SCALE
  <2>1. d = [neg |-> b.neg, m |-> b.m, s |-> s]
    BY <1>4 DEF Deserialized, s
  <2>2. d \in Decimal /\ d.neg = b.neg
    BY <1>1, <1>3, <1>4, <2>1 DEF Decimal
  <2>3. Serialized(d) = [neg |-> b.neg, field |-> s, m |-> b.m]
    BY <2>1 DEF Serialized
  <2>4. [b EXCEPT !.field = @ % ScaleBits] = [neg |-> b.neg, field |-> s, m |-> b.m]
    BY DEF s
  <2>5. more <= 0 /\ ~(more = 1) /\ ~(more > 1)
    BY <1>2, <1>3, <1>4
  <2>6. Serialized(d) = [b EXCEPT !.field = @ % ScaleBits]
    BY <2>3, <2>4
  <2> HIDE DEF d
  <2>7. QED
    BY <2>2, <2>5, <2>6 DEF s, d
<1>5. CASE s > MAX_SCALE
  <2> DEFINE cut == DivByPower(b.m, more)
  <2> DEFINE p == POWERS[more]
  <2> DEFINE up == cut.r >= Ten \div 2
  <2>1. more \in 1..3 /\ more \in 0..PowLimit
    BY <1>2, <1>3, <1>5
  <2>2. d = [neg |-> b.neg, m |-> IF up THEN cut.q + 1 ELSE cut.q, s |-> MAX_SCALE]
    BY <1>2, <1>3, <1>5 DEF Deserialized, s
  <2> HIDE DEF more
  <2>3. /\ cut.q \in Nat /\ cut.r \in Nat /\ cut.r < p /\ b.m = cut.q * p + cut.r
    BY <1>1, <2>1, DividesByPower
  <2>4. p \in Nat /\ p >= Ten /\ (more = 1 => p = Ten)
    <3>1. POWERS[1] = Ten /\ 1 \in 0..PowLimit
      BY <1>2, PowersAssumption
    <3>2. QED
      BY <2>1, <3>1, PowersType, PowersMono
  <2>5. Ten \in Nat /\ Ten >= 2 /\ Ten = 2 * (Ten \div 2) /\ Ten \div 2 \in Nat
    BY BaseAssumption
  <2> HIDE DEF p
  <2> DEFINE q == cut.q
  <2> DEFINE r == cut.r
  <2> HIDE DEF cut
  <2>6. q * p \in Nat /\ q * 2 <= q * p /\ (q + 1) * p = q * p + p
    <3>1. q * p \in Nat
      BY <2>3, <2>4, MulMono
    <3>2. 2 * q <= p * q /\ 2 * q = q * 2 /\ p * q = q * p
      BY <2>3, <2>4, <2>5, MulMono, MulAssoc
    <3>3. QED
      BY <2>3, <2>4, <3>1, <3>2, Distribute
  <2>7. q + 1 \in Mantissa /\ q \in Mantissa
    <3>1. b.m \in 0..Max96 /\ Max96 \in Nat /\ Max96 >= 7
      BY <1>1, BaseType DEF Mantissa
    <3>2. 2 * q <= Max96
      BY <2>3, <2>6, <3>1
    <3>3. QED
      BY <2>3, <3>1, <3>2 DEF Mantissa
  <2>8. d \in Decimal /\ d.neg = b.neg /\ d.m = (IF up THEN q + 1 ELSE q)
    <3>1. (IF up THEN q + 1 ELSE q) \in Mantissa
      BY <2>7
    <3>2. QED
      BY <1>1, <1>2, <2>2, <3>1 DEF Decimal
  <2>9. b.m - d.m * p = (IF up THEN r - p ELSE r)
    BY <2>3, <2>4, <2>6, <2>8
  <2>10. more = 1 => b.m - d.m * p >= -(Ten \div 2) /\ b.m - d.m * p < Ten \div 2
    BY <2>3, <2>4, <2>5, <2>9
  <2>11. b.m - d.m * p > -p /\ b.m - d.m * p < p
    BY <2>3, <2>4, <2>5, <2>9
  <2>12. ~(more <= 0)
    BY <2>1
  <2>13. QED
    BY <2>8, <2>10, <2>11, <2>12 DEF more, p, s
<1>6. QED
  BY <1>2, <1>3, <1>4, <1>5

\* serialize: what was written is read back.
LEMMA SerializedBack ==
    ASSUME NEW d \in Decimal
    PROVE  Deserialized(Serialized(d)) = d
<1>1. MAX_SCALE \in Nat /\ ScaleBits = MAX_SCALE + 4
  BY ScaleAssumption, ScaleBitsAssumption
<1>2. d.s \in 0..MAX_SCALE /\ d = [neg |-> d.neg, m |-> d.m, s |-> d.s]
  BY DEF Decimal
<1>3. d.s % ScaleBits = d.s
  BY <1>1, <1>2
<1>4. Serialized(d).field = d.s /\ Serialized(d).neg = d.neg /\ Serialized(d).m = d.m
  BY DEF Serialized
<1>5. QED
  BY <1>1, <1>2, <1>3, <1>4 DEF Deserialized

\* Nothing is not an answer.
LEMMA NoFormFits ==
    /\ \A b, m, s : [neg |-> b, m |-> m, s |-> s] # NoForm
    /\ \A i : [n |-> i] # NoForm
<1>1. DOMAIN NoForm = {"none"}
  BY DEF NoForm
<1>2. ASSUME NEW b, NEW m, NEW s PROVE [neg |-> b, m |-> m, s |-> s] # NoForm
  <2>1. DOMAIN [neg |-> b, m |-> m, s |-> s] = {"neg", "m", "s"}
    OBVIOUS
  <2>2. QED
    BY <1>1, <2>1
<1>3. ASSUME NEW i PROVE [n |-> i] # NoForm
  <2>1. DOMAIN [n |-> i] = {"n"}
    OBVIOUS
  <2>2. QED
    BY <1>1, <2>1
<1>4. QED
  BY <1>2, <1>3

SixKinds  == {"i32", "u32", "i64", "u64", "i128", "u128"}
FourKinds == {"i64", "u64", "i128", "u128"}

\* Half of each type, in words.
LEMMA Halves ==
    /\ Base = 2 * (Base \div 2) /\ Base \div 2 \in Nat /\ Base \div 2 >= 1
    /\ B2 \div 2 = (Base \div 2) * Base /\ B2 = 2 * (B2 \div 2) /\ B2 \div 2 \in Nat
    /\ B2 * B2 \in Nat /\ (B2 * B2) \div 2 >= B3 /\ B3 < B2 * B2
    /\ (B2 * B2) \div 2 <= B2 * B2 /\ (B2 * B2) \div 2 \in Nat
<1> DEFINE h == Base \div 2
<1>1. Base = 2 * h /\ h \in Nat /\ h >= 1 /\ Base \in Nat
  BY BaseAssumption
<1>2. B2 \in Nat /\ B3 \in Nat /\ B2 = Base * Base /\ B3 = B2 * Base /\ B3 >= 8
  BY BaseType DEF B2, B3
<1> HIDE DEF h
<1>3. h * Base \in Nat /\ Base * Base = 2 * (h * Base)
  BY <1>1, MulAssoc
<1>4. B2 \div 2 = h * Base /\ B2 = 2 * (B2 \div 2) /\ B2 \div 2 \in Nat
  BY <1>2, <1>3
<1>5. B2 * B2 = 2 * (B3 * h)
  <2>1. B2 * B2 = (B2 * Base) * Base
    BY <1>1, <1>2, MulAssoc
  <2>2. B3 * Base = (B3 * h) * 2
    BY <1>1, <1>2, MulAssoc
  <2>3. QED
    BY <1>1, <1>2, <2>1, <2>2
<1>6. B3 * h \in Nat /\ B3 * h >= B3
  BY <1>1, <1>2, MulMono, MulAssoc
<1>7. (B2 * B2) \div 2 = B3 * h
  BY <1>5, <1>6
<1>8. QED
  BY <1>1, <1>2, <1>4, <1>5, <1>6, <1>7 DEF h

\* The limits of each type of integer.
LEMMA KindFacts ==
    ASSUME NEW kind \in SixKinds, NEW n \in Int
    PROVE  /\ kind = "i32"  => (n \in IntegersOf(kind) <=> -(Base \div 2) <= n /\ n < Base \div 2)
           /\ kind = "u32"  => (n \in IntegersOf(kind) <=> 0 <= n /\ n < Base)
           /\ kind = "i64"  => (n \in IntegersOf(kind) <=> -(B2 \div 2) <= n /\ n < B2 \div 2)
           /\ kind = "u64"  => (n \in IntegersOf(kind) <=> 0 <= n /\ n < B2)
           /\ kind = "i128" => (n \in IntegersOf(kind) <=> -((B2 * B2) \div 2) <= n /\ n < (B2 * B2) \div 2)
           /\ kind = "u128" => (n \in IntegersOf(kind) <=> 0 <= n /\ n < B2 * B2)
           /\ Words(kind) = (IF kind \in {"i32", "u32"} THEN 1 ELSE IF kind \in {"i64", "u64"} THEN 2 ELSE 4)
           /\ Limit(kind) = (IF kind \in {"i32", "u32"} THEN Base ELSE IF kind \in {"i64", "u64"} THEN B2 ELSE B2 * B2)
           /\ HasSign(kind) <=> kind \in {"i32", "i64", "i128"}
<1>1. Words(kind) = (IF kind \in {"i32", "u32"} THEN 1 ELSE IF kind \in {"i64", "u64"} THEN 2 ELSE 4)
  BY DEF Words, SixKinds
<1>2. Limit(kind) = (IF kind \in {"i32", "u32"} THEN Base ELSE IF kind \in {"i64", "u64"} THEN B2 ELSE B2 * B2)
  BY <1>1 DEF Limit, SixKinds
<1>3. HasSign(kind) <=> kind \in {"i32", "i64", "i128"}
  BY DEF HasSign
<1> DEFINE half == Limit(kind) \div 2
<1>4. /\ Base \in Nat /\ B2 \in Nat /\ B2 * B2 \in Nat
      /\ Base \div 2 \in Nat /\ B2 \div 2 \in Nat /\ (B2 * B2) \div 2 \in Nat
  BY Halves, BaseType
<1>5. Limit(kind) \in Nat /\ half \in Nat
  BY <1>2, <1>4
<1>6. n \in IntegersOf(kind) <=> IF HasSign(kind) THEN -half <= n /\ n < half ELSE 0 <= n /\ n < Limit(kind)
  BY <1>5 DEF IntegersOf
<1> HIDE DEF half
<1>7. half = (IF kind \in {"i32", "u32"} THEN Base \div 2 ELSE IF kind \in {"i64", "u64"} THEN B2 \div 2 ELSE (B2 * B2) \div 2)
  BY <1>2 DEF half
<1>8. QED
  BY <1>1, <1>2, <1>3, <1>6, <1>7

\* A decimal truncated is a mantissa.
LEMMA TruncatedType ==
    ASSUME NEW d \in Decimal
    PROVE  Truncated(d) \in Mantissa /\ Negated(d, Truncated(d)) \in Int /\ d.neg \in BOOLEAN
<1>1. d.m \in 0..Max96 /\ Max96 \in Nat /\ d.s \in 0..PowLimit /\ d.neg \in BOOLEAN
  BY BaseType, ScaleAssumption DEF Decimal, Mantissa
<1>2. POWERS[d.s] \in Nat \ {0}
  BY <1>1, PowersType
<1>3. d.m \div POWERS[d.s] \in Nat /\ d.m \div POWERS[d.s] <= d.m
  <2> DEFINE p == POWERS[d.s]
  <2> DEFINE q == d.m \div p
  <2>0. d.m \in Nat /\ p \in Nat \ {0}
    BY <1>1, <1>2
  <2>1. q \in Nat /\ d.m % p \in Nat /\ d.m = q * p + (d.m % p)
    BY <2>0, DivMod
  <2> HIDE DEF p, q
  <2>2. p \in Nat /\ p >= 1
    BY <1>2 DEF p
  <2>3. 1 * q <= p * q /\ p * q = q * p
    BY <2>1, <2>2, MulMono, MulAssoc
  <2>4. QED
    BY <1>1, <2>1, <2>2, <2>3 DEF p, q
<1>4. QED
  BY <1>1, <1>3 DEF Truncated, Negated, Mantissa

\* Which mantissas have no high word, and a middle word in the upper half.
LEMMA HighWordOf ==
    ASSUME NEW t \in Mantissa
    PROVE  /\ Hi(t) = 0 <=> t < B2
           /\ t < B2 => Low64(t) = t
           /\ t < B2 => (Mid(t) >= Base \div 2 <=> t >= B2 \div 2)
           /\ t < B2 => (t = B2 \div 2 <=> Mid(t) = Base \div 2 /\ Lo(t) = 0)
<1> DEFINE h == Base \div 2
<1>1. /\ B2 \in Nat /\ B2 >= 4 /\ Base \in Nat /\ Base >= 2 /\ h \in Nat
      /\ B2 \div 2 = h * Base /\ h * Base \in Nat
  BY BaseType, Halves
<1>2. /\ Hi(t) \in 0..(Base - 1) /\ Low64(t) \in 0..(B2 - 1) /\ t = Hi(t) * B2 + Low64(t)
  BY HighLow
<1>3. /\ Lo(t) \in 0..(Base - 1) /\ Mid(t) \in 0..(Base - 1)
      /\ t = Lo(t) + Base * Mid(t) + B2 * Hi(t)
  BY WordsOf
<1> HIDE DEF h
<1>4. Hi(t) = 0 => t < B2 /\ Low64(t) = t /\ t = Lo(t) + Base * Mid(t)
  <2>1. SUFFICES ASSUME Hi(t) = 0 PROVE t < B2 /\ Low64(t) = t /\ t = Lo(t) + Base * Mid(t)
    OBVIOUS
  <2>2. 0 * B2 = 0 /\ B2 * 0 = 0 /\ Base * Mid(t) \in Int
    BY <1>1, <1>3
  <2>3. QED
    BY <1>1, <1>2, <1>3, <2>1, <2>2
<1>5. Hi(t) # 0 => t >= B2
  <2>1. SUFFICES ASSUME Hi(t) >= 1 PROVE t >= B2
    BY <1>1, <1>2
  <2>2. 1 * B2 <= Hi(t) * B2 /\ Hi(t) * B2 \in Int
    BY <1>1, <1>2, <2>1, MulMono
  <2>3. QED
    BY <1>1, <1>2, <2>2
<1>6. t \in Int
  BY BaseType DEF Mantissa
<1>7. ASSUME t < B2
      PROVE  /\ Mid(t) >= h <=> t >= h * Base
             /\ t = h * Base <=> Mid(t) = h /\ Lo(t) = 0
  <2>1. Hi(t) = 0 /\ t = Lo(t) + Base * Mid(t)
    BY <1>1, <1>4, <1>5, <1>6, <1>7
  <2>2. Base * Mid(t) = Mid(t) * Base /\ Mid(t) * Base \in Int
    BY <1>1, <1>3, MulAssoc
  <2>3. ASSUME Mid(t) >= h PROVE h * Base <= Mid(t) * Base
    BY <1>1, <1>3, <2>3, MulMono
  <2>4. ASSUME Mid(t) + 1 <= h PROVE Mid(t) * Base + Base <= h * Base
    <3>1. (Mid(t) + 1) * Base <= h * Base
      BY <1>1, <1>3, <2>4, MulMono
    <3>2. (Mid(t) + 1) * Base = Mid(t) * Base + 1 * Base
      BY <1>1, <1>3, Distribute
    <3>3. QED
      BY <1>1, <3>1, <3>2
  <2>5. ASSUME Mid(t) >= h + 1 PROVE h * Base + Base <= Mid(t) * Base
    <3>1. (h + 1) * Base <= Mid(t) * Base
      BY <1>1, <1>3, <2>5, MulMono
    <3>2. (h + 1) * Base = h * Base + 1 * Base
      BY <1>1, Distribute
    <3>3. QED
      BY <1>1, <3>1, <3>2
  <2>6. Mid(t) + 1 <= h \/ Mid(t) = h \/ Mid(t) >= h + 1
    BY <1>1, <1>3
  <2>7. QED
    BY <1>1, <1>3, <2>1, <2>2, <2>3, <2>4, <2>5, <2>6
<1>8. QED
  BY <1>1, <1>2, <1>4, <1>5, <1>6, <1>7, SMTT(30) DEF h

\* to_i64: the test of the middle word is the test of the type's limits.
LEMMA ToI64Right ==
    ASSUME NEW d \in Decimal
    PROVE  LET n == Negated(d, Truncated(d))
           IN  ToI64(d) = IF -(B2 \div 2) <= n /\ n < B2 \div 2 THEN [n |-> n] ELSE NoForm
<1> DEFINE t == Truncated(d)
<1>1. t \in Mantissa /\ d.neg \in BOOLEAN /\ t \in Nat
  BY TruncatedType, BaseType DEF Mantissa
<1> HIDE DEF t
<1>2. B2 \in Nat /\ B2 = 2 * (B2 \div 2) /\ B2 \div 2 \in Nat /\ Base \div 2 \in Nat
  BY BaseType, Halves
<1>3. /\ Hi(t) = 0 <=> t < B2
      /\ t < B2 => Low64(t) = t
      /\ t < B2 => (Mid(t) >= Base \div 2 <=> t >= B2 \div 2)
      /\ t < B2 => (t = B2 \div 2 <=> Mid(t) = Base \div 2 /\ Lo(t) = 0)
  BY <1>1, HighWordOf
<1>4. ToI64(d) = IF Hi(t) # 0 THEN NoForm
                 ELSE IF Mid(t) >= Base \div 2
                 THEN IF d.neg /\ Mid(t) = Base \div 2 /\ Lo(t) = 0 THEN [n |-> -(B2 \div 2)] ELSE NoForm
                 ELSE [n |-> Negated(d, Low64(t))]
  BY DEF ToI64, t
<1>5. CASE t >= B2
  <2>1. ToI64(d) = NoForm
    BY <1>1, <1>2, <1>3, <1>4, <1>5
  <2>2. ~(-(B2 \div 2) <= Negated(d, t) /\ Negated(d, t) < B2 \div 2)
    BY <1>1, <1>2, <1>5 DEF Negated
  <2>3. QED
    BY <2>1, <2>2 DEF t
<1>6. CASE t < B2 /\ t >= B2 \div 2
  <2>1. ToI64(d) = IF d.neg /\ t = B2 \div 2 THEN [n |-> -(B2 \div 2)] ELSE NoForm
    BY <1>3, <1>4, <1>6
  <2>2. (-(B2 \div 2) <= Negated(d, t) /\ Negated(d, t) < B2 \div 2) <=> (d.neg /\ t = B2 \div 2)
    BY <1>1, <1>2, <1>6 DEF Negated
  <2>3. d.neg /\ t = B2 \div 2 => Negated(d, t) = -(B2 \div 2)
    BY DEF Negated
  <2>4. QED
    BY <2>1, <2>2, <2>3 DEF t
<1>7. CASE t < B2 \div 2
  <2>1. t < B2
    BY <1>1, <1>2, <1>7
  <2>2. ToI64(d) = [n |-> Negated(d, t)]
    BY <1>1, <1>2, <1>3, <1>4, <1>7, <2>1
  <2>3. -(B2 \div 2) <= Negated(d, t) /\ Negated(d, t) < B2 \div 2
    BY <1>1, <1>2, <1>7 DEF Negated
  <2>4. QED
    BY <2>2, <2>3 DEF t
<1>8. QED
  BY <1>1, <1>2, <1>5, <1>6, <1>7

\* to_i64, to_i128, to_u64, to_u128: the number truncated, if the type holds it.
LEMMA ToRight ==
    ASSUME NEW kind \in FourKinds, NEW d \in Decimal
    PROVE  LET n == Negated(d, Truncated(d))
               f == ToInteger(kind, d)
           IN  \/ f = NoForm /\ (n \notin IntegersOf(kind) \/ (d.neg /\ ~HasSign(kind)))
               \/ f # NoForm /\ f = [n |-> n] /\ n \in IntegersOf(kind)
<1> DEFINE t == Truncated(d)
<1> DEFINE n == Negated(d, t)
<1> DEFINE f == ToInteger(kind, d)
<1>1. t \in 0..Max96 /\ t \in Mantissa /\ n \in Int /\ d.neg \in BOOLEAN
  BY TruncatedType DEF Mantissa
<1>2. n = (IF d.neg THEN -t ELSE t)
  BY DEF Negated
<1>3. Max96 = B3 - 1 /\ B3 \in Nat /\ B2 \in Nat
  BY BaseType
<1>4. [n |-> n] # NoForm
  BY NoFormFits
<1>5. kind \in SixKinds
  BY DEF FourKinds, SixKinds
<1>6. Hi(t) = 0 <=> t < B2
  BY <1>1, HighWordOf
<1>7. t < B2 => Low64(t) = t
  BY <1>1, HighWordOf
<1> HIDE DEF t
<1>8. CASE kind = "i64"
  <2>1. f = IF -(B2 \div 2) <= n /\ n < B2 \div 2 THEN [n |-> n] ELSE NoForm
    BY <1>8, ToI64Right DEF ToInteger, t
  <2>2. n \in IntegersOf(kind) <=> -(B2 \div 2) <= n /\ n < B2 \div 2
    BY <1>1, <1>5, <1>8, KindFacts
  <2> HIDE DEF n
  <2>3. QED
    BY <1>4, <2>1, <2>2 DEF n, t
<1>9. CASE kind = "i128"
  <2>1. f = [n |-> n]
    BY <1>9 DEF ToInteger, t
  <2>2. n \in IntegersOf(kind) <=> -((B2 * B2) \div 2) <= n /\ n < (B2 * B2) \div 2
    BY <1>1, <1>5, <1>9, KindFacts
  <2>3. (B2 * B2) \div 2 >= B3 /\ (B2 * B2) \div 2 \in Nat
    BY Halves
  <2>4. n \in IntegersOf(kind)
    <3> DEFINE top == (B2 * B2) \div 2
    <3> HIDE DEF top, n
    <3>1. -top <= n /\ n < top
      BY <1>1, <1>2, <1>3, <2>3 DEF top
    <3>2. QED
      BY <2>2, <3>1 DEF top
  <2> HIDE DEF n
  <2>5. QED
    BY <1>4, <2>1, <2>4 DEF n, t
<1>10. CASE kind = "u64"
  <2>1. f = IF d.neg \/ Hi(t) # 0 THEN NoForm ELSE [n |-> Low64(t)]
    BY <1>10 DEF ToInteger, t
  <2>2. n \in IntegersOf(kind) <=> 0 <= n /\ n < B2
    BY <1>1, <1>5, <1>10, KindFacts
  <2>3. ~HasSign(kind)
    BY <1>5, <1>10, KindFacts, <1>1
  <2> HIDE DEF n
  <2>4. CASE d.neg
    BY <2>1, <2>3, <2>4 DEF n, t
  <2>5. CASE ~d.neg /\ t >= B2
    <3>1. f = NoForm /\ n = t /\ n \notin IntegersOf(kind)
      BY <1>1, <1>2, <1>3, <1>6, <2>1, <2>2, <2>5
    <3>2. QED
      BY <3>1 DEF n, t
  <2>6. CASE ~d.neg /\ t < B2
    <3>1. f = [n |-> n] /\ n \in IntegersOf(kind)
      BY <1>1, <1>2, <1>3, <1>6, <1>7, <2>1, <2>2, <2>6
    <3>2. QED
      BY <1>4, <3>1 DEF n, t
  <2>7. QED
    BY <1>1, <1>3, <2>4, <2>5, <2>6
<1>11. CASE kind = "u128"
  <2>1. f = IF d.neg THEN NoForm ELSE [n |-> t]
    BY <1>11 DEF ToInteger, t
  <2>2. n \in IntegersOf(kind) <=> 0 <= n /\ n < B2 * B2
    BY <1>1, <1>5, <1>11, KindFacts
  <2>3. ~HasSign(kind) /\ B3 < B2 * B2 /\ B2 * B2 \in Nat
    BY <1>5, <1>11, KindFacts, Halves, <1>1
  <2> HIDE DEF n
  <2>4. CASE d.neg
    BY <2>1, <2>3, <2>4 DEF n, t
  <2>5. CASE ~d.neg
    <3>1. f = [n |-> n] /\ n \in IntegersOf(kind)
      <4> DEFINE top == B2 * B2
      <4> HIDE DEF top
      <4>1. 0 <= n /\ n < top
        BY <1>1, <1>2, <1>3, <2>3, <2>5 DEF top
      <4>2. QED
        BY <1>2, <2>1, <2>2, <2>5, <4>1 DEF top
    <3>2. QED
      BY <1>4, <3>1 DEF n, t
  <2>6. QED
    BY <2>4, <2>5
<1>12. QED
  BY <1>8, <1>9, <1>10, <1>11 DEF FourKinds

\* from_i32 .. from_u128: an integer of 96 bits becomes a decimal that is found again.
LEMMA FromRight ==
    ASSUME NEW kind \in SixKinds, NEW n \in IntegersOf(kind)
    PROVE  LET f == FromInteger(kind, n)
           IN  \/ f = NoForm /\ (n > Max96 \/ n < -Max96)
               \/ /\ f # NoForm /\ f \in Decimal /\ f.s = 0 /\ Negated(f, f.m) = n
                  /\ kind \notin {"i32", "u32"} => ToInteger(kind, f) = [n |-> n]
<1> DEFINE size == IF n < 0 THEN -n ELSE n
<1> DEFINE f == FromInteger(kind, n)
<1> DEFINE d == [neg |-> n < 0, m |-> size, s |-> 0]
<1>1. Base \in Nat /\ B2 \in Nat /\ B3 \in Nat /\ B3 >= 8 /\ Max96 = B3 - 1 /\ Base < B2 /\ B2 < B3
  BY BaseType
<1>2. n \in Int
  <2>1. Limit(kind) \in Nat
    BY <1>1, Halves, KindFacts
  <2>2. QED
    BY <2>1 DEF IntegersOf
<1>3. size \in Nat /\ (size > Max96 => n > Max96 \/ n < -Max96)
  BY <1>1, <1>2
<1>4. Words(kind) = (IF kind \in {"i32", "u32"} THEN 1 ELSE IF kind \in {"i64", "u64"} THEN 2 ELSE 4)
  BY <1>2, KindFacts
<1>5. Limit(kind) = (IF kind \in {"i32", "u32"} THEN Base ELSE IF kind \in {"i64", "u64"} THEN B2 ELSE B2 * B2)
  BY <1>2, KindFacts
<1>6. size \div B3 = 0 <=> size < B3
  <2>1. size \div B3 \in Nat /\ size % B3 \in Nat /\ size % B3 < B3 /\ size = (size \div B3) * B3 + (size % B3)
    <3>1. size \in Nat /\ B3 \in Nat \ {0}
      BY <1>1, <1>3
    <3> HIDE DEF size
    <3>2. QED
      BY <3>1, DivMod
  <2> DEFINE q == size \div B3
  <2> HIDE DEF q, size
  <2>2. q >= 1 => 1 * B3 <= q * B3
    BY <1>1, <2>1, MulMono DEF q
  <2>3. q = 0 => q * B3 = 0
    BY <1>1
  <2>4. q \in Nat /\ q * B3 \in Int /\ size = q * B3 + (size % B3) /\ size % B3 \in Nat /\ size % B3 < B3
    BY <1>1, <2>1, MulMono DEF q
  <2>5. q = 0 <=> size < B3
    BY <1>1, <2>2, <2>3, <2>4
  <2>6. QED
    BY <2>5 DEF q
<1>7. CASE Words(kind) = 4 /\ size \div B3 # 0
  <2>1. f = NoForm
    BY <1>7 DEF FromInteger
  <2>2. n > Max96 \/ n < -Max96
    BY <1>1, <1>3, <1>6, <1>7
  <2>3. QED
    BY <2>1, <2>2
<1>8. CASE ~(Words(kind) = 4 /\ size \div B3 # 0)
  <2>1. size < SmallerOf(Limit(kind), B3)
    <3>1. Base \div 2 <= Base /\ Base \div 2 < Base /\ B2 \div 2 < B2 /\ Base \div 2 \in Nat /\ B2 \div 2 \in Nat
      BY <1>1, Halves
    <3>2. CASE kind = "i32"
      BY <1>1, <1>2, <1>5, <3>1, <3>2, KindFacts DEF SmallerOf
    <3>3. CASE kind = "u32"
      BY <1>1, <1>2, <1>5, <3>1, <3>3, KindFacts DEF SmallerOf
    <3>4. CASE kind = "i64"
      BY <1>1, <1>2, <1>5, <3>1, <3>4, KindFacts DEF SmallerOf
    <3>5. CASE kind = "u64"
      BY <1>1, <1>2, <1>5, <3>1, <3>5, KindFacts DEF SmallerOf
    <3>6. CASE kind \in {"i128", "u128"}
      <4>1. Words(kind) = 4 /\ Limit(kind) = B2 * B2
        BY <1>4, <1>5, <3>6
      <4>2. B3 < B2 * B2 /\ B2 * B2 \in Nat
        BY Halves
      <4>3. SmallerOf(Limit(kind), B3) = B3
        BY <1>1, <4>1, <4>2 DEF SmallerOf
      <4>4. QED
        BY <1>6, <1>8, <4>1, <4>3
    <3>7. QED
      BY <3>2, <3>3, <3>4, <3>5, <3>6 DEF SixKinds
  <2>2. SmallerOf(Limit(kind), B3) \in Nat /\ SmallerOf(Limit(kind), B3) <= B3
    <3>1. Limit(kind) \in Nat
      BY <1>1, <1>5, Halves
    <3>2. QED
      BY <1>1, <3>1 DEF SmallerOf
  <2>3. size % SmallerOf(Limit(kind), B3) = size
    <3> HIDE DEF size
    <3>1. QED
      BY <1>3, <2>1, <2>2
  <2>4. f = d
    BY <1>8, <2>3 DEF FromInteger
  <2>5. d # NoForm
    BY NoFormFits
  <2>6. size \in Mantissa /\ (n < 0) \in BOOLEAN /\ 0 \in 0..MAX_SCALE
    BY <1>1, <1>3, <2>1, <2>2, ScaleAssumption DEF Mantissa
  <2>7. d \in Decimal /\ d.s = 0
    BY <2>6 DEF Decimal
  <2>8. d.m = size /\ (d.neg <=> n < 0)
    OBVIOUS
  <2>9. Negated(d, size) = n
    BY <1>2, <2>8 DEF Negated
  <2>10. Truncated(d) = size
    <3>1. POWERS[0] = 1
      BY PowersAssumption
    <3>2. Truncated(d) = size \div 1
      BY <3>1 DEF Truncated
    <3>3. QED
      BY <1>3, <3>2
  <2> HIDE DEF d, size
  <2>11. ASSUME kind \notin {"i32", "u32"} PROVE ToInteger(kind, d) = [n |-> n]
    <3>1. kind \in FourKinds
      BY <2>11 DEF SixKinds, FourKinds
    <3>2. \/ n \notin IntegersOf(kind) \/ (d.neg /\ ~HasSign(kind))
          \/ ToInteger(kind, d) = [n |-> n]
      BY <2>7, <2>9, <2>10, <3>1, ToRight
    <3>3. ~(d.neg /\ ~HasSign(kind))
      <4>1. ASSUME ~HasSign(kind) PROVE n >= 0
        <5>1. kind \in {"u64", "u128"}
          BY <1>2, <3>1, <4>1, KindFacts DEF FourKinds
        <5>2. QED
          BY <1>2, <5>1, KindFacts
      <4>2. QED
        BY <1>2, <2>8, <4>1
    <3>4. QED
      BY <3>2, <3>3
  <2>12. QED
    BY <2>4, <2>5, <2>7, <2>8, <2>9, <2>11
<1>9. QED
  BY <1>7, <1>8

\* The calls there are, and the answer to each.
FormGiven ==
    \/ form.op = "serialize" /\ form.arg \in Decimal
    \/ form.op = "deserialize" /\ form.arg \in [neg : BOOLEAN, field : Word, m : Mantissa]
    \/ form.op = "from" /\ form.kind \in SixKinds /\ form.arg \in IntegersOf(form.kind)
    \/ form.op = "to" /\ form.kind \in FourKinds /\ form.arg \in Decimal

FormAnswered ==
    \/ form.op = "serialize" /\ formed = Serialized(form.arg)
    \/ form.op = "deserialize" /\ formed = Deserialized(form.arg)
    \/ form.op = "from" /\ formed = FromInteger(form.kind, form.arg)
    \/ form.op = "to" /\ formed = ToInteger(form.kind, form.arg)

FormInv == FormGiven /\ opc \in {"call", "done"} /\ (opc = "done" => FormAnswered)

\* Each form is one call of one function.
THEOREM FormInvariant == FormSpec => []FormInv
<1>1. FormInit => FormInv
  BY DEF FormInit, FormStart, FormInv, FormGiven, SixKinds, FourKinds
<1>2. FormInv /\ [FormNext]_xvars => FormInv'
  BY DEF FormInv, FormGiven, FormAnswered, FormNext, xvars, FormCall, Serialize, Deserialize, From, To
<1>3. QED
  BY <1>1, <1>2, PTL DEF FormSpec

\* 16 bytes are read as they were written, and give a decimal whatever they hold; an
\* integer becomes itself or, if 96 bits do not hold it, nothing; a decimal becomes the
\* integer it truncates to or, if the type does not hold it, nothing.
THEOREM FormsCorrect == FormSpec => []FormsAgree
<1>1. ASSUME FormInv, opc = "done" PROVE FormsAgree
  <2>1. FormGiven /\ FormAnswered
    BY <1>1 DEF FormInv
  <2>2. CASE form.op = "serialize"
    <3>1. form.arg \in Decimal /\ formed = Serialized(form.arg)
      BY <2>1, <2>2 DEF FormGiven, FormAnswered
    <3>2. Deserialized(formed) = form.arg
      BY <3>1, SerializedBack
    <3>3. QED
      BY <2>2, <3>2 DEF FormsAgree, BytesAgree, IntegersAgree
  <2>3. CASE form.op = "deserialize"
    <3>1. form.arg \in [neg : BOOLEAN, field : Word, m : Mantissa] /\ formed = Deserialized(form.arg)
      BY <2>1, <2>3 DEF FormGiven, FormAnswered
    <3>2. BytesAgree
      BY <2>3, <3>1, DeserializedRight DEF BytesAgree
    <3>3. QED
      BY <2>3, <3>2 DEF FormsAgree, IntegersAgree
  <2>4. CASE form.op = "from"
    <3>1. form.kind \in SixKinds /\ form.arg \in IntegersOf(form.kind) /\ formed = FromInteger(form.kind, form.arg)
      BY <2>1, <2>4 DEF FormGiven, FormAnswered
    <3>2. IntegersAgree
      BY <2>4, <3>1, FromRight DEF IntegersAgree
    <3>3. QED
      BY <2>4, <3>2 DEF FormsAgree, BytesAgree
  <2>5. CASE form.op = "to"
    <3>1. form.kind \in FourKinds /\ form.arg \in Decimal /\ formed = ToInteger(form.kind, form.arg)
      BY <2>1, <2>5 DEF FormGiven, FormAnswered
    <3>2. IntegersAgree
      BY <2>5, <3>1, ToRight DEF IntegersAgree
    <3>3. QED
      BY <2>5, <3>2 DEF FormsAgree, BytesAgree
  <2>6. QED
    BY <2>1, <2>2, <2>3, <2>4, <2>5 DEF FormGiven
<1>2. FormInv => FormsAgree
  BY <1>1 DEF FormsAgree, BytesAgree, IntegersAgree
<1>3. QED
  BY <1>2, FormInvariant, PTL

-----------------------------------------------------------------------------
(* Ranges *)

\* The mantissa of an end at a scale: with zeros behind it, or rounded half away.
BroughtSize(g, s) ==
    IF g.s <= s THEN g.m * POWERS[s - g.s]
    ELSE (g.m + POWERS[g.s - s] \div 2) \div POWERS[g.s - s]
Brought(g, s) == IF g.neg THEN -BroughtSize(g, s) ELSE BroughtSize(g, s)

\* The scale both ends would have if 96 bits held them.
Fine == Larger(range.low.s, range.high.s)

\* An end with as many zeros as fit: one more would not.
Raised(g, d) ==
    /\ d.neg = g.neg /\ d.s \in g.s..MAX_SCALE
    /\ d.m = g.m * POWERS[d.s - g.s]
    /\ g.m * POWERS[d.s + 1 - g.s] > Max96

RangeTypeOK ==
    /\ range \in [low : Decimal, high : Decimal, incl : BOOLEAN]
    /\ low \in Decimal /\ high \in Decimal /\ drawn \in Decimal
    /\ gpc \in {"sync", "back", "exclusive", "inclusive", "empty", "panic", "drawn"}

Started == gpc = "sync" => low = range.low /\ high = range.high

\* One end is as asked for, the other fell short of its scale.
FellShort ==
    gpc = "back" =>
        \/ low.s < high.s /\ high = range.high /\ high.s = Fine /\ Raised(range.low, low)
        \/ high.s < low.s /\ low = range.low /\ low.s = Fine /\ Raised(range.high, high)

\* The ends at their common scale; one of them at most was rounded, and only because
\* the other has no room for another place.
Met ==
    gpc \notin {"sync", "back"} =>
        /\ low.s = high.s /\ low.s <= Fine
        /\ range.low.s <= low.s \/ range.high.s <= low.s
        /\ low.s < Fine => \E d \in {range.low, range.high} :
                                d.s <= low.s /\ d.m * POWERS[low.s + 1 - d.s] > Max96
        /\ Amount(low) = Brought(range.low, low.s)
        /\ Amount(high) = Brought(range.high, low.s) - (IF range.incl \/ gpc \in {"exclusive", "panic"} THEN 0 ELSE 1)

RangeInv ==
    /\ RangeTypeOK /\ Started /\ FellShort /\ Met
    /\ gpc \in {"exclusive", "panic"} => ~range.incl
    /\ gpc = "panic" => Amount(high) = -Max96
    /\ gpc = "empty" => Amount(low) > Amount(high)
    /\ gpc = "drawn" => drawn.s = low.s /\ Amount(low) <= Amount(drawn) /\ Amount(drawn) <= Amount(high)

\* rescale to a larger scale.
LEMMA RescaledUp ==
    ASSUME NEW d \in Decimal, NEW s \in 0..MAX_SCALE, d.s <= s
    PROVE  LET e == RescaledTo(d, s)
           IN  /\ e \in Decimal /\ e.neg = d.neg /\ e.s \in d.s..s
               /\ e.m = d.m * POWERS[e.s - d.s]
               /\ e.s < s => d.m * POWERS[e.s + 1 - d.s] > Max96
<1>1. d.m \in Mantissa /\ d.s \in 0..MAX_SCALE /\ d.neg \in BOOLEAN /\ d.m \in Nat /\ MAX_SCALE \in Nat
  BY BaseType, ScaleAssumption DEF Decimal, Mantissa
<1>2. CASE d.s = s
  <2>1. RescaledTo(d, s) = d
    BY <1>2 DEF RescaledTo
  <2>2. d.s - d.s = 0 /\ POWERS[0] = 1
    BY <1>1, PowersAssumption
  <2>3. QED
    BY <1>1, <1>2, <2>1, <2>2
<1>3. CASE d.s # s
  <2> DEFINE n == s - d.s
  <2> DEFINE Fitting(k) == d.m * POWERS[k] <= Max96 /\ (k = n \/ d.m * POWERS[k + 1] > Max96)
  <2> DEFINE k == CHOOSE k \in 0..n : Fitting(k)
  <2>1. n \in 0..PowLimit /\ n \in 0..MAX_SCALE /\ ~(s <= d.s)
    <3>1. MAX_SCALE <= PowLimit /\ PowLimit \in Nat /\ 1 <= MAX_SCALE
      BY ScaleAssumption
    <3>2. QED
      BY <1>1, <1>3, <3>1
  <2>2. \E j \in 0..n : Fitting(j)
    <3> HIDE DEF n
    <3>1. QED
      BY <1>1, <2>1, LargestFitting
  <2>3. k \in 0..n /\ Fitting(k)
    <3> HIDE DEF Fitting, n
    <3>1. QED
      BY <2>2
  <2>4. RescaledTo(d, s) = [neg |-> d.neg, m |-> d.m * POWERS[k], s |-> d.s + k]
    BY <1>3, <2>1 DEF RescaledTo, WithSign, Rescaled
  <2> HIDE DEF k
  <2>5. POWERS[k] \in Nat
    BY <2>1, <2>3, PowersType, ScaleAssumption
  <2>6. d.m * POWERS[k] \in Mantissa
    BY <1>1, <2>3, <2>5, BaseType, MulMono DEF Mantissa
  <2>7. d.s + k \in 0..MAX_SCALE /\ d.s + k \in d.s..s /\ (d.s + k) - d.s = k /\ (d.s + k) + 1 - d.s = k + 1
    BY <1>1, <2>3
  <2>8. d.s + k < s => k # n
    BY <1>1, <2>3
  <2>9. QED
    BY <1>1, <2>3, <2>4, <2>6, <2>7, <2>8 DEF Decimal
<1>4. QED
  BY <1>2, <1>3

\* rescale to a smaller scale.
LEMMA RescaledDown ==
    ASSUME NEW d \in Decimal, NEW s \in 0..MAX_SCALE, s < d.s
    PROVE  LET e == RescaledTo(d, s)
           IN  /\ e \in Decimal /\ e.neg = d.neg /\ e.s = s
               /\ e.m = BroughtSize(d, s) /\ e.m < Max96
               /\ 2 * (e.m * POWERS[d.s - s] - d.m) <= POWERS[d.s - s]
               /\ 2 * (d.m - e.m * POWERS[d.s - s]) <= POWERS[d.s - s]
<1> DEFINE p == POWERS[d.s - s]
<1> DEFINE h == p \div 2
<1> DEFINE e == RescaledTo(d, s)
<1> DEFINE q == (d.m + h) \div p
<1>1. d.m \in 0..Max96 /\ d.s \in 0..MAX_SCALE /\ d.neg \in BOOLEAN /\ d.m \in Nat
      /\ MAX_SCALE \in Nat /\ Max96 \in Nat /\ Max96 >= 7 /\ MAX_SCALE <= PowLimit /\ PowLimit \in Nat
  BY BaseType, ScaleAssumption DEF Decimal, Mantissa
<1>2. d.s - s \in 1..PowLimit /\ s <= d.s /\ ~(d.s <= s) /\ d.s # s
  BY <1>1
<1>3. p \in Nat \ {0} /\ p % 2 = 0
  BY <1>2, PowersType
<1>4. e = [neg |-> d.neg, m |-> q, s |-> s]
  BY <1>2 DEF RescaledTo, WithSign, Rescaled
<1>5. BroughtSize(d, s) = q
  BY <1>2 DEF BroughtSize
<1> HIDE DEF p
<1>6. h \in Nat /\ p = 2 * h /\ h >= 1 /\ d.m + h \in Nat
  BY <1>1, <1>3
<1> HIDE DEF h
<1> DEFINE r == (d.m + h) % p
<1>7. q \in Nat /\ r \in Nat /\ r < p /\ d.m + h = q * p + r
  BY <1>3, <1>6, DivMod
<1> HIDE DEF q, r
<1>8. q * p \in Nat /\ q * p = 2 * (h * q) /\ h * q \in Nat /\ q <= h * q
  <2>1. 1 * q <= h * q /\ h * q \in Int
    BY <1>6, <1>7, MulMono
  <2>2. q * p = 2 * (h * q)
    BY <1>6, <1>7
  <2>3. h * q \in Nat
    BY <1>6, <1>7, <2>1
  <2>4. QED
    BY <1>7, <2>1, <2>2, <2>3
<1>9. 2 * (q * p - d.m) <= p /\ 2 * (d.m - q * p) <= p
  BY <1>1, <1>6, <1>7, <1>8
<1>10. q < Max96
  <2>1. SUFFICES ASSUME q >= Max96 PROVE FALSE
    BY <1>1, <1>7
  <2>2. (Max96 - 1) * 1 <= (Max96 - 1) * h /\ (Max96 - 1) * h \in Int
    <3>1. 1 * (Max96 - 1) <= h * (Max96 - 1) /\ Max96 - 1 \in Nat
      BY <1>1, <1>6, MulMono
    <3>2. QED
      BY <1>1, <1>6, <3>1, MulAssoc
  <2>3. Max96 * h <= q * h /\ q * h = h * q /\ Max96 * h = (Max96 - 1) * h + 1 * h /\ Max96 * h \in Int
    BY <1>1, <1>6, <1>7, <2>1, MulMono, MulAssoc, Distribute
  <2>4. QED
    BY <1>1, <1>6, <1>7, <1>8, <2>2, <2>3
<1>11. q \in Mantissa
  BY <1>1, <1>7, <1>10 DEF Mantissa
<1>12. e \in Decimal /\ e.m = q /\ e.s = s /\ e.neg = d.neg
  BY <1>1, <1>4, <1>11 DEF Decimal
<1>13. QED
  BY <1>5, <1>9, <1>10, <1>12 DEF p

\* Where an end is brought to, in units of the finest place: exact, or at most half off.
LEMMA BroughtNear ==
    ASSUME NEW g \in Decimal, NEW s \in 0..MAX_SCALE, NEW f \in 0..MAX_SCALE, g.s <= f, s <= f
    PROVE  LET unit == POWERS[f - s]
               in   == Amount(g) * POWERS[f - g.s]
               half == IF g.s > s THEN unit \div 2 ELSE 0
           IN  /\ BroughtSize(g, s) \in Nat /\ Brought(g, s) \in Int
               /\ Amount(g) \in Int /\ in \in Int /\ unit \in Nat \ {0} /\ half \in Nat /\ 2 * half <= unit
               /\ g.s > s => 2 * half = unit
               /\ Brought(g, s) * unit \in Int
               /\ Brought(g, s) * unit >= in - half
               /\ Brought(g, s) * unit <= in + half
<1> DEFINE unit == POWERS[f - s]
<1> DEFINE fine == POWERS[f - g.s]
<1> DEFINE b == BroughtSize(g, s)
<1>1. /\ g.m \in Nat /\ g.s \in 0..MAX_SCALE /\ g.neg \in BOOLEAN
      /\ MAX_SCALE \in Nat /\ MAX_SCALE <= PowLimit /\ PowLimit \in Nat
  BY BaseType, ScaleAssumption DEF Decimal, Mantissa
<1>2. f - s \in 0..PowLimit /\ f - g.s \in 0..PowLimit
  BY <1>1
<1>3. unit \in Nat \ {0} /\ fine \in Nat \ {0} /\ g.m * fine \in Nat
  BY <1>1, <1>2, PowersType, MulMono
<1>4. Amount(g) \in Int /\ Amount(g) = (IF g.neg THEN -g.m ELSE g.m)
  BY <1>1 DEF Amount
<1>5. Amount(g) * fine = (IF g.neg THEN -(g.m * fine) ELSE g.m * fine)
  <2>1. (0 - g.m) * fine = 0 * fine - g.m * fine
    BY <1>1, <1>3, Distribute
  <2>2. QED
    BY <1>1, <1>3, <1>4, <2>1
<1>6. ASSUME NEW x \in Nat
      PROVE  (-x) * unit = -(x * unit) /\ x * unit \in Int
  <2>1. (0 - x) * unit = 0 * unit - x * unit /\ x * unit \in Int
    BY <1>3, <1>6, Distribute
  <2>2. QED
    BY <1>3, <2>1
<1>7. CASE g.s <= s
  <2> DEFINE z == POWERS[s - g.s]
  <2>1. s - g.s \in 0..PowLimit /\ (s - g.s) + (f - s) = f - g.s
    BY <1>1, <1>7
  <2>2. z \in Nat \ {0} /\ fine = z * unit
    BY <1>2, <2>1, PowersType, PowersAdd
  <2>3. b = g.m * z
    BY <1>7 DEF BroughtSize
  <2> HIDE DEF z, unit, fine
  <2>4. b \in Nat /\ b * unit = g.m * fine
    BY <1>1, <1>3, <2>2, <2>3, MulAssoc, MulMono
  <2> HIDE DEF b
  <2>5. Brought(g, s) = (IF g.neg THEN -b ELSE b)
    BY DEF Brought, b
  <2>6. Brought(g, s) * unit = Amount(g) * fine
    BY <1>1, <1>5, <1>6, <2>4, <2>5
  <2>7. ~(g.s > s)
    BY <1>1, <1>7
  <2>8. Brought(g, s) \in Int /\ Amount(g) * fine \in Int
    BY <1>1, <1>3, <1>5, <2>4, <2>5
  <2>9. QED
    BY <1>3, <1>4, <2>4, <2>6, <2>7, <2>8 DEF b, unit, fine
<1>8. CASE g.s > s
  <2> DEFINE p == POWERS[g.s - s]
  <2> DEFINE half == unit \div 2
  <2>1. g.s - s \in 1..PowLimit /\ g.s - s \in 0..PowLimit /\ f - s \in 1..PowLimit /\ (g.s - s) + (f - g.s) = f - s /\ s < g.s
    BY <1>1, <1>8
  <2>2. p \in Nat \ {0} /\ unit = p * fine /\ unit % 2 = 0
    BY <1>2, <2>1, PowersType, PowersAdd
  <2>3. RescaledTo(g, s).m = b /\ RescaledTo(g, s) \in Decimal
        /\ 2 * (b * p - g.m) <= p /\ 2 * (g.m - b * p) <= p
    BY <2>1, RescaledDown
  <2>4. b \in Nat
    BY <2>3, BaseType DEF Decimal, Mantissa
  <2> HIDE DEF b, p, unit, fine
  <2>5. half \in Nat /\ unit = 2 * half
    BY <1>3, <2>2
  <2> HIDE DEF half
  <2>6. b * p \in Nat /\ b * unit = (b * p) * fine /\ b * unit \in Int
    BY <1>1, <1>3, <2>2, <2>4, MulAssoc, MulMono
  <2>7. 2 * (b * unit - g.m * fine) <= unit /\ 2 * (g.m * fine - b * unit) <= unit
    <3>1. (2 * (b * p - g.m)) * fine <= p * fine /\ (2 * (g.m - b * p)) * fine <= p * fine
      BY <1>1, <1>3, <2>2, <2>3, <2>6, MulMono
    <3>2. (2 * (b * p - g.m)) * fine = 2 * ((b * p) * fine - g.m * fine)
      <4>1. (b * p - g.m) * fine = (b * p) * fine - g.m * fine
        BY <1>1, <1>3, <2>6, Distribute
      <4>2. (2 * (b * p - g.m)) * fine = 2 * ((b * p - g.m) * fine)
        BY <1>1, <1>3, <2>6, MulAssoc
      <4>3. QED
        BY <4>1, <4>2
    <3>3. (2 * (g.m - b * p)) * fine = 2 * (g.m * fine - (b * p) * fine)
      <4>1. (g.m - b * p) * fine = g.m * fine - (b * p) * fine
        BY <1>1, <1>3, <2>6, Distribute
      <4>2. (2 * (g.m - b * p)) * fine = 2 * ((g.m - b * p) * fine)
        BY <1>1, <1>3, <2>6, MulAssoc
      <4>3. QED
        BY <4>1, <4>2
    <3>4. QED
      BY <2>2, <2>6, <3>1, <3>2, <3>3
  <2>8. Brought(g, s) = (IF g.neg THEN -b ELSE b)
    BY DEF Brought, b
  <2>9. Brought(g, s) * unit = (IF g.neg THEN -(b * unit) ELSE b * unit)
    BY <1>1, <1>6, <2>4, <2>8
  <2>10. Brought(g, s) \in Int /\ Amount(g) * fine \in Int /\ Brought(g, s) * unit \in Int
    BY <1>1, <1>3, <1>5, <2>4, <2>6, <2>8, <2>9
  <2>11. /\ Brought(g, s) * unit >= Amount(g) * fine - half
         /\ Brought(g, s) * unit <= Amount(g) * fine + half
    BY <1>1, <1>3, <1>5, <2>5, <2>6, <2>7, <2>9
  <2>12. QED
    BY <1>3, <1>4, <1>8, <2>4, <2>5, <2>10, <2>11 DEF half, b, unit, fine
<1>9. QED
  BY <1>1, <1>7, <1>8

\* The scales of a range and of its ends.
LEMMA RangeFacts ==
    ASSUME RangeInv
    PROVE  /\ range.low \in Decimal /\ range.high \in Decimal /\ range.incl \in BOOLEAN
           /\ low \in Decimal /\ high \in Decimal /\ drawn \in Decimal
           /\ MAX_SCALE \in Nat
           /\ range.low.s \in 0..MAX_SCALE /\ range.high.s \in 0..MAX_SCALE
           /\ low.s \in 0..MAX_SCALE /\ high.s \in 0..MAX_SCALE
           /\ Fine \in 0..MAX_SCALE /\ range.low.s <= Fine /\ range.high.s <= Fine
           /\ Fine = range.low.s \/ Fine = range.high.s
  BY ScaleAssumption DEF RangeInv, RangeTypeOK, Decimal, Fine, Larger

\* An end that is as fine as it was, or finer, is exactly what was asked for.
LEMMA RaisedBrought ==
    ASSUME NEW g \in Decimal, NEW d \in Decimal, g.s <= d.s, d.neg = g.neg,
           d.m = g.m * POWERS[d.s - g.s]
    PROVE  Amount(d) = Brought(g, d.s)
  BY DEF Amount, Brought, BroughtSize

LEMMA LoweredBrought ==
    ASSUME NEW g \in Decimal, NEW d \in Decimal, d.neg = g.neg, d.m = BroughtSize(g, d.s)
    PROVE  Amount(d) = Brought(g, d.s)
  BY DEF Amount, Brought

LEMMA SyncUpStep == ASSUME RangeInv, SyncUp PROVE RangeInv'
<1> DEFINE g == range.low
<1> DEFINE h == range.high
<1>1. /\ g \in Decimal /\ h \in Decimal /\ range.incl \in BOOLEAN /\ drawn \in Decimal
      /\ range \in [low : Decimal, high : Decimal, incl : BOOLEAN]
      /\ MAX_SCALE \in Nat /\ g.s \in 0..MAX_SCALE /\ h.s \in 0..MAX_SCALE
      /\ Fine \in 0..MAX_SCALE /\ g.s <= Fine /\ h.s <= Fine /\ (Fine = g.s \/ Fine = h.s)
  BY RangeFacts DEF RangeInv, RangeTypeOK
<1>2. gpc = "sync" /\ low = g /\ high = h /\ range' = range /\ drawn' = drawn
  BY DEF SyncUp, RangeInv, Started
<1>3. low' = RescaledTo(g, Fine) /\ high' = RescaledTo(h, Larger(low'.s, h.s))
  BY <1>2 DEF SyncUp, Fine
<1>4. gpc' = IF low'.s = high'.s THEN (IF range.incl THEN "inclusive" ELSE "exclusive") ELSE "back"
  BY DEF SyncUp, After
<1> HIDE DEF g, h
<1>5. /\ low' \in Decimal /\ low'.neg = g.neg /\ low'.s \in g.s..Fine
      /\ low'.m = g.m * POWERS[low'.s - g.s]
      /\ low'.s < Fine => g.m * POWERS[low'.s + 1 - g.s] > Max96
  BY <1>1, <1>3, RescaledUp
<1> DEFINE up == Larger(low'.s, h.s)
<1>6. up \in 0..MAX_SCALE /\ h.s <= up /\ up <= Fine /\ low'.s <= up /\ (up = low'.s \/ up = h.s)
  BY <1>1, <1>5 DEF Larger
<1> HIDE DEF up
<1>7. /\ high' \in Decimal /\ high'.neg = h.neg /\ high'.s \in h.s..up
      /\ high'.m = h.m * POWERS[high'.s - h.s]
      /\ high'.s < up => h.m * POWERS[high'.s + 1 - h.s] > Max96
  BY <1>1, <1>3, <1>6, RescaledUp DEF up
<1>8. /\ RangeTypeOK' /\ Started' /\ Fine' = Fine
      /\ gpc' \in {"exclusive", "inclusive", "back"} /\ (gpc' = "exclusive" => ~range.incl) /\ (gpc' = "inclusive" => range.incl)
      /\ gpc' = "back" <=> low'.s # high'.s
  BY <1>1, <1>2, <1>4, <1>5, <1>7 DEF RangeTypeOK, Started, Fine
<1>9. low'.s \in 0..MAX_SCALE /\ high'.s \in 0..MAX_SCALE
  BY <1>5, <1>7 DEF Decimal
<1>10. CASE low'.s = high'.s
  <2>1. g.s <= low'.s /\ h.s <= low'.s /\ low'.s <= Fine
    BY <1>1, <1>5, <1>6, <1>7, <1>9, <1>10
  <2>2. Amount(low') = Brought(g, low'.s) /\ Amount(high') = Brought(h, low'.s)
    BY <1>1, <1>5, <1>7, <1>10, <2>1, RaisedBrought
  <2>3. low'.s < Fine => g.s <= low'.s /\ g.m * POWERS[low'.s + 1 - g.s] > Max96
    BY <1>5, <2>1
  <2>4. Brought(h, low'.s) \in Int
    BY <1>1, <1>9, <2>1, BroughtNear
  <2>5. Met'
    <3>1. low'.s < Fine => \E d \in {range.low, range.high} : d.s <= low'.s /\ d.m * POWERS[low'.s + 1 - d.s] > Max96
      BY <2>3 DEF g
    <3>2. Amount(high') = Brought(h, low'.s) - 0
      BY <2>2, <2>4
    <3>3. range.incl \/ gpc' \in {"exclusive", "panic"}
      BY <1>8, <1>10
    <3>4. Amount(low)' = Amount(low') /\ Amount(high)' = Amount(high')
      BY DEF Amount
    <3> HIDE DEF Brought, Amount
    <3>5. QED
      BY <1>2, <1>8, <1>10, <2>1, <2>2, <3>1, <3>2, <3>3, <3>4 DEF Met, g, h
  <2>6. FellShort'
    BY <1>8, <1>10 DEF FellShort
  <2>7. QED
    BY <1>2, <1>8, <1>10, <2>5, <2>6 DEF RangeInv
<1>11. CASE low'.s # high'.s
  <2>1. FellShort'
    <3>1. CASE low'.s < Fine
      <4>1. Fine = h.s /\ up = h.s /\ high'.s = h.s
        BY <1>1, <1>5, <1>6, <1>7, <1>9, <3>1
      <4>2. high' = h
        BY <1>3, <4>1 DEF RescaledTo, up
      <4>3. low'.s < high'.s /\ Raised(g, low')
        BY <1>1, <1>5, <1>9, <3>1, <4>1 DEF Raised
      <4>4. QED
        BY <1>2, <1>8, <4>1, <4>2, <4>3 DEF FellShort, g, h
    <3>2. CASE ~(low'.s < Fine)
      <4>1. low'.s = Fine /\ up = Fine /\ high'.s < Fine
        BY <1>1, <1>5, <1>6, <1>7, <1>9, <1>11, <3>2
      <4>2. Fine = g.s
        BY <1>1, <1>7, <1>9, <4>1
      <4>3. low' = g
        BY <1>3, <4>2 DEF RescaledTo
      <4>4. high'.s < low'.s /\ Raised(h, high')
        BY <1>1, <1>7, <1>9, <4>1 DEF Raised
      <4>5. QED
        BY <1>2, <1>8, <4>1, <4>2, <4>3, <4>4 DEF FellShort, g, h
    <3>3. QED
      BY <3>1, <3>2
  <2>2. QED
    BY <1>2, <1>8, <1>11, <2>1 DEF RangeInv, Met
<1>12. QED
  BY <1>10, <1>11

LEMMA SyncBackStep == ASSUME RangeInv, SyncBack PROVE RangeInv'
<1> DEFINE g == range.low
<1> DEFINE h == range.high
<1>1. /\ g \in Decimal /\ h \in Decimal /\ range.incl \in BOOLEAN /\ drawn \in Decimal
      /\ range \in [low : Decimal, high : Decimal, incl : BOOLEAN]
      /\ low \in Decimal /\ high \in Decimal /\ low.s \in 0..MAX_SCALE /\ high.s \in 0..MAX_SCALE
      /\ MAX_SCALE \in Nat /\ g.s \in 0..MAX_SCALE /\ h.s \in 0..MAX_SCALE
      /\ Fine \in 0..MAX_SCALE /\ g.s <= Fine /\ h.s <= Fine
  BY RangeFacts DEF RangeInv, RangeTypeOK
<1>2. gpc = "back" /\ range' = range /\ drawn' = drawn
  BY DEF SyncBack
<1>3. /\ low'  = RescaledTo(low, SmallerOf(low.s, high.s))
      /\ high' = RescaledTo(high, SmallerOf(low'.s, high.s))
      /\ gpc' = IF range.incl THEN "inclusive" ELSE "exclusive"
  BY DEF SyncBack, After
<1>4. \/ low.s < high.s /\ high = h /\ high.s = Fine /\ Raised(g, low)
      \/ high.s < low.s /\ low = g /\ low.s = Fine /\ Raised(h, high)
  BY <1>2 DEF RangeInv, FellShort
<1> HIDE DEF g, h
<1>5. /\ low' \in Decimal /\ high' \in Decimal /\ low'.s = high'.s /\ low'.s \in 0..MAX_SCALE /\ low'.s < Fine
      /\ Amount(low') = Brought(g, low'.s) /\ Amount(high') = Brought(h, low'.s)
      /\ g.s <= low'.s \/ h.s <= low'.s
      /\ \E d \in {g, h} : d.s <= low'.s /\ d.m * POWERS[low'.s + 1 - d.s] > Max96
  <2>1. CASE low.s < high.s /\ high = h /\ high.s = Fine /\ Raised(g, low)
    <3>1. SmallerOf(low.s, high.s) = low.s
      BY <1>1, <2>1 DEF SmallerOf
    <3>2. low' = low
      BY <1>3, <3>1 DEF RescaledTo
    <3>3. high' = RescaledTo(h, low.s)
      BY <1>3, <2>1, <3>1, <3>2
    <3>4. high' \in Decimal /\ high'.neg = h.neg /\ high'.s = low.s /\ high'.m = BroughtSize(h, low.s)
      BY <1>1, <2>1, <3>3, RescaledDown
    <3>5. Amount(high') = Brought(h, low.s)
      BY <1>1, <3>4, LoweredBrought
    <3>6. g.s <= low.s /\ Amount(low) = Brought(g, low.s) /\ g.m * POWERS[low.s + 1 - g.s] > Max96
      BY <1>1, <2>1, RaisedBrought DEF Raised
    <3>7. QED
      BY <1>1, <2>1, <3>2, <3>4, <3>5, <3>6
  <2>2. CASE high.s < low.s /\ low = g /\ low.s = Fine /\ Raised(h, high)
    <3>1. SmallerOf(low.s, high.s) = high.s /\ SmallerOf(high.s, high.s) = high.s
      BY <1>1, <2>2 DEF SmallerOf
    <3>2. low' = RescaledTo(g, high.s)
      BY <1>3, <2>2, <3>1
    <3>3. low' \in Decimal /\ low'.neg = g.neg /\ low'.s = high.s /\ low'.m = BroughtSize(g, high.s)
      BY <1>1, <2>2, <3>2, RescaledDown
    <3>4. high' = high
      BY <1>3, <3>1, <3>3 DEF RescaledTo
    <3>5. Amount(low') = Brought(g, high.s)
      BY <1>1, <3>3, LoweredBrought
    <3>6. h.s <= high.s /\ Amount(high) = Brought(h, high.s) /\ h.m * POWERS[high.s + 1 - h.s] > Max96
      BY <1>1, <2>2, RaisedBrought DEF Raised
    <3>7. QED
      BY <1>1, <2>2, <3>3, <3>4, <3>5, <3>6
  <2>3. QED
    BY <1>4, <2>1, <2>2
<1>6. /\ RangeTypeOK' /\ Started' /\ FellShort' /\ Fine' = Fine
      /\ gpc' \in {"exclusive", "inclusive"} /\ (gpc' = "exclusive" => ~range.incl) /\ (gpc' = "inclusive" => range.incl)
  BY <1>1, <1>2, <1>3, <1>5 DEF RangeTypeOK, Started, FellShort, Fine
<1>7. Brought(h, low'.s) \in Int
  BY <1>1, <1>5, BroughtNear
<1>8. Met'
  <2>1. Amount(high') = Brought(h, low'.s) - 0
    BY <1>5, <1>7
  <2>2. range.incl \/ gpc' \in {"exclusive", "panic"}
    BY <1>6
  <2>3. Amount(low)' = Amount(low') /\ Amount(high)' = Amount(high')
    BY DEF Amount
  <2>4. low'.s <= Fine
    BY <1>1, <1>5
  <2> HIDE DEF Brought, Amount
  <2>5. QED
    BY <1>2, <1>5, <1>6, <2>1, <2>2, <2>3, <2>4 DEF Met, g, h
<1>9. QED
  BY <1>2, <1>6, <1>8 DEF RangeInv

\* A mantissa with a sign is that many.
LEMMA SignedAmount ==
    ASSUME NEW i \in Int, -Max96 <= i, i <= Max96, NEW s \in 0..MAX_SCALE
    PROVE  LET d == [neg |-> i < 0, m |-> Off(i, 0), s |-> s] IN d \in Decimal /\ Amount(d) = i
<1> DEFINE d == [neg |-> i < 0, m |-> Off(i, 0), s |-> s]
<1>1. Off(i, 0) = (IF i < 0 THEN -i ELSE i) /\ Max96 \in Nat
  BY BaseType DEF Off
<1>2. Off(i, 0) \in 0..Max96
  BY <1>1
<1>3. (i < 0) \in BOOLEAN
  OBVIOUS
<1>4. d \in Decimal
  <2>1. d \in [neg : BOOLEAN, m : 0..Max96, s : 0..MAX_SCALE]
    <3> HIDE DEF Off
    <3>1. QED
      BY <1>2, <1>3, Zenon
  <2>2. QED
    BY <2>1 DEF Decimal, Mantissa
<1>5. (d.neg <=> i < 0) /\ d.m = Off(i, 0)
  OBVIOUS
<1> HIDE DEF d
<1>6. Amount(d) = i
  BY <1>1, <1>5 DEF Amount
<1>7. QED
  BY <1>4, <1>6 DEF d

LEMMA AmountRange ==
    ASSUME NEW d \in Decimal
    PROVE  Amount(d) \in Int /\ -Max96 <= Amount(d) /\ Amount(d) <= Max96
  BY BaseType DEF Amount, Decimal, Mantissa

\* What the later steps keep: the range, the lower end and their common scale.
LEMMA MetFacts ==
    ASSUME RangeInv, gpc \notin {"sync", "back"}
    PROVE  /\ low.s = high.s /\ low.s \in 0..MAX_SCALE /\ low.s <= Fine
           /\ range.low.s <= low.s \/ range.high.s <= low.s
           /\ Amount(low) = Brought(range.low, low.s) /\ Brought(range.high, low.s) \in Int
           /\ Amount(high) = Brought(range.high, low.s) - (IF range.incl \/ gpc \in {"exclusive", "panic"} THEN 0 ELSE 1)
  BY RangeFacts, BroughtNear DEF RangeInv, Met

LEMMA BeforeStep == ASSUME RangeInv, Before PROVE RangeInv'
<1>1. gpc = "exclusive" /\ range' = range /\ low' = low /\ drawn' = drawn /\ ~range.incl
  BY DEF Before, RangeInv
<1>2. RangeTypeOK /\ Met /\ low.s \in 0..MAX_SCALE /\ low.s = high.s /\ Amount(high) = Brought(range.high, low.s) - 0
      /\ Brought(range.high, low.s) \in Int
  BY <1>1, MetFacts DEF RangeInv
<1>3. CASE Amount(high) = -Max96
  <2>1. gpc' = "panic" /\ high' = high
    BY <1>3 DEF Before
  <2>2. Met'
    BY <1>1, <1>2, <2>1 DEF Met, Brought, BroughtSize, Fine, Larger, Amount
  <2>3. QED
    BY <1>1, <1>2, <1>3, <2>1, <2>2 DEF RangeInv, RangeTypeOK, Started, FellShort, Amount
<1>4. CASE Amount(high) # -Max96
  <2> DEFINE i == Amount(high) - 1
  <2>1. gpc' = "inclusive" /\ high' = [neg |-> i < 0, m |-> Off(Amount(high), 1), s |-> high.s]
    BY <1>4 DEF Before
  <2>2. i \in Int /\ -Max96 <= i /\ i <= Max96
    BY <1>2, <1>4, AmountRange, BaseType DEF RangeTypeOK
  <2>3. Off(Amount(high), 1) = Off(i, 0)
    BY <1>2 DEF Off
  <2>4. high' \in Decimal /\ Amount(high') = i /\ high'.s = low.s
    BY <1>2, <2>1, <2>2, <2>3, SignedAmount
  <2>5. Amount(high') = Brought(range.high, low.s) - 1
    BY <1>2, <2>4
  <2>6. Met'
    <3>1. /\ low.s <= Fine
          /\ range.low.s <= low.s \/ range.high.s <= low.s
          /\ low.s < Fine => \E d \in {range.low, range.high} :
                                d.s <= low.s /\ d.m * POWERS[low.s + 1 - d.s] > Max96
          /\ Amount(low) = Brought(range.low, low.s)
      BY <1>1, <1>2 DEF Met
    <3>2. Fine' = Fine /\ Amount(low)' = Amount(low) /\ Amount(high)' = Amount(high')
          /\ Brought(range.low, low.s)' = Brought(range.low, low.s) /\ Brought(range.high, low.s)' = Brought(range.high, low.s)
      BY <1>1 DEF Fine, Amount, Brought, BroughtSize
    <3> HIDE DEF Brought, Amount, Fine
    <3>3. QED
      BY <1>1, <2>1, <2>4, <2>5, <3>1, <3>2 DEF Met
  <2>7. RangeTypeOK' /\ Started' /\ FellShort'
    BY <1>1, <1>2, <2>1, <2>4 DEF RangeTypeOK, Started, FellShort
  <2>8. QED
    BY <1>1, <2>1, <2>6, <2>7 DEF RangeInv
<1>5. QED
  BY <1>3, <1>4

LEMMA EmptyStep == ASSUME RangeInv, Empty PROVE RangeInv'
<1>1. gpc = "inclusive" /\ gpc' = "empty" /\ range' = range /\ low' = low /\ high' = high /\ drawn' = drawn
      /\ Amount(low) > Amount(high)
  BY DEF Empty
<1>2. RangeTypeOK /\ Met
  BY DEF RangeInv
<1>3. Met'
  BY <1>1, <1>2 DEF Met, Brought, BroughtSize, Fine, Larger, Amount
<1>4. QED
  BY <1>1, <1>2, <1>3 DEF RangeInv, RangeTypeOK, Started, FellShort, Amount

LEMMA SampleStep == ASSUME RangeInv, Sample PROVE RangeInv'
<1>1. gpc = "inclusive" /\ gpc' = "drawn" /\ range' = range /\ low' = low /\ high' = high
  BY DEF Sample
<1>2. RangeTypeOK /\ Met /\ low.s \in 0..MAX_SCALE
  BY <1>1, MetFacts DEF RangeInv
<1>3. PICK i \in Amount(low)..Amount(high) : drawn' = [neg |-> i < 0, m |-> Off(i, 0), s |-> low.s]
  BY DEF Sample
<1>4. Amount(low) \in Int /\ Amount(high) \in Int /\ -Max96 <= Amount(low) /\ Amount(high) <= Max96 /\ Max96 \in Nat
  BY <1>2, AmountRange, BaseType DEF RangeTypeOK
<1>5. i \in Int /\ -Max96 <= i /\ i <= Max96 /\ Amount(low) <= i /\ i <= Amount(high)
  BY <1>3, <1>4
<1>6. drawn' \in Decimal /\ Amount(drawn') = i /\ drawn'.s = low.s
  BY <1>2, <1>3, <1>5, SignedAmount
<1>7. Met'
  BY <1>1, <1>2 DEF Met, Brought, BroughtSize, Fine, Larger, Amount
<1>8. Amount(low)' = Amount(low) /\ Amount(high)' = Amount(high) /\ Amount(drawn)' = Amount(drawn')
  BY <1>1 DEF Amount
<1>9. RangeTypeOK' /\ Started' /\ FellShort'
  BY <1>1, <1>2, <1>6 DEF RangeTypeOK, Started, FellShort
<1>10. QED
  BY <1>1, <1>5, <1>6, <1>7, <1>8, <1>9 DEF RangeInv

\* The inductive invariant of the sampler.
THEOREM RangeInvariant == RangeSpec => []RangeInv
<1>1. RangeInit => RangeInv
  <2>1. SUFFICES ASSUME NEW a \in Decimal, NEW b \in Decimal, NEW i \in BOOLEAN, RangeStart(a, b, i)
                 PROVE  RangeInv
    BY DEF RangeInit
  <2>2. /\ range = [low |-> a, high |-> b, incl |-> i] /\ low = a /\ high = b /\ drawn = ZERO /\ gpc = "sync"
    BY <2>1 DEF RangeStart, RangeAt
  <2>3. QED
    BY <2>2, ZeroType DEF RangeInv, RangeTypeOK, Started, FellShort, Met
<1>2. RangeInv /\ [RangeNext]_yvars => RangeInv'
  <2>1. SUFFICES ASSUME RangeInv, [RangeNext]_yvars PROVE RangeInv'
    OBVIOUS
  <2>2. CASE UNCHANGED yvars
    BY <2>1, <2>2 DEF yvars, RangeInv, RangeTypeOK, Started, FellShort, Met, Raised, Brought, BroughtSize, Fine, Larger, Amount
  <2>3. QED
    BY <2>1, <2>2, SyncUpStep, SyncBackStep, BeforeStep, EmptyStep, SampleStep DEF RangeNext
<1>3. QED
  BY <1>1, <1>2, PTL DEF RangeSpec

\* What the invariant says of a range that was sampled, found empty or given up.
LEMMA RangeInvAgrees == ASSUME RangeInv PROVE RangeAgrees
<1> DEFINE g == range.low
<1> DEFINE h == range.high
<1> DEFINE fine == Larger(g.s, h.s)
<1>1. /\ g \in Decimal /\ h \in Decimal /\ range.incl \in BOOLEAN
      /\ low \in Decimal /\ high \in Decimal /\ drawn \in Decimal
      /\ MAX_SCALE \in Nat /\ g.s \in 0..MAX_SCALE /\ h.s \in 0..MAX_SCALE
      /\ fine \in 0..MAX_SCALE /\ g.s <= fine /\ h.s <= fine
  BY RangeFacts DEF Fine
<1>2. CASE gpc \in {"sync", "back", "inclusive", "exclusive"}
  BY <1>2 DEF RangeAgrees
<1>3. CASE gpc \in {"drawn", "empty", "panic"}
  <2> DEFINE s == low.s
  <2> DEFINE unit == POWERS[fine - s]
  <2> DEFINE a == Amount(g) * POWERS[fine - g.s]
  <2> DEFINE b == Amount(h) * POWERS[fine - h.s]
  <2> DEFINE halfg == IF g.s > s THEN unit \div 2 ELSE 0
  <2> DEFINE halfh == IF h.s > s THEN unit \div 2 ELSE 0
  <2> DEFINE lower == Brought(g, s)
  <2> DEFINE upper == Brought(h, s)
  <2>1. /\ s = high.s /\ s \in 0..MAX_SCALE /\ s <= fine /\ (g.s <= s \/ h.s <= s)
        /\ Amount(low) = lower /\ upper \in Int
        /\ Amount(high) = upper - (IF range.incl \/ gpc = "panic" THEN 0 ELSE 1)
    BY <1>3, MetFacts DEF Fine
  <2>2. s < fine => \E d \in {range.low, range.high} : d.s <= s /\ d.m * POWERS[s + 1 - d.s] > Max96
    BY <1>3 DEF RangeInv, Met, Fine
  <2>3. /\ lower \in Int /\ a \in Int /\ unit \in Nat \ {0} /\ halfg \in Nat /\ 2 * halfg <= unit
        /\ lower * unit \in Int /\ lower * unit >= a - halfg /\ lower * unit <= a + halfg
        /\ g.s > s => 2 * halfg = unit
    BY <1>1, <2>1, BroughtNear
  <2>4. /\ b \in Int /\ halfh \in Nat /\ 2 * halfh <= unit
        /\ upper * unit \in Int /\ upper * unit >= b - halfh /\ upper * unit <= b + halfh
        /\ h.s > s => 2 * halfh = unit
    BY <1>1, <2>1, BroughtNear
  <2>5. halfg = 0 \/ halfh = 0
    <3>1. ~(g.s > s) \/ ~(h.s > s)
      BY <1>1, <2>1
    <3>2. QED
      BY <3>1
  <2>6. halfh > 0 <=> h.s > s
    BY <2>3, <2>4
  <2> HIDE DEF unit, a, b, halfg, halfh, lower, upper, fine, s
  <2>7. CASE gpc = "drawn"
    <3> DEFINE i == Amount(drawn)
    <3>1. drawn.s = s /\ lower <= i /\ i <= Amount(high) /\ i \in Int
      BY <1>1, <2>1, <2>7, AmountRange DEF RangeInv, s
    <3>2. lower * unit <= i * unit /\ i * unit \in Int
      BY <2>3, <3>1, MulMono
    <3>3. i * unit <= upper * unit
      BY <2>1, <2>3, <3>1, MulMono
    <3>4. ~range.incl => i * unit <= upper * unit - unit
      <4>1. SUFFICES ASSUME ~range.incl PROVE i * unit <= upper * unit - unit
        OBVIOUS
      <4>2. i <= upper - 1 /\ upper - 1 \in Int
        BY <2>1, <2>7, <3>1, <4>1
      <4>3. i * unit <= (upper - 1) * unit /\ (upper - 1) * unit = upper * unit - 1 * unit
        BY <2>1, <2>3, <3>1, <4>2, MulMono, Distribute
      <4>4. QED
        BY <2>3, <4>3
    <3>5. i * unit >= a - halfg
      BY <2>3, <3>2
    <3>6. IF range.incl \/ halfh > 0 THEN i * unit <= b + halfh ELSE i * unit < b
      <4>1. i * unit <= b + halfh
        BY <2>3, <2>4, <3>2, <3>3
      <4>2. ASSUME ~range.incl, ~(halfh > 0) PROVE i * unit < b
        BY <2>3, <2>4, <3>2, <3>4, <4>2
      <4>3. QED
        BY <4>1, <4>2
    <3>7. Amount(drawn) * POWERS[fine - drawn.s] = i * unit
      BY <3>1 DEF unit
    <3> HIDE DEF i
    <3>8. QED
      BY <2>1, <2>2, <2>7, <3>1, <3>5, <3>6, <3>7 DEF RangeAgrees, unit, a, b, halfg, halfh, fine, s
  <2>8. CASE gpc = "empty"
    <3>1. lower >= upper /\ (range.incl => lower >= upper + 1)
      BY <1>1, <2>1, <2>3, <2>8, AmountRange DEF RangeInv
    <3>2. upper * unit <= lower * unit
      BY <2>1, <2>3, <3>1, MulMono
    <3>3. a + halfg + halfh >= b
      BY <2>3, <2>4, <3>2
    <3>4. range.incl => a > b
      <4>1. SUFFICES ASSUME range.incl PROVE a > b
        OBVIOUS
      <4>2. (upper + 1) * unit <= lower * unit /\ (upper + 1) * unit = upper * unit + 1 * unit
        BY <2>1, <2>3, <3>1, <4>1, MulMono, Distribute
      <4>3. QED
        BY <2>3, <2>4, <2>5, <4>2
    <3>5. QED
      BY <2>8, <3>3, <3>4 DEF RangeAgrees, unit, a, b, halfg, halfh, fine, s
  <2>9. CASE gpc = "panic"
    <3>1. upper = -Max96 /\ Max96 \in Nat /\ Max96 = B3 - 1 /\ B3 >= 8 /\ B3 \in Nat
      BY <2>1, <2>9, BaseType DEF RangeInv
    <3>2. h.neg /\ BroughtSize(h, s) = Max96
      <4>1. BroughtSize(h, s) \in Nat
        BY <1>1, <2>1, BroughtNear
      <4>2. upper = (IF h.neg THEN -BroughtSize(h, s) ELSE BroughtSize(h, s))
        BY DEF upper, Brought
      <4>3. QED
        BY <3>1, <4>1, <4>2
    <3>3. h.s <= s
      <4>1. SUFFICES ASSUME s < h.s PROVE FALSE
        BY <1>1, <2>1
      <4>2. BroughtSize(h, s) < Max96
        BY <1>1, <2>1, <4>1, RescaledDown
      <4>3. QED
        BY <3>1, <3>2, <4>2
    <3>4. h.m * POWERS[s - h.s] = Max96 /\ s - h.s \in 0..PowLimit
      BY <1>1, <2>1, <3>2, <3>3, ScaleAssumption DEF BroughtSize
    <3>5. s - h.s = 0
      <4>1. SUFFICES ASSUME s - h.s \in 1..PowLimit PROVE FALSE
        BY <3>4, ScaleAssumption
      <4> DEFINE p == POWERS[s - h.s]
      <4> DEFINE w == p \div 2
      <4>2. p \in Nat /\ p % 2 = 0 /\ h.m \in Nat
        BY <1>1, <4>1, PowersType, BaseType DEF Decimal, Mantissa
      <4>3. p = 2 * w /\ w \in Nat
        BY <4>2
      <4>4. h.m * p = Max96
        BY <3>4
      <4> HIDE DEF p, w
      <4>5. h.m * p = 2 * (h.m * w) /\ h.m * w \in Int
        BY <4>2, <4>3, MulAssoc
      <4>6. \E x \in Int : B3 = 2 * x
        <5>1. Base = 2 * (Base \div 2) /\ Base \div 2 \in Int /\ B2 \in Int
          BY Halves, BaseType
        <5>2. B3 = B2 * Base /\ B2 * (Base \div 2) \in Int
          BY <5>1, BaseType, MulAssoc DEF B2, B3
        <5>3. B3 = 2 * (B2 * (Base \div 2))
          BY <5>1, <5>2
        <5>4. QED
          BY <5>2, <5>3
      <4>7. QED
        BY <3>1, <4>4, <4>5, <4>6
    <3>6. h.m = Max96
      BY <1>1, <3>4, <3>5, PowersAssumption, BaseType DEF Decimal, Mantissa
    <3>7. QED
      BY <2>9, <3>2, <3>6 DEF RangeAgrees
  <2>10. QED
    BY <1>3, <2>7, <2>8, <2>9
<1>4. QED
  BY <1>2, <1>3 DEF RangeInv, RangeTypeOK

\* A sampled decimal is as fine as both ends allow and lies between them, at most half
\* a last place outside where an end has more places than can be had; a range is found
\* empty, or its upper end without a number before it, only if it is.
THEOREM RangesSampled == RangeSpec => []RangeAgrees
<1>1. RangeInv => RangeAgrees
  BY RangeInvAgrees
<1>2. QED
  BY <1>1, RangeInvariant, PTL

-----------------------------------------------------------------------------
(* The numeric form of PostgreSQL *)

\* The number of the first i groups on the wire.
Read(i) == ValueTo(wire.digits, Group, GroupBase)[i]

\* The places behind the first i groups.
PlacesRead(i) == GroupDigits * (i - (wire.weight + 1))

\* The digits that fill up the last group.
Pad(s) == GroupDigits * FractionGroups(s) - s

\* What comes back of a decimal that is sent.
Back == IF sent.m = 0 THEN ZERO ELSE sent

PostgresTypeOK ==
    /\ sent \in Decimal /\ mantissa4 \in Nat /\ group \in Nat
    /\ wire \in [neg : BOOLEAN, weight : Int, scale : Nat, digits : Seq(Group)]
    /\ got \in Decimal
    /\ qpc \in {"idle", "to", "groups", "from", "received", "fraction", "read", "returned", "refused", "panicked"}

\* The groups pushed so far, and what is left of the mantissa.
SendPart ==
    /\ qpc \in {"to", "groups"} => got = ZERO /\ group = 0
    /\ qpc = "to" => wire = NoGroups
    /\ qpc = "groups" =>
        LET n == Len(wire.digits)
        IN  /\ sent.m # 0
            /\ GroupDigits * n <= MAX_SCALE + GroupDigits
            /\ mantissa4 * POWERS[GroupDigits * n] + Read(n) = sent.m * POWERS[Pad(sent.s)]

\* The wire of a decimal says the decimal, in as few groups as hold it.
WirePart ==
    qpc \notin {"idle", "to", "groups"} =>
        /\ wire \in Numerics
        /\ sent # ZERO =>
            /\ PowerSent <= 0 /\ -PowerSent <= MAX_SCALE /\ -PowerSent < Back.s + GroupDigits
            /\ Whole(wire.digits) * POWERS[Back.s] = Back.m * POWERS[-PowerSent]
            /\ wire.neg = Back.neg /\ wire.scale = Back.s

\* d is Read(i) / Ten^PlacesRead(i): with all its digits,
Exact(d, i) ==
    /\ PlacesRead(i) <= MAX_SCALE /\ d.s <= PlacesRead(i)
    /\ d.m * POWERS[PlacesRead(i) - d.s] = Read(i)

\* or with as many as fit, and then no more of them are taken,
Frozen(d, i) ==
    LET unit == POWERS[PlacesRead(i) - d.s]
        next == POWERS[PlacesRead(i) - d.s - 1]
    IN  /\ d.s < PlacesRead(i) /\ d.m * Ten > Max96
        /\ 2 * (d.m * unit - Read(i)) <= unit + 2 * next
        /\ 2 * ((Read(i) + 1) - d.m * unit) <= unit + 2 * next

\* or to half a unit of the last place there is.
Halved(d, i) ==
    LET unit == POWERS[PlacesRead(i) - d.s]
        place == POWERS[PlacesRead(i) - MAX_SCALE]
    IN  /\ PlacesRead(i) > MAX_SCALE
        /\ 2 * (d.m * unit - Read(i)) <= place
        /\ 2 * ((Read(i) + 1) - d.m * unit) <= place

\* What has been read so far.
ReadPart ==
    /\ Receiving =>
        /\ got = [ZERO EXCEPT !.m = Read(group)]
        /\ group <= Len(wire.digits) /\ (group > 0 => group <= wire.weight + 1)
    /\ qpc = "fraction" =>
        /\ ~got.neg /\ group <= Len(wire.digits)
        /\ PowerSent >= 0 =>
            /\ group = Len(wire.digits)
            /\ PowerWraps \/ (PowerSent <= MAX_SCALE /\ got.s = 0 /\ got.m = Read(group) * POWERS[PowerSent])
        /\ PowerSent < 0 =>
            /\ group >= wire.weight + 1
            /\ Exact(got, group) \/ (sent = ZERO /\ (Frozen(got, group) \/ Halved(got, group)))

PostgresInv == PostgresTypeOK /\ SendPart /\ WirePart /\ ReadPart /\ PostgresKeeps

\* What rounds above c is at least half above it.
LEMMA HalfEvenAbove ==
    ASSUME NEW v \in Nat, NEW p \in Nat \ {0}, NEW c \in Nat, HalfEven(v, p) > c
    PROVE  (2 * c + 1) * p <= 2 * v
<1> DEFINE m == HalfEven(v, p)
<1>1. m \in Nat /\ -p <= 2 * (v - m * p)
  BY HalfEvenRight DEF IsHalfEven
<1>2. m >= c + 1
  BY <1>1
<1> HIDE DEF m
<1>3. (c + 1) * p <= m * p /\ m * p \in Int
  BY <1>1, <1>2, MulMono
<1>4. (c + 1) * p = c * p + p /\ (2 * c + 1) * p = 2 * (c * p) + p /\ c * p \in Int
  OBVIOUS
<1>5. QED
  BY <1>1, <1>3, <1>4

\* What is at least a multiple of p does not round below it.
LEMMA HalfEvenLeast ==
    ASSUME NEW v \in Nat, NEW p \in Nat \ {0}, NEW c \in Nat, c * p <= v
    PROVE  c <= HalfEven(v, p)
<1> DEFINE q == v \div p
<1>1. q \in Nat
  BY DivMod
<1>2. c <= q
  BY AtMostQuotient
<1>3. HalfEven(v, p) = q \/ HalfEven(v, p) = q + 1
  BY DEF HalfEven
<1> HIDE DEF q
<1>4. QED
  BY <1>1, <1>2, <1>3

\* With less than half a unit behind it a number is its own rounding.
LEMMA HalfEvenBelow ==
    ASSUME NEW m \in Nat, NEW p \in Nat \ {0}, NEW d \in Nat, 2 * d < p
    PROVE  HalfEven(m * p + d, p) = m
<1> DEFINE v == m * p + d
<1>1. v \in Nat
  OBVIOUS
<1>2. v \div p = m /\ v % p = d
  BY <1>1, QuotientUnique
<1> HIDE DEF v
<1>3. HalfEven(v, p) = m
  BY <1>2 DEF HalfEven
<1>4. QED
  BY <1>3 DEF v

\* A multiple is divided without rounding.
LEMMA HalfEvenMultiple ==
    ASSUME NEW m \in Nat, NEW p \in Nat \ {0}
    PROVE  HalfEven(m * p, p) = m
<1>1. 0 \in Nat /\ 2 * 0 < p /\ m * p \in Nat
  OBVIOUS
<1>2. HalfEven(m * p + 0, p) = m
  BY <1>1, HalfEvenBelow
<1>3. m * p + 0 = m * p
  BY <1>1
<1>4. QED
  BY <1>2, <1>3

\* Rounded: as many places as fit.
LEMMA RoundedMost ==
    ASSUME NEW v \in Nat, NEW s \in 0..PowLimit, Fits(v, s)
    PROVE  LET r == Rounded(v, s)
           IN  /\ r.s \in 0..SmallerOf(s, MAX_SCALE) /\ r.s \in 0..MAX_SCALE /\ r.s <= s
               /\ r.m = HalfEven(v, POWERS[s - r.s]) /\ r.m \in Mantissa
               /\ \A t \in 0..SmallerOf(s, MAX_SCALE) : HalfEven(v, POWERS[s - t]) <= Max96 => t <= r.s
<1> DEFINE n == SmallerOf(s, MAX_SCALE)
           T == FittingScales(v, s)
           t == CHOOSE t \in T : \A u \in T : u <= t
<1>1. n \in Nat /\ n <= s /\ n <= MAX_SCALE /\ s \in Nat /\ MAX_SCALE \in Nat /\ PowLimit \in Nat
  BY ScaleAssumption DEF SmallerOf
<1>2. T \subseteq 0..n /\ T # {}
  BY DEF Fits, FittingScales
<1>3. t \in T /\ \A u \in T : u <= t
  <2> HIDE DEF T, n
  <2>1. \E k \in T : \A u \in T : u <= k
    BY <1>1, <1>2, GreatestOf
  <2>2. QED
    BY <2>1
<1>4. Rounded(v, s) = [m |-> HalfEven(v, POWERS[s - t]), s |-> t]
  BY DEF Rounded
<1> HIDE DEF t
<1>5. t \in 0..n /\ HalfEven(v, POWERS[s - t]) <= Max96
  BY <1>3 DEF FittingScales
<1>6. \A u \in 0..n : HalfEven(v, POWERS[s - u]) <= Max96 => u <= t
  BY <1>3 DEF FittingScales
<1>7. POWERS[s - t] \in Nat \ {0}
  <2>1. s - t \in 0..PowLimit
    BY <1>1, <1>5
  <2>2. QED
    BY <2>1, PowersType
<1>8. HalfEven(v, POWERS[s - t]) \in Mantissa
  BY <1>5, <1>7, HalfEvenRight, BaseType DEF Mantissa
<1>9. t \in 0..MAX_SCALE /\ t <= s
  BY <1>1, <1>5
<1>10. QED
  BY <1>4, <1>5, <1>6, <1>8, <1>9

\* What fits at no scale is at least half above the largest mantissa.
LEMMA RoundedNone ==
    ASSUME NEW v \in Nat, NEW s \in 0..PowLimit, ~Fits(v, s)
    PROVE  (2 * Max96 + 1) * POWERS[s] <= 2 * v
<1>1. 0 \in 0..SmallerOf(s, MAX_SCALE) /\ s - 0 = s
  BY ScaleAssumption DEF SmallerOf
<1>2. ~(HalfEven(v, POWERS[s]) <= Max96)
  BY <1>1 DEF Fits, FittingScales
<1>3. POWERS[s] \in Nat \ {0} /\ Max96 \in Nat
  BY PowersType, BaseType
<1>4. HalfEven(v, POWERS[s]) \in Nat
  BY <1>3, HalfEvenRight
<1>5. HalfEven(v, POWERS[s]) > Max96
  BY <1>2, <1>3, <1>4
<1>6. QED
  BY <1>3, <1>5, HalfEvenAbove

\* The constants of the groups.
LEMMA GroupFacts ==
    /\ GroupDigits \in Nat /\ GroupDigits >= 1 /\ GroupDigits <= MAX_SCALE
    /\ MAX_SCALE \in Nat /\ MAX_SCALE >= 1 /\ PowLimit \in Nat /\ 2 * MAX_SCALE <= PowLimit
    /\ GroupBase \in Nat /\ GroupBase >= Ten /\ GroupBase % 2 = 0 /\ GroupBase <= Max96
    /\ Ten \in Nat /\ Ten > 2 /\ Ten % 2 = 0
    /\ Max96 \in Nat /\ B3 = Max96 + 1 /\ B3 <= POWERS[MAX_SCALE + 1]
    /\ \E n \in Nat : n >= 1 /\ MAX_SCALE = GroupDigits * n
<1>1. /\ GroupDigits \in Nat /\ GroupDigits >= 1 /\ MAX_SCALE % GroupDigits = 0 /\ 2 * MAX_SCALE <= PowLimit
      /\ MAX_SCALE \in Nat /\ MAX_SCALE >= 1 /\ PowLimit \in Nat /\ B3 <= POWERS[MAX_SCALE + 1]
      /\ POWERS[GroupDigits] <= Max96 /\ B3 % Ten = (Ten \div 2) + 1
      /\ Ten \in Nat /\ Ten > 1 /\ Ten % 2 = 0
  BY PostgresAssumption, ScaleAssumption, BaseAssumption
<1>2. Max96 \in Nat /\ B3 = Max96 + 1
  BY BaseType
<1>3. Ten > 2
  <2>1. B3 % Ten < Ten
    BY <1>1, <1>2
  <2>2. SUFFICES ASSUME Ten = 2 PROVE FALSE
    BY <1>1
  <2>3. Ten \div 2 = 1
    BY <2>2
  <2>4. QED
    BY <1>1, <2>1, <2>2, <2>3
<1> DEFINE n == MAX_SCALE \div GroupDigits
<1>4. n \in Nat /\ MAX_SCALE = GroupDigits * n
  <2>1. n \in Nat /\ MAX_SCALE = n * GroupDigits + (MAX_SCALE % GroupDigits)
    BY <1>1, DivMod
  <2> HIDE DEF n
  <2>2. QED
    BY <1>1, <2>1
<1> HIDE DEF n
<1>5. n >= 1
  <2>1. SUFFICES ASSUME n = 0 PROVE FALSE
    BY <1>4
  <2>2. QED
    BY <1>1, <1>4, <2>1
<1>6. GroupDigits <= MAX_SCALE
  <2>1. 1 * GroupDigits <= n * GroupDigits
    BY <1>1, <1>4, <1>5, MulMono
  <2>2. QED
    BY <1>1, <1>4, <2>1
<1>7. GroupBase \in Nat /\ GroupBase >= Ten /\ GroupBase % 2 = 0 /\ GroupBase <= Max96
  <2>1. GroupDigits \in 0..PowLimit /\ 1 \in 0..PowLimit
    BY <1>1, <1>6
  <2>2. POWERS[1] = Ten /\ POWERS[1] <= POWERS[GroupDigits]
    BY <1>1, <2>1, PowersMono, PowersAssumption
  <2>3. QED
    BY <1>1, <2>1, <2>2, PowersType DEF GroupBase
<1>8. QED
  BY <1>1, <1>2, <1>3, <1>4, <1>5, <1>6, <1>7

\* A power that is a mantissa is one of a scale.
LEMMA PowerFits ==
    ASSUME NEW k \in 0..PowLimit, POWERS[k] <= Max96
    PROVE  k <= MAX_SCALE
<1>1. SUFFICES ASSUME k >= MAX_SCALE + 1 PROVE FALSE
  BY GroupFacts
<1>2. MAX_SCALE + 1 \in 0..PowLimit
  BY GroupFacts
<1>3. POWERS[MAX_SCALE + 1] <= POWERS[k] /\ POWERS[MAX_SCALE + 1] \in Nat /\ POWERS[k] \in Nat
  BY <1>1, <1>2, PowersMono, PowersType
<1>4. QED
  BY <1>3, GroupFacts

\* With one place more it would not fit: 2^96 ends in a 6.
LEMMA RoundedTight ==
    ASSUME NEW v \in Nat, NEW s \in 0..PowLimit, Fits(v, s), Rounded(v, s).s < SmallerOf(s, MAX_SCALE)
    PROVE  Rounded(v, s).m * Ten > Max96
<1> DEFINE r == Rounded(v, s)
           n == SmallerOf(s, MAX_SCALE)
<1>1. /\ r.s \in 0..n /\ r.s < n /\ r.m = HalfEven(v, POWERS[s - r.s]) /\ r.m \in Mantissa
      /\ \A t \in 0..n : HalfEven(v, POWERS[s - t]) <= Max96 => t <= r.s
  BY RoundedMost
<1>2. n \in Nat /\ n <= s /\ s \in Nat /\ n <= MAX_SCALE /\ MAX_SCALE \in Nat /\ MAX_SCALE <= PowLimit /\ PowLimit \in Nat
  BY ScaleAssumption DEF SmallerOf
<1> HIDE DEF n, r
<1> DEFINE t == r.s + 1
           p == POWERS[s - t]
           q == POWERS[s - r.s]
           m == r.m
<1>3. t \in 0..n /\ ~(t <= r.s) /\ s - t \in 0..PowLimit /\ 1 \in 0..PowLimit /\ s - r.s \in 0..PowLimit /\ (s - t) + 1 = s - r.s
  BY <1>1, <1>2
<1>4. p \in Nat \ {0} /\ q \in Nat \ {0} /\ q = p * Ten
  <2> DEFINE k == s - t
  <2>1. k \in 0..PowLimit /\ k + 1 <= PowLimit /\ 1 \in 0..PowLimit /\ k + 1 = s - r.s
    BY <1>2, <1>3
  <2> HIDE DEF k
  <2>2. POWERS[k + 1] = POWERS[k] * POWERS[1]
    BY <2>1, PowersAdd
  <2>3. POWERS[1] = Ten
    BY PowersAssumption
  <2>4. POWERS[k] \in Nat \ {0} /\ POWERS[k + 1] \in Nat \ {0}
    BY <1>3, <2>1, PowersType
  <2>5. QED
    BY <2>1, <2>2, <2>3, <2>4 DEF k
<1>5. m \in Nat /\ Max96 \in Nat
  BY <1>1, BaseType DEF Mantissa
<1>6. (2 * Max96 + 1) * p <= 2 * v
  <2>1. ~(HalfEven(v, p) <= Max96)
    BY <1>1, <1>3
  <2>2. HalfEven(v, p) \in Nat
    BY <1>4, HalfEvenRight
  <2>3. QED
    BY <1>4, <1>5, <2>1, <2>2, HalfEvenAbove
<1>7. 2 * (v - m * q) <= q
  BY <1>1, <1>4, HalfEvenRight DEF IsHalfEven
<1> HIDE DEF p, q, m
<1> DEFINE odd == 2 * Max96 + 1
           bound == (2 * m + 1) * Ten
<1>8. odd * p <= bound * p
  <2>1. m * q \in Int /\ (2 * m + 1) * q = 2 * (m * q) + q
    BY <1>4, <1>5
  <2>2. (2 * m + 1) * q = bound * p
    BY <1>4, <1>5, MulAssoc, GroupFacts
  <2> HIDE DEF bound, odd
  <2>3. odd * p <= 2 * v
    BY <1>6 DEF odd
  <2>4. odd * p \in Int
    BY <1>4, <1>5 DEF odd
  <2>5. QED
    BY <1>4, <1>7, <2>1, <2>2, <2>3, <2>4
<1>9. odd <= bound
  <2>1. odd \in Int /\ bound \in Int
    BY <1>5, GroupFacts
  <2> HIDE DEF odd, bound
  <2>2. ~(bound * p < odd * p)
    BY <1>4, <1>8, <2>1
  <2>3. ~(bound < odd)
    BY <1>4, <2>1, <2>2, Cancel
  <2>4. QED
    BY <2>1, <2>3
<1> DEFINE w == B3 \div Ten
           h == Ten \div 2
<1>10. h \in Nat /\ Ten = 2 * h /\ h > 1
  BY GroupFacts
<1>11. w \in Nat /\ B3 = w * Ten + (h + 1)
  <2>1. B3 \in Nat /\ B3 % Ten = h + 1
    BY GroupFacts, PostgresAssumption
  <2>2. QED
    BY <2>1, GroupFacts, DivMod
<1> HIDE DEF w, h
<1>12. m * Ten + h >= B3
  <2>1. bound = 2 * (m * Ten) + 2 * h /\ m * Ten \in Nat
    BY <1>5, <1>10, GroupFacts
  <2>2. QED
    BY <1>5, <1>9, <1>10, <2>1, GroupFacts
<1>13. m >= w + 1
  <2>1. SUFFICES ASSUME m <= w PROVE FALSE
    BY <1>5, <1>11
  <2>2. m * Ten <= w * Ten /\ m * Ten \in Int /\ w * Ten \in Int
    BY <1>5, <1>11, <2>1, MulMono, GroupFacts
  <2>3. QED
    BY <1>10, <1>11, <1>12, <2>2
<1>14. m * Ten >= w * Ten + Ten
  <2>1. (w + 1) * Ten <= m * Ten /\ (w + 1) * Ten = w * Ten + 1 * Ten
    BY <1>5, <1>11, <1>13, MulMono, Distribute, GroupFacts
  <2>2. QED
    BY <2>1, <1>11, GroupFacts
<1>15. m * Ten >= B3
  <2>1. m * Ten \in Int /\ w * Ten \in Int
    BY <1>5, <1>11, GroupFacts
  <2>2. QED
    BY <1>10, <1>11, <1>14, <2>1, GroupFacts
<1>16. QED
  <2>1. m * Ten \in Int
    BY <1>5, GroupFacts
  <2>2. m * Ten > Max96
    BY <1>15, <2>1, GroupFacts
  <2>3. QED
    BY <2>2 DEF m, r

\* What is a mantissa with no more places than there are is kept.
LEMMA RoundedExact ==
    ASSUME NEW m \in Mantissa, NEW s \in 0..PowLimit, NEW t \in 0..SmallerOf(s, MAX_SCALE)
    PROVE  LET v == m * POWERS[s - t]
               r == Rounded(v, s)
           IN  /\ v \in Nat /\ Fits(v, s) /\ r.s \in t..SmallerOf(s, MAX_SCALE) /\ r.m \in Mantissa
               /\ r.m = m * POWERS[r.s - t] /\ r.m * POWERS[s - r.s] = v
<1> DEFINE v == m * POWERS[s - t]
           r == Rounded(v, s)
           n == SmallerOf(s, MAX_SCALE)
<1>1. /\ n \in Nat /\ n <= s /\ s \in Nat /\ n <= MAX_SCALE /\ MAX_SCALE \in Nat /\ MAX_SCALE <= PowLimit
      /\ PowLimit \in Nat /\ t \in 0..n /\ t \in Nat /\ t <= s
  BY ScaleAssumption DEF SmallerOf
<1>2. m \in Nat /\ m <= Max96 /\ Max96 \in Nat /\ s - t \in 0..PowLimit
  BY <1>1, BaseType DEF Mantissa
<1> DEFINE p == POWERS[s - t]
<1>3. p \in Nat \ {0} /\ v \in Nat
  <2>1. p \in Nat \ {0}
    BY <1>2, PowersType
  <2> HIDE DEF p
  <2>2. m * p \in Nat
    BY <1>2, <2>1
  <2>3. QED
    BY <2>1, <2>2 DEF p
<1>4. HalfEven(v, p) = m
  <2> HIDE DEF p
  <2>1. HalfEven(m * p, p) = m
    BY <1>2, <1>3, HalfEvenMultiple
  <2>2. QED
    BY <2>1 DEF p
<1>5. Fits(v, s)
  BY <1>1, <1>2, <1>4 DEF Fits, FittingScales
<1> HIDE DEF v
<1>6. /\ r.s \in 0..n /\ r.m = HalfEven(v, POWERS[s - r.s]) /\ r.m \in Mantissa
      /\ \A u \in 0..n : HalfEven(v, POWERS[s - u]) <= Max96 => u <= r.s
  BY <1>3, <1>5, RoundedMost
<1>7. t <= r.s
  BY <1>1, <1>2, <1>4, <1>6
<1> HIDE DEF r, n
<1> DEFINE a == POWERS[r.s - t]
           b == POWERS[s - r.s]
<1>8. r.s - t \in 0..PowLimit /\ s - r.s \in 0..PowLimit /\ (r.s - t) + (s - r.s) = s - t
  BY <1>1, <1>6, <1>7
<1>9. p = a * b /\ a \in Nat \ {0} /\ b \in Nat \ {0}
  <2>1. POWERS[(r.s - t) + (s - r.s)] = POWERS[r.s - t] * POWERS[s - r.s]
    BY <1>2, <1>8, PowersAdd
  <2>2. QED
    BY <1>8, <2>1, PowersType
<1> HIDE DEF p
<1>10. v = (m * a) * b /\ m * a \in Nat
  <2> HIDE DEF a, b
  <2>1. v = m * p
    BY DEF v, p
  <2>2. QED
    BY <1>2, <1>9, <2>1, MulAssoc
<1>11. r.m = m * a
  <2>1. HalfEven((m * a) * b, b) = m * a
    <3> HIDE DEF a, b
    <3>1. QED
      BY <1>9, <1>10, HalfEvenMultiple
  <2>2. QED
    BY <1>6, <1>10, <2>1
<1>12. r.s \in t..n
  BY <1>1, <1>6, <1>7
<1>13. QED
  BY <1>3, <1>5, <1>6, <1>10, <1>11, <1>12 DEF r, n, v

\* What has no room for another place keeps its digits, whatever comes behind them.
LEMMA RoundedFrozen ==
    ASSUME NEW m \in Mantissa, m * Ten > Max96, NEW t \in 0..MAX_SCALE, NEW s \in 0..PowLimit, t < s,
           NEW d \in Nat, 2 * d < POWERS[s - t]
    PROVE  LET v == m * POWERS[s - t] + d
           IN  v \in Nat /\ Fits(v, s) /\ Rounded(v, s).m = m /\ Rounded(v, s).s = t
<1> DEFINE p == POWERS[s - t]
           v == m * p + d
           n == SmallerOf(s, MAX_SCALE)
<1>1. /\ n \in Nat /\ n <= s /\ s \in Nat /\ n <= MAX_SCALE /\ MAX_SCALE \in Nat /\ MAX_SCALE <= PowLimit
      /\ PowLimit \in Nat /\ t \in 0..n /\ t \in Nat /\ s - t \in 0..PowLimit
  BY ScaleAssumption DEF SmallerOf
<1>2. p \in Nat \ {0} /\ m \in Nat /\ m <= Max96 /\ Max96 \in Nat /\ Ten \in Nat
  BY <1>1, PowersType, BaseType, BaseAssumption DEF Mantissa
<1>3. HalfEven(v, p) = m /\ v \in Nat
  <2>1. 2 * d < p
    OBVIOUS
  <2> HIDE DEF p
  <2>2. m \in Nat /\ p \in Nat \ {0} /\ d \in Nat
    BY <1>2
  <2>3. HalfEven(m * p + d, p) = m
    BY <2>1, <2>2, HalfEvenBelow
  <2>4. m * p + d \in Nat
    BY <2>2
  <2>5. QED
    BY <2>3, <2>4
<1>4. Fits(v, s) /\ t \in FittingScales(v, s)
  BY <1>1, <1>2, <1>3 DEF Fits, FittingScales
<1>5. ASSUME NEW u \in (t + 1)..n PROVE HalfEven(v, POWERS[s - u]) > Max96
  <2> DEFINE a == POWERS[u - t]
             b == POWERS[s - u]
             c == Max96 + 1
  <2>1. u - t \in 0..PowLimit /\ s - u \in 0..PowLimit /\ (u - t) + (s - u) = s - t /\ 1 \in 0..PowLimit /\ 1 <= u - t
    BY <1>1
  <2>2. p = a * b /\ a \in Nat \ {0} /\ b \in Nat \ {0} /\ Ten <= a
    <3>1. POWERS[(u - t) + (s - u)] = POWERS[u - t] * POWERS[s - u]
      BY <1>1, <2>1, PowersAdd
    <3>2. POWERS[1] <= POWERS[u - t] /\ POWERS[1] = Ten
      BY <2>1, PowersMono, PowersAssumption
    <3>3. QED
      BY <2>1, <3>1, <3>2, PowersType
  <2> HIDE DEF p, a, b
  <2>3. m * Ten <= m * a /\ m * a \in Nat
    <3>1. Ten * m <= a * m
      BY <1>2, <2>2, MulMono
    <3>2. Ten * m = m * Ten /\ a * m = m * a
      BY <1>2, <2>2, MulAssoc
    <3>3. m * a \in Nat
      BY <1>2, <2>2
    <3>4. QED
      BY <3>1, <3>2, <3>3
  <2>4. c <= m * a /\ c \in Nat
    <3>1. m * Ten \in Nat
      BY <1>2
    <3>2. QED
      BY <1>2, <2>3, <3>1
  <2>5. c * b <= (m * a) * b /\ (m * a) * b = m * p
    BY <1>2, <2>2, <2>3, <2>4, MulMono, MulAssoc
  <2>6. c * b <= v
    <3>1. c * b \in Int /\ m * p \in Int
      BY <1>2, <2>2, <2>4
    <3> HIDE DEF c
    <3>2. QED
      BY <2>5, <3>1
  <2> HIDE DEF c, v
  <2>7. c <= HalfEven(v, b)
    BY <1>3, <2>2, <2>4, <2>6, HalfEvenLeast
  <2>8. HalfEven(v, b) \in Nat
    BY <1>3, <2>2, HalfEvenRight
  <2>9. QED
    BY <1>2, <2>7, <2>8 DEF b, c
<1> HIDE DEF v
<1> DEFINE r == Rounded(v, s)
<1>6. /\ r.s \in 0..n /\ r.m = HalfEven(v, POWERS[s - r.s])
      /\ HalfEven(v, POWERS[s - r.s]) <= Max96
      /\ \A u \in 0..n : HalfEven(v, POWERS[s - u]) <= Max96 => u <= r.s
  <2>1. /\ r.s \in 0..n /\ r.m = HalfEven(v, POWERS[s - r.s]) /\ r.m \in Mantissa
        /\ \A u \in 0..n : HalfEven(v, POWERS[s - u]) <= Max96 => u <= r.s
    BY <1>3, <1>4, RoundedMost
  <2>2. r.m <= Max96
    BY <2>1 DEF Mantissa
  <2>3. QED
    BY <2>1, <2>2
<1> HIDE DEF r, n
<1>7. t <= r.s
  BY <1>1, <1>2, <1>3, <1>6
<1>8. ~(r.s \in (t + 1)..n)
  <2>1. SUFFICES ASSUME r.s \in (t + 1)..n PROVE FALSE
    OBVIOUS
  <2>2. HalfEven(v, POWERS[s - r.s]) > Max96
    BY <1>5, <2>1
  <2>3. POWERS[s - r.s] \in Nat \ {0}
    <3>1. s - r.s \in 0..PowLimit
      BY <1>1, <1>6
    <3>2. QED
      BY <3>1, PowersType
  <2>4. HalfEven(v, POWERS[s - r.s]) \in Nat
    BY <1>3, <2>3, HalfEvenRight
  <2>5. QED
    BY <1>2, <1>6, <2>2, <2>4
<1>9. r.s = t
  BY <1>1, <1>6, <1>7, <1>8
<1>10. r.m = m
  BY <1>3, <1>6, <1>9
<1>11. QED
  BY <1>3, <1>4, <1>9, <1>10 DEF r, v

\* The number of groups of digits, position by position.
LEMMA WholeStepsOf ==
    ASSUME NEW ds \in Seq(Nat), \A i \in 1..Len(ds) : ds[i] \in Group
    PROVE  LET R == ValueTo(ds, Group, GroupBase)
           IN  /\ R \in [0..Len(ds) -> Nat] /\ R[0] = 0
               /\ \A i \in 1..Len(ds) : R[i] = R[i - 1] * GroupBase + ds[i]
<1>1. GroupBase \in Nat
  BY GroupFacts
<1> DEFINE R == ValueTo(ds, Group, GroupBase)
<1>2. R \in [0..Len(ds) -> Nat] /\ R[0] = 0
  BY <1>1, ValueSteps, SMTT(30)
<1>3. \A i \in 1..Len(ds) : R[i] = IF ds[i] \in Group THEN R[i - 1] * GroupBase + ds[i] ELSE R[i - 1]
  BY <1>1, ValueSteps, SMTT(30)
<1> HIDE DEF R
<1>4. \A i \in 1..Len(ds) : R[i] = R[i - 1] * GroupBase + ds[i]
  BY <1>3
<1>5. QED
  BY <1>2, <1>4 DEF R

\* The number of the groups on the wire, a group at a time.
LEMMA WholeSteps ==
    ASSUME NEW ds \in Seq(Group)
    PROVE  LET R == ValueTo(ds, Group, GroupBase)
           IN  /\ R \in [0..Len(ds) -> Nat] /\ R[0] = 0 /\ Len(ds) \in Nat
               /\ \A i \in 1..Len(ds) : R[i] = R[i - 1] * GroupBase + ds[i] /\ ds[i] \in Group
<1>1. GroupBase \in Nat
  BY GroupFacts
<1>2. ds \in Seq(Nat) /\ Len(ds) \in Nat /\ \A i \in 1..Len(ds) : ds[i] \in Group
  <2>1. Len(ds) \in Nat /\ \A i \in 1..Len(ds) : ds[i] \in Group
    OBVIOUS
  <2>2. ds \in Seq(Nat)
    BY <1>1 DEF Group
  <2>3. QED
    BY <2>1, <2>2
<1> DEFINE R == ValueTo(ds, Group, GroupBase)
<1>3. R \in [0..Len(ds) -> Nat] /\ R[0] = 0 /\ \A i \in 1..Len(ds) : R[i] = R[i - 1] * GroupBase + ds[i]
  BY ONLY <1>2, WholeStepsOf
<1> HIDE DEF R
<1>4. QED
  BY <1>2, <1>3 DEF R

\* The powers that groups stand for.
LEMMA GroupPowers ==
    ASSUME NEW n \in Nat, GroupDigits * n <= PowLimit
    PROVE  /\ \A k \in 0..n : /\ GroupDigits * k \in 0..PowLimit /\ POWERS[GroupDigits * k] \in Nat
                               /\ POWERS[GroupDigits * k] >= 1
           /\ POWERS[GroupDigits * 0] = 1
           /\ \A k \in 1..n : POWERS[GroupDigits * k] = POWERS[GroupDigits * (k - 1)] * GroupBase
<1> DEFINE P(k) == POWERS[GroupDigits * k]
<1>1. GroupDigits \in Nat /\ PowLimit \in Nat /\ GroupDigits \in 0..PowLimit
  BY GroupFacts
<1>2. \A k \in 0..n : GroupDigits * k \in 0..PowLimit /\ P(k) \in Nat /\ P(k) >= 1
  <2>1. TAKE k \in 0..n
  <2>2. k * GroupDigits <= n * GroupDigits /\ k * GroupDigits \in Nat /\ k * GroupDigits = GroupDigits * k
        /\ n * GroupDigits = GroupDigits * n
    <3>1. k \in Nat /\ k <= n
      OBVIOUS
    <3>2. k * GroupDigits <= n * GroupDigits /\ k * GroupDigits = GroupDigits * k /\ n * GroupDigits = GroupDigits * n
      BY <1>1, <3>1, MulMono, MulAssoc
    <3>3. k * GroupDigits \in Nat
      BY <1>1, <3>1
    <3>4. QED
      BY <3>2, <3>3
  <2>3. GroupDigits * k \in 0..PowLimit
    BY <1>1, <2>2
  <2>4. QED
    BY <2>3, PowersType
<1>3. P(0) = 1
  <2>1. GroupDigits * 0 = 0
    BY <1>1
  <2>2. QED
    BY <2>1, PowersAssumption
<1>4. \A k \in 1..n : P(k) = P(k - 1) * GroupBase
  <2>1. TAKE k \in 1..n
  <2>2. k - 1 \in 0..n /\ k \in 0..n /\ GroupDigits * k = GroupDigits * (k - 1) + GroupDigits
    BY <1>1
  <2> DEFINE a == GroupDigits * (k - 1)
             b == GroupDigits * k
  <2>3. a \in 0..PowLimit /\ b \in 0..PowLimit /\ b = a + GroupDigits
    BY <1>1, <2>2
  <2> HIDE DEF a, b
  <2>4. POWERS[b] = POWERS[a] * POWERS[GroupDigits]
    BY <1>1, <2>3, PowersAdd
  <2>5. QED
    BY <2>4 DEF a, b, GroupBase
<1>5. QED
  BY <1>2, <1>3, <1>4

\* What further groups make of the number before them.
LEMMA WholeGrows ==
    ASSUME NEW ds \in Seq(Group), NEW i \in 0..Len(ds), NEW n \in 0..(Len(ds) - i), GroupDigits * n <= PowLimit
    PROVE  LET R == ValueTo(ds, Group, GroupBase)
               p == POWERS[GroupDigits * n]
           IN  /\ R[i] \in Nat /\ R[i + n] \in Nat
               /\ R[i] * p <= R[i + n] /\ R[i + n] + 1 <= (R[i] + 1) * p
               /\ (\A j \in (i + 1)..(i + n) : ds[j] = 0) => R[i + n] = R[i] * p
<1> DEFINE R == ValueTo(ds, Group, GroupBase)
           P(k) == POWERS[GroupDigits * k]
           Z(k) == \A j \in (i + 1)..(i + k) : ds[j] = 0
           T == {k \in 0..n : /\ R[i] * P(k) <= R[i + k] /\ R[i + k] + 1 <= (R[i] + 1) * P(k)
                              /\ Z(k) => R[i + k] = R[i] * P(k)}
<1>1. /\ R \in [0..Len(ds) -> Nat] /\ Len(ds) \in Nat
      /\ \A j \in 1..Len(ds) : R[j] = R[j - 1] * GroupBase + ds[j] /\ ds[j] \in Group
  BY WholeSteps
<1> HIDE DEF R
<1>2. /\ n \in Nat /\ i \in Nat /\ i + n <= Len(ds) /\ GroupDigits \in Nat /\ GroupBase \in Nat /\ GroupBase >= 1
      /\ PowLimit \in Nat /\ GroupDigits <= PowLimit /\ GroupDigits \in 0..PowLimit /\ Ten \in Nat
  <2>1. Len(ds) \in Nat
    BY <1>1
  <2>2. n \in Nat /\ i \in Nat /\ i + n <= Len(ds)
    BY ONLY <2>1, i \in 0..Len(ds), n \in 0..(Len(ds) - i)
  <2>3. QED
    BY <2>2, GroupFacts
<1>3. \A k \in 0..n : R[i + k] \in Nat
  <2>1. \A k \in 0..n : i + k \in 0..Len(ds)
    BY ONLY <1>2, Len(ds) \in Nat, <1>1
  <2>2. QED
    BY <1>1, <2>1
<1>4. R[i] \in Nat
  BY <1>1
<1>5. /\ \A k \in 0..n : GroupDigits * k \in 0..PowLimit /\ P(k) \in Nat /\ P(k) >= 1
      /\ P(0) = 1
      /\ \A k \in 1..n : P(k) = P(k - 1) * GroupBase
  BY <1>2, GroupPowers
<1> HIDE DEF P
<1>8. \A k \in 0..n : k \in T
  <2>1. 0 \in T
    <3>1. i + 0 = i /\ 0 \in 0..n /\ R[i] * 1 = R[i] /\ (R[i] + 1) * 1 = R[i] + 1
      BY <1>2, <1>4
    <3>2. QED
      BY <1>4, <1>5, <3>1
  <2>2. ASSUME NEW k \in 1..n, k - 1 \in T PROVE k \in T
    <3> DEFINE a == R[i]
               b == R[i + (k - 1)]
               c == R[i + k]
               d == ds[i + k]
               p == P(k - 1)
    <3>1. k - 1 \in 0..n /\ k \in 0..n /\ i + k \in 1..Len(ds) /\ (i + k) - 1 = i + (k - 1)
      BY <1>1, <1>2
    <3>2. c = b * GroupBase + d /\ d \in Group
      <4>1. c = R[(i + k) - 1] * GroupBase + d /\ d \in Group
        BY <1>1, <3>1
      <4>2. QED
        BY <3>1, <4>1
    <3>3. a \in Nat /\ b \in Nat /\ c \in Nat /\ p \in Nat /\ d \in Nat /\ d + 1 <= GroupBase
      <4>1. a \in Nat /\ b \in Nat /\ c \in Nat /\ p \in Nat
        BY <1>3, <1>4, <1>5, <3>1
      <4>2. d \in Nat /\ d + 1 <= GroupBase
        BY <1>2, <3>2 DEF Group
      <4>3. QED
        BY <4>1, <4>2
    <3>4. P(k) = p * GroupBase
      BY <1>5
    <3>5. a * p <= b /\ b + 1 <= (a + 1) * p /\ (Z(k - 1) => b = a * p)
      BY <2>2
    <3>6. Z(k) => Z(k - 1) /\ d = 0
      BY <1>2, <3>1
    <3> DEFINE z == Z(k)
    <3>7. z => b = a * p /\ d = 0
      BY <3>5, <3>6
    <3> HIDE DEF a, b, c, d, p, z
    <3>8. (a * p) * GroupBase = a * P(k) /\ ((a + 1) * p) * GroupBase = (a + 1) * P(k)
      BY <1>2, <3>3, <3>4, MulAssoc
    <3>9. /\ (a * p) * GroupBase <= b * GroupBase
          /\ (b + 1) * GroupBase <= ((a + 1) * p) * GroupBase /\ (b + 1) * GroupBase = b * GroupBase + 1 * GroupBase
          /\ b * GroupBase \in Int /\ (a * p) * GroupBase \in Int /\ ((a + 1) * p) * GroupBase \in Int
      <4>1. a * p \in Int /\ (a + 1) * p \in Int
        BY <3>3
      <4>2. QED
        BY <1>2, <3>3, <3>5, <4>1, MulMono, Distribute
    <3>10. a * P(k) <= c /\ c + 1 <= (a + 1) * P(k)
      <4> DEFINE x == a * P(k)
                 y == (a + 1) * P(k)
                 w == b * GroupBase
      <4>1. x <= w /\ w + GroupBase <= y /\ x \in Int /\ y \in Int /\ w \in Int /\ c = w + d
        BY <1>2, <3>2, <3>8, <3>9 DEF c, b, d
      <4> HIDE DEF x, y, w
      <4>2. x <= c /\ c + 1 <= y
        BY <1>2, <3>3, <4>1
      <4>3. QED
        BY <4>2 DEF x, y
    <3>11. z => c = a * P(k)
      <4>1. SUFFICES ASSUME z PROVE c = a * P(k)
        OBVIOUS
      <4>2. b = a * p /\ d = 0
        BY <3>7, <4>1
      <4>3. c = b * GroupBase
        BY <1>2, <3>2, <3>3, <4>2 DEF c, b, d
      <4>4. QED
        BY <3>8, <4>2, <4>3
    <3>12. QED
      BY <3>1, <3>10, <3>11 DEF a, c, z
  <2> HIDE DEF T
  <2>3. QED
    BY <1>2, <2>1, <2>2, RangeInduction
<1>9. n \in T
  BY <1>2, <1>8
<1>10. QED
  BY <1>2, <1>3, <1>4, <1>9 DEF R, P

\* It never falls.
LEMMA WholeRises ==
    ASSUME NEW ds \in Seq(Group), NEW i \in 0..Len(ds), NEW j \in i..Len(ds)
    PROVE  ValueTo(ds, Group, GroupBase)[i] <= ValueTo(ds, Group, GroupBase)[j]
<1> DEFINE R == ValueTo(ds, Group, GroupBase)
           T == {k \in 0..(j - i) : R[i] <= R[i + k]}
<1>1. /\ R \in [0..Len(ds) -> Nat] /\ Len(ds) \in Nat
      /\ \A k \in 1..Len(ds) : R[k] = R[k - 1] * GroupBase + ds[k] /\ ds[k] \in Group
  BY WholeSteps
<1> HIDE DEF R
<1>2. i \in Nat /\ j \in Nat /\ j - i \in Nat /\ GroupBase \in Nat /\ GroupBase >= 1 /\ i + (j - i) = j
  BY <1>1, GroupFacts
<1>3. 0 \in T
  BY <1>1, <1>2
<1>4. ASSUME NEW k \in 1..(j - i), k - 1 \in T PROVE k \in T
  <2> DEFINE a == R[i + (k - 1)]
             b == R[i + k]
             d == ds[i + k]
  <2>1. i + k \in 1..Len(ds) /\ (i + k) - 1 = i + (k - 1) /\ i + (k - 1) \in 0..Len(ds) /\ k \in 0..(j - i)
    BY <1>1, <1>2
  <2>2. b = a * GroupBase + d /\ d \in Nat /\ a \in Nat /\ R[i] \in Nat /\ R[i] <= a
    <3>1. b = R[(i + k) - 1] * GroupBase + d /\ d \in Group
      BY <1>1, <2>1
    <3>2. d \in Nat
      BY <3>1 DEF Group
    <3>3. a \in Nat /\ R[i] \in Nat
      BY <1>1, <2>1
    <3>4. QED
      BY <1>4, <2>1, <3>1, <3>2, <3>3
  <2> HIDE DEF a, b, d
  <2>3. 1 * a <= GroupBase * a /\ GroupBase * a = a * GroupBase /\ GroupBase * a \in Int
    BY <1>2, <2>2, MulMono, MulAssoc
  <2>4. R[i] <= b
    BY <2>2, <2>3
  <2>5. QED
    BY <2>1, <2>4 DEF b
<1> HIDE DEF T
<1>5. \A k \in 0..(j - i) : k \in T
  BY <1>2, <1>3, <1>4, RangeInduction
<1>6. j - i \in T
  BY <1>2, <1>5
<1>7. QED
  BY <1>2, <1>6 DEF T, R

\* The first k groups alone.
LEMMA WholePrefix ==
    ASSUME NEW ds \in Seq(Group), NEW k \in 0..Len(ds)
    PROVE  LET h == SubSeq(ds, 1, k)
           IN  /\ h \in Seq(Group) /\ Len(h) = k
               /\ \A i \in 0..k : ValueTo(h, Group, GroupBase)[i] = ValueTo(ds, Group, GroupBase)[i]
<1>1. GroupBase \in Nat
  BY GroupFacts
<1>2. ds \in Seq(Nat)
  BY <1>1 DEF Group
<1>3. SubSeq(ds, 1, k) \in Seq(Group) /\ Len(SubSeq(ds, 1, k)) = k
  OBVIOUS
<1>4. \A i \in 0..k : ValueTo(SubSeq(ds, 1, k), Group, GroupBase)[i] = ValueTo(ds, Group, GroupBase)[i]
  BY <1>1, <1>2, PrefixValue, ZenonT(60)
<1>5. QED
  BY <1>3, <1>4

\* A group in front of the others.
LEMMA WholePrepend ==
    ASSUME NEW ds \in Seq(Group), NEW d \in Group, GroupDigits * Len(ds) <= PowLimit
    PROVE  LET e == <<d>> \o ds
           IN  /\ e \in Seq(Group) /\ Len(e) = Len(ds) + 1
               /\ Whole(e) = d * POWERS[GroupDigits * Len(ds)] + Whole(ds)
<1> DEFINE e == <<d>> \o ds
           n == Len(ds)
           V == ValueTo(e, Group, GroupBase)
           R == ValueTo(ds, Group, GroupBase)
           P(k) == POWERS[GroupDigits * k]
           T == {i \in 0..n : V[i + 1] = d * P(i) + R[i]}
<1>1. /\ e \in Seq(Group) /\ Len(e) = n + 1 /\ n \in Nat /\ e[1] = d
      /\ \A i \in 1..n : e[i + 1] = ds[i]
  <2>1. n \in Nat /\ <<d>> \in Seq(Group) /\ Len(<<d>>) = 1
    OBVIOUS
  <2>2. e \in Seq(Group) /\ Len(e) = 1 + n /\ \A i \in 1..(1 + n) : e[i] = IF i <= 1 THEN <<d>>[i] ELSE ds[i - 1]
    BY <2>1, ConcatProperties
  <2> HIDE DEF e, n
  <2>3. e[1] = d
    BY <2>1, <2>2
  <2>4. ASSUME NEW i \in 1..n PROVE e[i + 1] = ds[i]
    <3>1. i + 1 \in 1..(1 + n) /\ ~(i + 1 <= 1) /\ (i + 1) - 1 = i
      BY <2>1
    <3>2. QED
      BY <2>2, <3>1
  <2>5. QED
    BY <2>1, <2>2, <2>3, <2>4
<1>2. /\ V \in [0..(n + 1) -> Nat] /\ V[0] = 0
      /\ \A i \in 1..(n + 1) : V[i] = V[i - 1] * GroupBase + e[i]
  <2> HIDE DEF e
  <2>1. /\ V \in [0..Len(e) -> Nat] /\ V[0] = 0
        /\ \A i \in 1..Len(e) : V[i] = V[i - 1] * GroupBase + e[i] /\ e[i] \in Group
    BY <1>1, WholeSteps
  <2> HIDE DEF V
  <2>2. QED
    BY <1>1, <2>1
<1>3. /\ R \in [0..n -> Nat] /\ R[0] = 0
      /\ \A i \in 1..n : R[i] = R[i - 1] * GroupBase + ds[i] /\ ds[i] \in Group
  BY WholeSteps
<1>4. /\ \A k \in 0..n : P(k) \in Nat
      /\ P(0) = 1
      /\ \A k \in 1..n : P(k) = P(k - 1) * GroupBase
  BY <1>1, GroupPowers
<1>5. GroupBase \in Nat /\ d \in Nat
  BY GroupFacts DEF Group
<1> HIDE DEF e, n, V, R, P
<1>6. 0 \in T
  <2>1. 1 \in 1..(n + 1) /\ 0 \in 0..n /\ 0 + 1 = 1 /\ 1 - 1 = 0
    BY <1>1
  <2>2. V[1] = V[0] * GroupBase + e[1]
    BY <1>2, <2>1
  <2>3. V[1] = d
    BY <1>1, <1>2, <1>5, <2>2
  <2>4. d * P(0) + R[0] = d
    BY <1>3, <1>4, <1>5
  <2>5. QED
    BY <2>1, <2>3, <2>4
<1>7. ASSUME NEW i \in 1..n, i - 1 \in T PROVE i \in T
  <2> DEFINE a == R[i - 1]
             b == P(i - 1)
             x == ds[i]
  <2>1. i + 1 \in 1..(n + 1) /\ (i + 1) - 1 = i /\ (i - 1) + 1 = i /\ i - 1 \in 0..n /\ i \in 0..n
    BY <1>1
  <2>2. V[i + 1] = V[(i + 1) - 1] * GroupBase + e[i + 1]
    BY <1>2, <2>1
  <2>3. V[i] = d * b + a
    BY <1>7, <2>1
  <2>4. V[i + 1] = V[i] * GroupBase + x
    BY <1>1, <2>1, <2>2
  <2>5. R[i] = a * GroupBase + x /\ P(i) = b * GroupBase /\ x \in Nat /\ a \in Nat /\ b \in Nat
    <3>1. R[i] = a * GroupBase + x /\ P(i) = b * GroupBase /\ x \in Group
      BY <1>3, <1>4
    <3>2. x \in Nat
      BY <1>5, <3>1 DEF Group
    <3>3. QED
      BY <1>3, <1>4, <2>1, <3>1, <3>2
  <2> HIDE DEF a, b, x
  <2>6. (d * b + a) * GroupBase = (d * b) * GroupBase + a * GroupBase /\ (d * b) * GroupBase = d * (b * GroupBase)
        /\ (d * b) * GroupBase \in Int /\ a * GroupBase \in Int
    <3>1. d * b \in Int
      BY <1>5, <2>5
    <3>2. QED
      BY <1>5, <2>5, <3>1, Distribute, MulAssoc
  <2>7. V[i + 1] = d * P(i) + R[i]
    <3> DEFINE u == (d * b) * GroupBase
               w == a * GroupBase
    <3>1. V[i + 1] = (u + w) + x /\ d * P(i) = u /\ R[i] = w + x
      BY <2>3, <2>4, <2>5, <2>6
    <3>2. u \in Int /\ w \in Int
      BY <2>6
    <3> HIDE DEF u, w
    <3>3. QED
      BY <2>5, <3>1, <3>2
  <2>8. QED
    BY <2>1, <2>7
<1> HIDE DEF T
<1>8. \A i \in 0..n : i \in T
  BY <1>1, <1>6, <1>7, RangeInduction
<1>9. V[n + 1] = d * P(n) + R[n]
  BY <1>1, <1>8 DEF T
<1>10. Whole(e) = V[n + 1] /\ Whole(ds) = R[n]
  BY <1>1 DEF Whole, V, R, n
<1>11. QED
  BY <1>1, <1>9, <1>10 DEF e, n, P

\* How far the digits of a scale are from whole groups.
LEMMA PadFacts ==
    ASSUME NEW s \in 0..MAX_SCALE
    PROVE  /\ FractionGroups(s) \in Nat /\ GroupDigits * FractionGroups(s) \in 0..MAX_SCALE
           /\ Pad(s) \in 0..(GroupDigits - 1) /\ GroupDigits * FractionGroups(s) = s + Pad(s)
           /\ (IF s % GroupDigits = 0 THEN 1 ELSE POWERS[GroupDigits - (s % GroupDigits)]) = POWERS[Pad(s)]
<1> DEFINE g == GroupDigits
           q == s \div g
           r == s % g
           f == FractionGroups(s)
<1>1. PICK n \in Nat : MAX_SCALE = g * n
  BY GroupFacts
<1>2. g \in Nat /\ g >= 1 /\ s \in Nat /\ s <= MAX_SCALE /\ MAX_SCALE \in Nat
  BY GroupFacts
<1>3. q \in Nat /\ r \in Nat /\ r < g /\ s = q * g + r /\ q * g \in Nat
  <2>1. q \in Nat /\ r \in Nat /\ r < g /\ s = q * g + r
    BY <1>2, DivMod
  <2> HIDE DEF q, r
  <2>2. QED
    BY <1>2, <2>1
<1>4. f = (s + g - 1) \div g
  BY DEF FractionGroups
<1> HIDE DEF q, r, f
<1>5. CASE r = 0
  <2>1. s + g - 1 = q * g + (g - 1) /\ s + g - 1 \in Nat /\ g - 1 \in Nat /\ g - 1 < g /\ g \in Nat \ {0}
    BY <1>2, <1>3, <1>5
  <2> DEFINE x == s + g - 1
             y == g - 1
  <2> HIDE DEF x, y
  <2>2. x \in Nat /\ y \in Nat /\ y < g /\ g \in Nat \ {0} /\ x = q * g + y
    BY <2>1 DEF x, y
  <2>3. x \div g = q
    BY <1>3, <2>2, QuotientUnique
  <2>4. f = q
    BY <1>4, <2>3 DEF x
  <2>5. g * q = q * g /\ g * f = s
    BY <1>2, <1>3, <1>5, <2>4, MulAssoc
  <2>6. Pad(s) = 0
    BY <1>2, <2>5 DEF Pad, f
  <2>7. POWERS[0] = 1
    BY PowersAssumption
  <2>8. QED
    BY <1>2, <1>3, <1>5, <2>4, <2>5, <2>6, <2>7 DEF f, r
<1>6. CASE r # 0
  <2> DEFINE x == s + g - 1
             y == r - 1
             k == q + 1
  <2>1. k * g = q * g + g /\ k \in Nat
    BY <1>2, <1>3
  <2>2. x \in Nat /\ y \in Nat /\ y < g /\ g \in Nat \ {0} /\ x = k * g + y
    BY <1>2, <1>3, <1>6, <2>1
  <2> HIDE DEF x, y, k
  <2>3. x \div g = k
    BY <2>1, <2>2, QuotientUnique
  <2>4. f = k
    BY <1>4, <2>3 DEF x
  <2>5. g * k = k * g /\ g * n = n * g
    BY <1>1, <1>2, <2>1, MulAssoc
  <2>6. q < n
    <3>1. SUFFICES ASSUME n <= q PROVE FALSE
      BY <1>1, <1>3
    <3>2. n * g <= q * g
      BY <1>1, <1>2, <1>3, <3>1, MulMono
    <3>3. QED
      BY <1>1, <1>2, <1>3, <1>6, <2>5, <3>2
  <2>7. k * g <= n * g
    <3>1. k <= n
      BY <1>1, <1>3, <2>6 DEF k
    <3>2. QED
      BY <1>1, <1>2, <2>1, <3>1, MulMono
  <2>8. g * f = s + (g - r) /\ g * f \in 0..MAX_SCALE
    BY <1>1, <1>2, <1>3, <2>1, <2>4, <2>5, <2>7
  <2>9. Pad(s) = g - r
    BY <1>2, <1>3, <2>8 DEF Pad, f
  <2>10. QED
    BY <1>2, <1>3, <1>6, <2>1, <2>4, <2>8, <2>9 DEF f, r
<1>7. QED
  BY <1>5, <1>6

\* The zeros behind the last group kept.
LEMMA TrimmedKeeps ==
    ASSUME NEW ds \in Seq(Group), NEW w \in Int, w + 1 <= Len(ds)
    PROVE  \E k \in 0..Len(ds) :
              /\ Trimmed(ds, w) = SubSeq(ds, 1, k) /\ k >= w + 1 /\ (w < 0 => k = Len(ds))
              /\ \A i \in (k + 1)..Len(ds) : ds[i] = 0
<1> DEFINE n == Len(ds)
           from == IF w >= 0 THEN w + 1 ELSE n
           kept == {k \in from..n : \A i \in (k + 1)..n : ds[i] = 0}
<1>1. n \in Nat /\ from \in Nat /\ from <= n /\ from >= w + 1 /\ (w < 0 => from = n)
  OBVIOUS
<1> DEFINE k == CHOOSE k \in kept : \A j \in kept : k <= j
<1>2. Trimmed(ds, w) = SubSeq(ds, 1, k)
  BY DEF Trimmed
<1> HIDE DEF from
<1>3. kept \subseteq Nat /\ n \in kept
  BY <1>1
<1> HIDE DEF kept
<1>4. \E j \in kept : \A i \in kept : j <= i
  BY <1>3, LeastOf
<1>5. k \in kept
  BY <1>4
<1> HIDE DEF k
<1>6. k \in from..n /\ \A i \in (k + 1)..n : ds[i] = 0
  BY <1>5 DEF kept
<1>7. k \in 0..n /\ k >= w + 1 /\ (w < 0 => k = n)
  BY <1>1, <1>6
<1>8. QED
  BY <1>2, <1>6, <1>7

\* Nothing has been read before the first group.
LEMMA ReadNone ==
    ASSUME wire.digits \in Seq(Group), got = ZERO, group = 0
    PROVE  got = [ZERO EXCEPT !.m = Read(group)] /\ group <= Len(wire.digits) /\ ~(group > 0)
<1>1. ValueTo(wire.digits, Group, GroupBase)[0] = 0 /\ Len(wire.digits) \in Nat
  BY WholeSteps
<1>2. Read(group) = 0
  BY <1>1 DEF Read
<1>3. ZERO = [ZERO EXCEPT !.m = 0]
  BY DEF ZERO
<1>4. QED
  BY <1>1, <1>2, <1>3

\* The invariant holds before anything is sent or read.
LEMMA PostgresStarts == PostgresInit => PostgresInv
<1>1. SUFFICES ASSUME PostgresInit PROVE PostgresInv
  OBVIOUS
<1>2. /\ NoGroups \in [neg : BOOLEAN, weight : Int, scale : Nat, digits : Seq(Group)]
      /\ ZERO \in Decimal
  BY ZeroType DEF NoGroups
<1>3. /\ sent \in Decimal /\ mantissa4 = 0 /\ group = 0 /\ got = ZERO
      /\ \/ qpc \in {"idle", "to"} /\ wire = NoGroups
         \/ qpc = "received" /\ wire \in Numerics /\ sent = ZERO
  BY <1>1, <1>2 DEF PostgresInit, PostgresIdle, ToPostgres, FromPostgres
<1>4. wire \in [neg : BOOLEAN, weight : Int, scale : Nat, digits : Seq(Group)]
  BY <1>2, <1>3 DEF Numerics
<1>5. PostgresTypeOK
  BY <1>2, <1>3, <1>4 DEF PostgresTypeOK
<1>6. SendPart /\ WirePart /\ PostgresKeeps
  BY <1>3 DEF SendPart, WirePart, PostgresKeeps
<1>7. ReadPart
  <2>1. wire.digits \in Seq(Group)
    BY <1>4
  <2>2. got = [ZERO EXCEPT !.m = Read(group)] /\ group <= Len(wire.digits) /\ ~(group > 0)
    BY <1>3, <2>1, ReadNone
  <2>3. qpc # "fraction"
    BY <1>3
  <2>4. QED
    BY <2>2, <2>3 DEF ReadPart
<1>8. QED
  BY <1>5, <1>6, <1>7 DEF PostgresInv

\* A zero is sent as one group.
LEMMA SendZeroStep == ASSUME PostgresInv, SendZero PROVE PostgresInv'
<1>1. PostgresTypeOK /\ SendPart
  BY DEF PostgresInv
<1>2. /\ qpc = "to" /\ sent.m = 0 /\ wire' = [NoGroups EXCEPT !.digits = <<0>>] /\ qpc' = "from"
      /\ UNCHANGED <<sent, mantissa4, got, group>>
  BY DEF SendZero
<1>3. got = ZERO /\ group = 0
  BY <1>1, <1>2 DEF SendPart
<1>4. wire' = [neg |-> FALSE, weight |-> 0, scale |-> 0, digits |-> <<0>>]
  BY <1>2 DEF NoGroups
<1>5. GroupBase \in Nat /\ GroupBase >= 1 /\ GroupDigits \in Nat /\ PowLimit \in Nat /\ MAX_SCALE \in Nat /\ GroupDigits >= 1
  BY GroupFacts
<1>6. <<0>> \in Seq(Group) /\ Len(<<0>>) = 1 /\ 0 \in Group
  BY <1>5 DEF Group
<1>7. wire' \in [neg : BOOLEAN, weight : Int, scale : Nat, digits : Seq(Group)]
  BY <1>4, <1>6
<1>8. PostgresTypeOK'
  BY <1>1, <1>2, <1>7 DEF PostgresTypeOK
<1>9. PowerSent' = 0
  <2>1. wire'.weight + 1 - Len(wire'.digits) = 0
    BY <1>4, <1>6
  <2>2. QED
    BY <1>5, <2>1 DEF PowerSent
<1>10. Whole(wire'.digits) = 0
  <2> DEFINE R == ValueTo(<<0>>, Group, GroupBase)
  <2>1. R[0] = 0 /\ \A i \in 1..1 : R[i] = R[i - 1] * GroupBase + <<0>>[i]
    BY <1>6, WholeSteps
  <2> HIDE DEF R
  <2>2. R[1] = R[0] * GroupBase + 0
    BY <2>1
  <2>3. R[1] = 0
    BY <1>5, <2>1, <2>2
  <2>4. QED
    BY <1>4, <1>6, <2>3 DEF Whole, R
<1>11. WirePart'
  <2>1. wire' \in Numerics
    <3>1. GroupDigits * (wire'.weight + 1 - Len(wire'.digits)) \in -PowLimit..PowLimit
      BY <1>5, <1>9 DEF PowerSent
    <3>2. QED
      BY <1>7, <3>1 DEF Numerics
  <2>2. Back' = ZERO
    BY <1>2 DEF Back
  <2>3. Back'.s = 0 /\ Back'.m = 0 /\ ~Back'.neg
    BY <2>2 DEF ZERO
  <2>4. POWERS[0] = 1
    BY PowersAssumption
  <2>5. Whole(wire'.digits) * POWERS[Back'.s] = Back'.m * POWERS[-(PowerSent')]
    <3> DEFINE e == PowerSent'
    <3>1. -e = 0
      <4>1. e \in Int /\ e <= 0 /\ e >= 0
        BY <1>9
      <4> HIDE DEF e
      <4>2. QED
        BY <4>1
    <3>2. POWERS[-(PowerSent')] = 1 /\ POWERS[Back'.s] = 1
      BY <2>3, <2>4, <3>1
    <3>3. QED
      BY <1>10, <2>3, <3>2
  <2>6. PowerSent' <= 0 /\ -(PowerSent') <= MAX_SCALE /\ -(PowerSent') < Back'.s + GroupDigits
    BY <1>5, <1>9, <2>3
  <2>7. wire'.neg = Back'.neg /\ wire'.scale = Back'.s
    <3>1. Back'.neg = FALSE
      BY <2>2 DEF ZERO
    <3>2. QED
      BY <1>4, <2>3, <3>1
  <2>8. QED
    BY <2>1, <2>5, <2>6, <2>7 DEF WirePart
<1>12. SendPart' /\ PostgresKeeps'
  BY <1>2 DEF SendPart, PostgresKeeps
<1>13. ReadPart'
  <2>1. wire'.digits \in Seq(Group) /\ got' = ZERO /\ group' = 0
    BY <1>2, <1>3, <1>7
  <2>2. (wire.digits \in Seq(Group) /\ got = ZERO /\ group = 0 =>
            got = [ZERO EXCEPT !.m = Read(group)] /\ group <= Len(wire.digits) /\ ~(group > 0))'
    BY ReadNone, PTL
  <2>3. qpc' # "fraction"
    BY <1>2
  <2>4. QED
    BY <2>1, <2>2, <2>3 DEF ReadPart
<1>14. QED
  BY <1>8, <1>11, <1>12, <1>13 DEF PostgresInv

\* The mantissa is filled up to whole groups.
LEMMA FillStep == ASSUME PostgresInv, FillGroup PROVE PostgresInv'
<1>1. PostgresTypeOK /\ SendPart
  BY DEF PostgresInv
<1> DEFINE p == IF sent.s % GroupDigits = 0 THEN 1 ELSE POWERS[GroupDigits - (sent.s % GroupDigits)]
<1>2. /\ qpc = "to" /\ sent.m # 0 /\ mantissa4' = sent.m * p /\ qpc' = "groups"
      /\ UNCHANGED <<sent, wire, got, group>>
  BY DEF FillGroup
<1>3. /\ got = ZERO /\ group = 0 /\ wire = NoGroups
      /\ sent.m \in Nat /\ sent.s \in 0..MAX_SCALE
  BY <1>1, <1>2, BaseType DEF SendPart, PostgresTypeOK, Decimal, Mantissa
<1>4. p = POWERS[Pad(sent.s)] /\ Pad(sent.s) \in 0..(GroupDigits - 1)
  BY <1>3, PadFacts
<1> HIDE DEF p
<1>5. p \in Nat
  <2>1. Pad(sent.s) \in 0..PowLimit
    BY <1>4, GroupFacts
  <2>2. QED
    BY <1>4, <2>1, PowersType
<1>6. mantissa4' \in Nat
  BY <1>2, <1>3, <1>5
<1>7. PostgresTypeOK'
  BY <1>1, <1>2, <1>6 DEF PostgresTypeOK
<1>8. SendPart'
  <2>1. wire'.digits = <<>> /\ Len(<<>>) = 0 /\ <<>> \in Seq(Group)
    BY <1>2, <1>3 DEF NoGroups
  <2>2. Read(Len(wire.digits))' = 0
    <3>1. ValueTo(<<>>, Group, GroupBase)[0] = 0
      BY <2>1, WholeSteps
    <3>2. QED
      BY <2>1, <3>1 DEF Read
  <2>3. GroupDigits * Len(wire'.digits) = 0 /\ POWERS[0] = 1 /\ 0 <= MAX_SCALE + GroupDigits
    BY <2>1, PowersAssumption, GroupFacts
  <2>4. mantissa4' * POWERS[GroupDigits * Len(wire'.digits)] + Read(Len(wire.digits))' = sent'.m * POWERS[Pad(sent'.s)]
    BY <1>2, <1>4, <1>6, <2>2, <2>3
  <2>5. QED
    BY <1>2, <1>3, <2>3, <2>4 DEF SendPart
<1>9. WirePart' /\ ReadPart' /\ PostgresKeeps'
  BY <1>2 DEF WirePart, ReadPart, PostgresKeeps, Receiving
<1>10. QED
  BY <1>7, <1>8, <1>9 DEF PostgresInv

\* The last digits of what is left become the first group.
LEMMA PushStep == ASSUME PostgresInv, PushGroup PROVE PostgresInv'
<1>1. PostgresTypeOK /\ SendPart
  BY DEF PostgresInv
<1> DEFINE ds == wire.digits
           n == Len(ds)
           g == GroupDigits
           d == mantissa4 % GroupBase
           r == mantissa4 \div GroupBase
           a == POWERS[g * n]
           b == POWERS[Pad(sent.s)]
           u == Read(n)
<1>2. /\ qpc = "groups" /\ mantissa4 # 0 /\ wire' = [wire EXCEPT !.digits = <<d>> \o ds]
      /\ mantissa4' = r /\ UNCHANGED <<sent, got, group, qpc>>
  BY DEF PushGroup
<1>3. /\ got = ZERO /\ group = 0 /\ sent.m # 0 /\ g * n <= MAX_SCALE + g
      /\ mantissa4 * a + u = sent.m * b
  BY <1>1, <1>2 DEF SendPart
<1>4. /\ wire \in [neg : BOOLEAN, weight : Int, scale : Nat, digits : Seq(Group)]
      /\ ds \in Seq(Group) /\ n \in Nat /\ mantissa4 \in Nat
      /\ sent.m \in Nat /\ sent.m <= Max96 /\ sent.s \in 0..MAX_SCALE
  <2>1. sent.m \in Nat /\ sent.m <= Max96 /\ sent.s \in 0..MAX_SCALE /\ mantissa4 \in Nat
    BY <1>1, BaseType DEF PostgresTypeOK, Decimal, Mantissa
  <2>2. wire \in [neg : BOOLEAN, weight : Int, scale : Nat, digits : Seq(Group)]
    BY <1>1 DEF PostgresTypeOK
  <2>3. ds \in Seq(Group)
    BY <2>2
  <2>4. n \in Nat
    BY <2>3
  <2>5. QED
    BY <2>1, <2>2, <2>3, <2>4
<1>5. /\ g \in Nat /\ g >= 1 /\ g <= MAX_SCALE /\ MAX_SCALE \in Nat /\ PowLimit \in Nat /\ 2 * MAX_SCALE <= PowLimit
      /\ MAX_SCALE >= 1 /\ GroupBase \in Nat /\ GroupBase >= 1 /\ Max96 \in Nat
  BY GroupFacts, BaseAssumption
<1>6. u \in Nat /\ u = Whole(ds)
  <2>1. ValueTo(ds, Group, GroupBase) \in [0..n -> Nat]
    BY <1>4, WholeSteps
  <2>2. ValueTo(ds, Group, GroupBase)[n] \in Nat
    BY <1>4, <2>1
  <2>3. QED
    BY <2>2 DEF Read, Whole
<1>7. d \in Nat /\ d < GroupBase /\ r \in Nat /\ mantissa4 = r * GroupBase + d
  BY <1>4, <1>5, DivMod
<1>8. Pad(sent.s) \in 0..(g - 1) /\ Pad(sent.s) \in 0..PowLimit /\ b \in Nat /\ b >= 1
  <2>1. Pad(sent.s) \in 0..(g - 1)
    BY <1>4, PadFacts
  <2>2. Pad(sent.s) \in 0..PowLimit
    BY <1>5, <2>1
  <2>3. QED
    BY <2>1, <2>2, PowersType
<1> HIDE DEF u, d, r
<1> DEFINE e == g * n
<1>9. e \in 0..PowLimit /\ a \in Nat /\ a >= 1
  <2>1. e \in Nat
    BY <1>4, <1>5
  <2>2. e <= PowLimit
    BY <1>3, <1>5, <2>1
  <2>3. e \in 0..PowLimit
    BY <1>5, <2>1, <2>2
  <2> HIDE DEF e
  <2>4. POWERS[e] \in Nat /\ POWERS[e] >= 1
    BY <2>3, PowersType
  <2>5. QED
    BY <2>3, <2>4 DEF e
<1> HIDE DEF a, b
<1>10. e <= MAX_SCALE
  <2> DEFINE c == MAX_SCALE + 1 + Pad(sent.s)
             m1 == MAX_SCALE + 1
  <2>1. c \in 0..PowLimit /\ m1 \in 0..PowLimit /\ c = m1 + Pad(sent.s) /\ c <= MAX_SCALE + g
    BY <1>5, <1>8
  <2>2. POWERS[c] = POWERS[m1] * b /\ POWERS[m1] \in Nat /\ Max96 + 1 <= POWERS[m1]
    <3>1. POWERS[m1 + Pad(sent.s)] = POWERS[m1] * POWERS[Pad(sent.s)]
      <4> HIDE DEF c, m1
      <4>1. QED
        BY <1>8, <2>1, PowersAdd
    <3>2. QED
      BY <2>1, <3>1, PowersType, GroupFacts DEF b
  <2> HIDE DEF c, m1
  <2>3. sent.m * b < POWERS[c]
    <3>1. (sent.m + 1) * b <= POWERS[m1] * b
      <4>1. sent.m + 1 \in Int /\ POWERS[m1] \in Int /\ sent.m + 1 <= POWERS[m1] /\ b \in Nat
        BY <1>4, <1>5, <1>8, <2>2
      <4>2. QED
        BY ONLY <4>1, MulMono
    <3>2. (sent.m + 1) * b = sent.m * b + b /\ sent.m * b \in Nat
      BY <1>4, <1>8
    <3>3. POWERS[m1] * b \in Nat
      BY <1>8, <2>2
    <3> DEFINE x == sent.m * b
               y == POWERS[m1] * b
    <3>4. x + b <= y /\ x \in Nat /\ y \in Nat /\ POWERS[c] = y
      BY <2>2, <3>1, <3>2, <3>3
    <3> HIDE DEF x, y
    <3>5. x < POWERS[c]
      BY <1>8, <3>4
    <3>6. QED
      BY <3>5 DEF x
  <2>4. a <= sent.m * b
    <3>1. 1 * a <= mantissa4 * a /\ mantissa4 * a \in Int
      BY <1>2, <1>4, <1>9, MulMono
    <3>2. QED
      BY <1>3, <1>6, <1>9, <3>1
  <2>5. e < c
    <3>1. SUFFICES ASSUME c <= e PROVE FALSE
      BY <1>9, <2>1
    <3>2. POWERS[c] <= POWERS[e]
      <4> HIDE DEF e
      <4>1. QED
        BY <1>9, <2>1, <3>1, PowersMono
    <3>3. POWERS[e] = a
      BY DEF a, e
    <3>4. POWERS[c] \in Nat /\ sent.m * b \in Nat
      BY <1>4, <1>8, <2>1, PowersType
    <3>5. QED
      BY <1>9, <2>3, <2>4, <3>2, <3>3, <3>4
  <2>6. PICK k \in Nat : MAX_SCALE = g * k
    BY GroupFacts
  <2>7. n <= k
    <3>1. SUFFICES ASSUME k + 1 <= n PROVE FALSE
      BY <1>4, <2>6
    <3>2. (k + 1) * g <= n * g /\ (k + 1) * g = k * g + g /\ k * g = g * k /\ n * g = e
      <4>1. k + 1 \in Int /\ n \in Int /\ k \in Int /\ g \in Nat /\ g \in Int
        BY <1>4, <1>5, <2>6
      <4>2. (k + 1) * g <= n * g
        BY <3>1, <4>1, MulMono
      <4>3. k * g = g * k /\ n * g = g * n
        BY <4>1, MulAssoc
      <4>4. (k + 1) * g = k * g + 1 * g
        BY <4>1, Distribute
      <4>5. 1 * g = g
        BY <4>1
      <4>6. QED
        BY <4>2, <4>3, <4>4, <4>5
    <3>3. k * g \in Int /\ n * g \in Int
      BY <1>4, <1>5, <2>6
    <3> DEFINE kg == k * g
               ng == n * g
    <3>4. kg + g <= ng /\ kg = MAX_SCALE /\ ng = e
      BY <2>6, <3>2
    <3> HIDE DEF kg, ng, e
    <3>5. QED
      BY <1>5, <1>9, <2>1, <2>5, <3>4
  <2>8. n * g <= k * g /\ n * g = g * n /\ k * g = g * k
    BY <1>4, <1>5, <2>6, <2>7, MulMono, MulAssoc, SMTT(30)
  <2>9. QED
    BY <2>6, <2>8
<1>11. /\ <<d>> \o ds \in Seq(Group) /\ Len(<<d>> \o ds) = n + 1
       /\ Whole(<<d>> \o ds) = d * a + u
  <2>1. d \in Group
    BY <1>5, <1>7 DEF Group
  <2>2. g * Len(ds) <= PowLimit
    BY <1>9
  <2>3. /\ <<d>> \o ds \in Seq(Group) /\ Len(<<d>> \o ds) = Len(ds) + 1
        /\ Whole(<<d>> \o ds) = d * POWERS[g * Len(ds)] + Whole(ds)
    BY <1>4, <2>1, <2>2, WholePrepend
  <2>4. QED
    BY <1>6, <2>3 DEF a
<1>12. /\ wire' \in [neg : BOOLEAN, weight : Int, scale : Nat, digits : Seq(Group)]
       /\ wire'.digits = <<d>> \o ds
  BY <1>2, <1>4, <1>11
<1>13. PostgresTypeOK'
  BY <1>1, <1>2, <1>7, <1>12 DEF PostgresTypeOK
<1>14. Read(Len(wire.digits))' = d * a + u /\ Len(wire'.digits) = n + 1
  BY <1>11, <1>12 DEF Read, Whole
<1>15. g * (n + 1) = e + g /\ e + g \in 0..PowLimit /\ g \in 0..PowLimit /\ e + g <= MAX_SCALE + g
  <2>1. g * (n + 1) = g * n + g
    BY <1>4, <1>5
  <2> HIDE DEF e
  <2>2. e + g \in 0..PowLimit /\ g \in 0..PowLimit /\ e + g <= MAX_SCALE + g
    BY <1>5, <1>9, <1>10
  <2>3. QED
    BY <2>1, <2>2 DEF e
<1>16. POWERS[g * (n + 1)] = a * GroupBase
  <2>1. POWERS[e + g] = POWERS[e] * POWERS[g]
    <3> HIDE DEF e
    <3>1. QED
      BY <1>9, <1>15, PowersAdd
  <2>2. QED
    BY <1>15, <2>1 DEF a, e, GroupBase
<1>17. r * (a * GroupBase) + (d * a + u) = sent.m * b
  <2>1. mantissa4 * a = (r * GroupBase) * a + d * a
    BY <1>5, <1>7, <1>9, Distribute
  <2>2. (r * GroupBase) * a = r * (a * GroupBase)
    BY <1>5, <1>7, <1>9, MulAssoc
  <2>3. r * (a * GroupBase) \in Int /\ d * a \in Int
    BY <1>5, <1>7, <1>9
  <2> DEFINE x == r * (a * GroupBase)
             y == d * a
             z == mantissa4 * a
             w == sent.m * b
  <2>4. z = x + y /\ z + u = w /\ x \in Int /\ y \in Int
    BY <1>3, <2>1, <2>2, <2>3
  <2> HIDE DEF x, y, z, w
  <2>5. x + (y + u) = w
    BY <1>6, <2>4
  <2>6. QED
    BY <2>5 DEF x, y, w
<1>18. SendPart'
  <2>1. GroupDigits * Len(wire'.digits) <= MAX_SCALE + GroupDigits
    BY <1>14, <1>15
  <2>2. mantissa4' * POWERS[GroupDigits * Len(wire'.digits)] + Read(Len(wire.digits))' = sent'.m * POWERS[Pad(sent'.s)]
    BY <1>2, <1>14, <1>16, <1>17 DEF b
  <2>3. QED
    BY <1>2, <1>3, <2>1, <2>2 DEF SendPart
<1>19. WirePart' /\ ReadPart' /\ PostgresKeeps'
  BY <1>2 DEF WirePart, ReadPart, PostgresKeeps, Receiving
<1>20. QED
  BY <1>13, <1>18, <1>19 DEF PostgresInv

\* The groups are all there: they are sent without the zeros at their end.
LEMMA SendStep == ASSUME PostgresInv, Send PROVE PostgresInv'
<1>1. PostgresTypeOK /\ SendPart
  BY DEF PostgresInv
<1> DEFINE ds == wire.digits
           n == Len(ds)
           g == GroupDigits
           f == FractionGroups(sent.s)
           w == n - f - 1
           pad == Pad(sent.s)
           R == ValueTo(ds, Group, GroupBase)
<1>2. /\ qpc = "groups" /\ mantissa4 = 0
      /\ wire' = [neg |-> sent.neg, weight |-> w, scale |-> sent.s, digits |-> Trimmed(ds, w)]
      /\ qpc' = "from" /\ UNCHANGED <<sent, mantissa4, got, group>>
  BY DEF Send
<1>3. /\ got = ZERO /\ group = 0 /\ sent.m # 0 /\ g * n <= MAX_SCALE + g
      /\ mantissa4 * POWERS[g * n] + Read(n) = sent.m * POWERS[pad]
  BY <1>1, <1>2 DEF SendPart
<1>4. ds \in Seq(Group) /\ n \in Nat
  <2>1. wire \in [neg : BOOLEAN, weight : Int, scale : Nat, digits : Seq(Group)]
    BY <1>1 DEF PostgresTypeOK
  <2>2. ds \in Seq(Group)
    BY <2>1
  <2>3. QED
    BY <2>2
<1>5. sent.m \in Nat /\ sent.s \in 0..MAX_SCALE /\ sent.s \in Nat /\ sent.neg \in BOOLEAN /\ sent \in Decimal
  BY <1>1, GroupFacts DEF PostgresTypeOK, Decimal, Mantissa
<1>6. /\ g \in Nat /\ g >= 1 /\ g <= MAX_SCALE /\ MAX_SCALE \in Nat /\ PowLimit \in Nat /\ 2 * MAX_SCALE <= PowLimit
      /\ GroupBase \in Nat
  BY GroupFacts
<1>7. /\ f \in Nat /\ g * f \in 0..MAX_SCALE /\ pad \in 0..(g - 1) /\ g * f = sent.s + pad
  BY <1>5, PadFacts
<1>8. w \in Int /\ w + 1 <= n /\ w + 1 = n - f
  BY <1>4, <1>7
<1>9. PICK k \in 0..n : /\ Trimmed(ds, w) = SubSeq(ds, 1, k) /\ k >= w + 1
                        /\ \A i \in (k + 1)..n : ds[i] = 0
  BY <1>4, <1>8, TrimmedKeeps
<1> DEFINE h == SubSeq(ds, 1, k)
           z == g * (n - k)
           e == g * f - z
<1>10. h \in Seq(Group) /\ Len(h) = k /\ Whole(h) = R[k]
  BY <1>4, <1>9, WholePrefix DEF Whole
<1>11. n - k \in Nat /\ n - k <= f /\ k \in Nat
  BY <1>4, <1>7, <1>8, <1>9
<1>12. z \in Nat /\ z <= g * f
  <2>1. (n - k) * g <= f * g /\ (n - k) * g = g * (n - k) /\ f * g = g * f
    BY <1>6, <1>7, <1>11, MulMono, MulAssoc
  <2>2. z \in Nat
    BY <1>6, <1>11
  <2>3. QED
    BY <2>1, <2>2
<1>13. g * (w + 1 - k) = -e
  <2>1. w + 1 - k = (n - k) - f
    BY <1>4, <1>7, <1>8, <1>11, SMTT(30)
  <2>2. g * ((n - k) - f) = g * (n - k) - g * f
    BY <1>4, <1>6, <1>7, <1>11
  <2> HIDE DEF w
  <2> DEFINE x == g * f
  <2>3. g * (w + 1 - k) = z - x /\ e = x - z /\ x \in Int /\ z \in Int
    BY <1>7, <1>12, <2>1, <2>2
  <2> HIDE DEF x, z, e
  <2>4. QED
    BY <2>3
<1>14. e \in 0..MAX_SCALE /\ e < sent.s + g /\ e + z = sent.s + pad /\ z \in 0..MAX_SCALE
  <2> DEFINE x == g * f
  <2>1. x \in 0..MAX_SCALE /\ x = sent.s + pad /\ z <= x /\ z \in Nat /\ e = x - z
    BY <1>7, <1>12
  <2>2. pad \in 0..(g - 1) /\ sent.s \in Nat /\ g \in Nat /\ MAX_SCALE \in Nat
    BY <1>5, <1>6, <1>7
  <2> HIDE DEF x, z, e, pad
  <2>3. e \in Nat /\ e <= x /\ e + z = x /\ z <= MAX_SCALE /\ pad < g
    BY <2>1, <2>2, SMTT(30)
  <2>4. e <= MAX_SCALE /\ e < sent.s + g
    <3> DEFINE t == sent.s
               gg == g
    <3>1. /\ x \in Int /\ x <= MAX_SCALE /\ x = t + pad /\ pad < gg /\ e <= x /\ e \in Int
          /\ pad \in Int /\ t \in Int /\ gg \in Int /\ MAX_SCALE \in Int
      BY <2>1, <2>2, <2>3
    <3> HIDE DEF t, gg
    <3>2. e <= MAX_SCALE /\ e < t + gg
      BY <3>1
    <3>3. QED
      BY <3>2 DEF t, gg
  <2>5. QED
    BY <2>1, <2>2, <2>3, <2>4
<1>15. R[n] = sent.m * POWERS[pad] /\ R[n] = R[k] * POWERS[z] /\ R[k] \in Nat
  <2>1. Read(n) = R[n]
    BY DEF Read
  <2>2. POWERS[g * n] \in Nat
    <3>1. g * n \in 0..PowLimit
      <4>1. g * n \in Nat
        BY <1>4, <1>6
      <4>2. QED
        BY <1>3, <1>6, <4>1
    <3> HIDE DEF n
    <3>2. QED
      BY <3>1, PowersType
  <2>3. k \in 0..Len(ds) /\ n - k \in 0..(Len(ds) - k) /\ GroupDigits * (n - k) <= PowLimit /\ k + (n - k) = n
    BY <1>4, <1>6, <1>9, <1>11, <1>14
  <2>4. /\ R[k] \in Nat /\ R[k + (n - k)] \in Nat
        /\ (\A j \in (k + 1)..(k + (n - k)) : ds[j] = 0) => R[k + (n - k)] = R[k] * POWERS[GroupDigits * (n - k)]
    BY <1>4, <2>3, WholeGrows
  <2>5. R[k] \in Nat /\ R[n] \in Nat /\ R[n] = R[k] * POWERS[z]
    BY <1>9, <2>3, <2>4
  <2>6. mantissa4 * POWERS[g * n] = 0
    BY <1>2, <2>2
  <2> HIDE DEF R
  <2>7. R[n] = sent.m * POWERS[pad]
    BY <1>3, <2>1, <2>5, <2>6
  <2>8. QED
    BY <2>5, <2>7
<1> HIDE DEF R, e, z, pad, f
<1>16. R[k] * POWERS[sent.s] = sent.m * POWERS[e]
  <2>1. /\ e \in 0..PowLimit /\ z \in 0..PowLimit /\ sent.s \in 0..PowLimit /\ pad \in 0..PowLimit
        /\ e + z \in 0..PowLimit /\ sent.s + pad \in 0..PowLimit
    BY <1>5, <1>6, <1>7, <1>14, SMTT(30)
  <2> DEFINE a == POWERS[e]
             b == POWERS[z]
             c == POWERS[sent.s]
             d == POWERS[pad]
             r == R[k]
             m == sent.m
  <2>2. /\ a \in Nat /\ b \in Nat \ {0} /\ c \in Nat /\ d \in Nat
        /\ POWERS[e + z] = a * b /\ POWERS[sent.s + pad] = c * d
    BY <2>1, PowersType, PowersAdd, SMTT(30)
  <2>3. a * b = c * d /\ r * b = m * d /\ r \in Nat /\ m \in Nat
    BY <1>5, <1>14, <1>15, <2>2
  <2> HIDE DEF a, b, c, d, r, m
  <2>4. (r * c) * b = (r * b) * c
    BY <2>2, <2>3
  <2>5. (m * d) * c = m * (c * d)
    BY <2>2, <2>3
  <2>6. m * (a * b) = (m * a) * b
    BY <2>2, <2>3
  <2>7. (r * c) * b = (m * a) * b
    BY <2>3, <2>4, <2>5, <2>6
  <2>8. r * c \in Int /\ m * a \in Int
    BY <2>2, <2>3
  <2>9. r * c = m * a
    BY <2>2, <2>7, <2>8, Cancel
  <2>10. QED
    BY <2>9 DEF r, c, m, a
<1>17. /\ wire' = [neg |-> sent.neg, weight |-> w, scale |-> sent.s, digits |-> h]
       /\ wire' \in [neg : BOOLEAN, weight : Int, scale : Nat, digits : Seq(Group)]
  BY <1>2, <1>5, <1>8, <1>9, <1>10
<1>18. wire'.digits = h /\ wire'.weight = w /\ wire'.neg = sent.neg /\ wire'.scale = sent.s
  BY <1>17
<1> HIDE DEF h, w
<1>19. PowerSent' = -e
  BY <1>10, <1>13, <1>18 DEF PowerSent
<1>20. PostgresTypeOK'
  BY <1>1, <1>2, <1>17 DEF PostgresTypeOK
<1>21. WirePart'
  <2>1. -e \in -PowLimit..PowLimit
    BY <1>6, <1>14
  <2>2. wire' \in Numerics
    BY <1>17, <1>19, <2>1 DEF Numerics, PowerSent
  <2>3. Back' = sent
    BY <1>2, <1>3 DEF Back
  <2>4. -(PowerSent') = e
    <3> DEFINE q == PowerSent'
    <3>1. q = -e /\ e \in Int
      BY <1>14, <1>19
    <3> HIDE DEF q
    <3>2. -q = e
      BY <3>1
    <3>3. QED
      BY <3>2 DEF q
  <2>5. PowerSent' <= 0 /\ e <= MAX_SCALE /\ e < sent.s + g
    BY <1>14, <1>19
  <2>6. Whole(wire'.digits) * POWERS[sent.s] = sent.m * POWERS[e]
    BY <1>10, <1>16, <1>18
  <2>7. QED
    BY <1>18, <2>2, <2>3, <2>4, <2>5, <2>6 DEF WirePart
<1>22. SendPart' /\ PostgresKeeps'
  BY <1>2 DEF SendPart, PostgresKeeps
<1>23. ReadPart'
  <2>1. wire'.digits \in Seq(Group) /\ got' = ZERO /\ group' = 0
    BY <1>2, <1>3, <1>10, <1>18
  <2>2. (wire.digits \in Seq(Group) /\ got = ZERO /\ group = 0 =>
            got = [ZERO EXCEPT !.m = Read(group)] /\ group <= Len(wire.digits) /\ ~(group > 0))'
    BY ReadNone, PTL
  <2>3. qpc' # "fraction"
    BY <1>2
  <2>4. QED
    BY <2>1, <2>2, <2>3 DEF ReadPart
<1>24. QED
  BY <1>20, <1>21, <1>22, <1>23 DEF PostgresInv

\* The sorts of what is on the wire and of what has been read of it.
LEMMA WireFacts ==
    ASSUME PostgresTypeOK, wire \in Numerics
    PROVE  /\ wire.digits \in Seq(Group) /\ Len(wire.digits) \in Nat /\ wire.weight \in Int
           /\ wire.neg \in BOOLEAN /\ wire.scale \in Nat
           /\ PowerSent \in -PowLimit..PowLimit /\ PowerSent = GroupDigits * ((wire.weight + 1) - Len(wire.digits))
           /\ got.m \in Nat /\ got.m <= Max96 /\ got.s \in 0..MAX_SCALE /\ got.neg \in BOOLEAN /\ group \in Nat
           /\ Read(0) = 0 /\ Whole(wire.digits) = Read(Len(wire.digits))
           /\ \A i \in 0..Len(wire.digits) : Read(i) \in Nat
           /\ \A i \in 1..Len(wire.digits) :
                 Read(i) = Read(i - 1) * GroupBase + wire.digits[i] /\ wire.digits[i] \in Group
<1>1. wire \in [neg : BOOLEAN, weight : Int, scale : Nat, digits : Seq(Group)] /\ PowerSent \in -PowLimit..PowLimit
  BY DEF Numerics, PowerSent
<1>2. wire.digits \in Seq(Group) /\ wire.weight \in Int /\ wire.neg \in BOOLEAN /\ wire.scale \in Nat
  BY <1>1
<1>3. PowerSent = GroupDigits * ((wire.weight + 1) - Len(wire.digits))
  <2>1. Len(wire.digits) \in Nat
    BY <1>2
  <2>2. wire.weight + 1 - Len(wire.digits) = (wire.weight + 1) - Len(wire.digits)
    BY <1>2, <2>1, SMTT(30)
  <2>3. QED
    BY <2>2 DEF PowerSent
<1>4. got \in [neg : BOOLEAN, m : Mantissa, s : 0..MAX_SCALE] /\ group \in Nat
  BY DEF PostgresTypeOK, Decimal
<1>5. got.m \in Nat /\ got.m <= Max96 /\ got.s \in 0..MAX_SCALE /\ got.neg \in BOOLEAN
  BY <1>4, BaseType DEF Mantissa
<1> DEFINE R == ValueTo(wire.digits, Group, GroupBase)
<1>6. /\ R \in [0..Len(wire.digits) -> Nat] /\ R[0] = 0 /\ Len(wire.digits) \in Nat
      /\ \A i \in 1..Len(wire.digits) : R[i] = R[i - 1] * GroupBase + wire.digits[i] /\ wire.digits[i] \in Group
  BY <1>2, WholeSteps
<1>7. \A i : Read(i) = R[i]
  BY DEF Read
<1>8. Whole(wire.digits) = R[Len(wire.digits)]
  BY DEF Whole
<1> HIDE DEF R
<1>9. \A i \in 0..Len(wire.digits) : R[i] \in Nat
  BY <1>6
<1>10. QED
  BY <1>1, <1>2, <1>3, <1>4, <1>5, <1>6, <1>7, <1>8, <1>9

\* Whole numbers fit up to the largest mantissa.
LEMMA FitsInteger ==
    ASSUME NEW v \in Nat
    PROVE  Fits(v, 0) <=> v <= Max96
<1>1. MAX_SCALE \in Nat /\ SmallerOf(0, MAX_SCALE) = 0
  BY GroupFacts DEF SmallerOf
<1>2. POWERS[0] = 1
  BY PowersAssumption
<1>3. HalfEven(v, 1) = v
  BY HalfEvenExact
<1>4. FittingScales(v, 0) = {t \in 0..0 : HalfEven(v, POWERS[0 - t]) <= Max96}
  BY <1>1 DEF FittingScales
<1>5. \A t \in 0..0 : HalfEven(v, POWERS[0 - t]) = v
  <2>1. SUFFICES ASSUME NEW t \in 0..0 PROVE HalfEven(v, POWERS[0 - t]) = v
    OBVIOUS
  <2>2. t \in Int /\ t <= 0 /\ t >= 0
    OBVIOUS
  <2> DEFINE d == 0 - t
  <2>3. d \in Int /\ d <= 0 /\ d >= 0
    BY <2>2
  <2> HIDE DEF d
  <2>4. d = 0
    BY <2>3
  <2>5. QED
    BY <1>2, <1>3, <2>4 DEF d
<1>6. 0 \in 0..0
  OBVIOUS
<1>7. QED
  BY <1>4, <1>5, <1>6 DEF Fits

\* The powers an i128 is multiplied up to, one after the other.
LEMMA Pow128Steps ==
    ASSUME NEW n \in Nat
    PROVE  /\ Pow128(n) \in [0..n -> Nat] /\ Pow128(n)[0] = 1
           /\ \A i \in 1..n : Pow128(n)[i] = (Pow128(n)[i - 1] * Ten) % Values128
<1> DEFINE step == [p \in Nat \X Nat |-> (p[2] * Ten) % Values128]
<1>1. Ten \in Nat /\ Values128 \in Nat \ {0}
  <2>1. B2 \in Nat /\ B2 >= 1
    BY BaseType
  <2>2. B2 * B2 \in Nat /\ B2 * B2 >= 1
    BY <2>1
  <2>3. QED
    BY <2>2, GroupFacts DEF Values128
<1>2. step \in [Nat \X Nat -> Nat]
  <2>1. \A v \in Nat : v * Ten \in Nat /\ (v * Ten) % Values128 \in Nat
    <3>1. TAKE v \in Nat
    <3>2. v * Ten \in Nat
      BY <1>1
    <3>3. QED
      BY <1>1, <3>2, DivMod
  <2>2. QED
    BY <2>1
<1>3. PICK f : Recurs(f, n, 1, step)
  <2> HIDE DEF step
  <2>1. QED
    BY <1>2, RecursionExists, 1 \in Nat
<1>4. \A i \in 1..n : f[i] = (f[i - 1] * Ten) % Values128
  <2>1. \A i \in 1..n : <<i, f[i - 1]>> \in Nat \X Nat
    BY <1>3 DEF Recurs
  <2>2. QED
    BY <1>3, <2>1 DEF Recurs
<1> DEFINE body(h) == [i \in 0..n |-> IF i = 0 THEN 1 ELSE (h[i - 1] * Ten) % Values128]
<1>5. f = body(f)
  <2>1. \A i \in 0..n : i # 0 => i \in 1..n
    OBVIOUS
  <2>2. \A i \in 0..n : f[i] = body(f)[i]
    BY <1>3, <1>4, <2>1 DEF Recurs
  <2>3. f \in [0..n -> Nat]
    BY <1>3 DEF Recurs
  <2>4. QED
    BY <2>2, <2>3
<1> DEFINE h == Pow128(n)
<1>6. h = body(h)
  BY <1>5 DEF Pow128
<1> HIDE DEF h
<1>7. h[0] = 1 /\ \A i \in 1..n : h[i] = (h[i - 1] * Ten) % Values128
  BY <1>6
<1>8. h \in [0..n -> Nat]
  <2> DEFINE T == {i \in 0..n : h[i] \in Nat}
  <2>1. 0 \in T
    BY <1>7
  <2>2. \A i \in 1..n : i - 1 \in T => i \in T
    <3>1. TAKE i \in 1..n
    <3>2. SUFFICES ASSUME h[i - 1] \in Nat PROVE h[i] \in Nat
      OBVIOUS
    <3>3. h[i - 1] * Ten \in Nat
      BY <1>1, <3>2
    <3>4. (h[i - 1] * Ten) % Values128 \in Nat
      BY <1>1, <3>3, DivMod
    <3>5. QED
      BY <1>7, <3>4
  <2> HIDE DEF T
  <2>3. \A i \in 0..n : i \in T
    BY <2>1, <2>2, RangeInduction
  <2>4. QED
    BY <1>6, <2>3 DEF T
<1>9. QED
  BY <1>7, <1>8 DEF h

\* A power that does not overflow is what it should be, one that does is no mantissa.
LEMMA Pow128Facts ==
    ASSUME NEW n \in 0..PowLimit
    PROVE  /\ ~PowOverflows(n) => Magnitude(Pow128(n)[n]) = POWERS[n]
           /\ PowOverflows(n) => POWERS[n] > Max96
           /\ Magnitude(Pow128(n)[n]) \in Nat
<1> DEFINE p == Pow128(n)
           T == {i \in 0..n : p[i] = POWERS[i] /\ p[i] < Half128}
<1>1. n \in Nat /\ PowLimit \in Nat /\ Ten \in Nat /\ n \in 0..n /\ 0..n \subseteq 0..PowLimit
  BY GroupFacts
<1>2. p \in [0..n -> Nat] /\ p[0] = 1 /\ \A i \in 1..n : p[i] = (p[i - 1] * Ten) % Values128
  BY <1>1, Pow128Steps
<1> HIDE DEF p
<1>3. /\ Half128 \in Nat /\ Values128 = 2 * Half128 /\ Max96 < Half128 /\ 1 < Half128 /\ Max96 \in Nat
  <2>1. Base \in Nat /\ Base > 2 /\ Base % 2 = 0 /\ B3 \in Nat /\ Max96 = B3 - 1 /\ B3 >= 8 /\ B2 \in Nat
    BY BaseAssumption, BaseType
  <2> DEFINE h == Base \div 2
  <2>2. h \in Nat /\ Base = 2 * h /\ h >= 2
    BY <2>1
  <2>3. Values128 = B3 * Base
    BY <2>1 DEF Values128, B2, B3
  <2> HIDE DEF h
  <2>4. B3 * (2 * h) = 2 * (B3 * h) /\ B3 * h \in Nat
    BY <2>1, <2>2
  <2>5. 1 * B3 <= h * B3 /\ h * B3 = B3 * h /\ 1 * B3 = B3
    BY <2>1, <2>2, MulMono
  <2> DEFINE x == B3 * h
  <2>6. x \in Nat /\ Values128 = 2 * x /\ B3 <= x
    BY <2>2, <2>3, <2>4, <2>5
  <2> HIDE DEF x
  <2>7. Half128 = x
    BY <2>6 DEF Half128
  <2>8. QED
    BY <2>1, <2>6, <2>7
<1>4. 0 \in T
  BY <1>1, <1>2, <1>3, PowersAssumption
<1>5. ASSUME NEW i \in 1..n, i - 1 \in T
      PROVE  p[i - 1] * Ten = POWERS[i] /\ POWERS[i] \in Nat /\ (POWERS[i] < Half128 => i \in T)
  <2>1. i - 1 \in 0..PowLimit /\ 1 \in 0..PowLimit /\ i \in 0..PowLimit /\ (i - 1) + 1 = i
    BY <1>1
  <2>2. POWERS[i] = POWERS[i - 1] * Ten /\ POWERS[i] \in Nat
    BY <2>1, PowersAssumption, PowersType
  <2>3. p[i - 1] * Ten = POWERS[i]
    BY <1>5, <2>2
  <2>4. p[i] = POWERS[i] % Values128
    BY <1>2, <2>3
  <2>5. POWERS[i] < Half128 => POWERS[i] % Values128 = POWERS[i]
    <3> DEFINE x == POWERS[i]
    <3>1. x \in Nat
      BY <2>2
    <3> HIDE DEF x
    <3>2. x < Half128 => x % Values128 = x
      BY <1>3, <3>1
    <3>3. QED
      BY <3>2 DEF x
  <2>6. QED
    BY <2>2, <2>3, <2>4, <2>5
<1>6. ASSUME \A i \in 1..n : i - 1 \in T => POWERS[i] < Half128
      PROVE  \A i \in 0..n : i \in T
  <2>1. \A i \in 1..n : i - 1 \in T => i \in T
    BY <1>5, <1>6
  <2> HIDE DEF T
  <2>2. QED
    BY <1>1, <1>4, <2>1, RangeInduction
<1>7. ~PowOverflows(n) => Magnitude(p[n]) = POWERS[n]
  <2>1. SUFFICES ASSUME ~PowOverflows(n) PROVE Magnitude(p[n]) = POWERS[n]
    OBVIOUS
  <2>2. \A i \in 1..n : ~(p[i - 1] * Ten >= Half128)
    BY <2>1 DEF PowOverflows, p
  <2>3. \A i \in 1..n : i - 1 \in T => POWERS[i] < Half128
    <3>1. TAKE i \in 1..n
    <3>2. HAVE i - 1 \in T
    <3>3. p[i - 1] * Ten = POWERS[i] /\ POWERS[i] \in Nat
      BY <1>5, <3>2
    <3>4. QED
      BY <1>3, <2>2, <3>3
  <2>4. n \in T
    BY <1>1, <1>6, <2>3
  <2>5. QED
    BY <2>4 DEF Magnitude
<1>8. PowOverflows(n) => POWERS[n] > Max96
  <2>1. SUFFICES ASSUME ~(POWERS[n] > Max96) PROVE ~PowOverflows(n)
    OBVIOUS
  <2>2. \A i \in 1..n : POWERS[i] < Half128
    <3>1. TAKE i \in 1..n
    <3>2. i \in 0..PowLimit /\ n \in 0..PowLimit /\ i <= n
      BY <1>1
    <3>3. POWERS[i] <= POWERS[n] /\ POWERS[i] \in Nat /\ POWERS[n] \in Nat
      BY <3>2, PowersMono, PowersType
    <3>4. QED
      BY <1>3, <2>1, <3>3
  <2>3. \A i \in 0..n : i \in T
    BY <1>6, <2>2
  <2>4. \A i \in 1..n : ~(p[i - 1] * Ten >= Half128)
    <3>1. TAKE i \in 1..n
    <3>2. i - 1 \in T
      BY <1>1, <2>3
    <3>3. p[i - 1] * Ten = POWERS[i] /\ POWERS[i] \in Nat
      BY <1>5, <3>2
    <3>4. QED
      BY <1>3, <2>2, <3>3
  <2>5. QED
    BY <2>4 DEF PowOverflows, p
<1>9. Magnitude(p[n]) \in Nat
  <2>1. CASE n = 0
    BY <1>2, <1>3, <2>1 DEF Magnitude
  <2>2. CASE n # 0
    <3>1. n \in 1..n /\ n - 1 \in 0..n
      BY <1>1, <2>2
    <3>2. p[n - 1] * Ten \in Nat
      BY <1>1, <1>2, <3>1
    <3>3. p[n] = (p[n - 1] * Ten) % Values128
      BY <1>2, <3>1
    <3>4. p[n] \in Nat /\ p[n] < Values128
      BY <1>3, <3>2, <3>3, DivMod
    <3>5. QED
      BY <1>3, <3>4 DEF Magnitude
  <2>3. QED
    BY <2>1, <2>2
<1>10. QED
  BY <1>7, <1>8, <1>9 DEF p

\* The powers beyond the largest scale are all too large.
LEMMA TooLargeAbove ==
    ASSUME PowerSent \in 0..PowLimit, NEW w
    PROVE  TooLargeToRead(w) <=> w > Max96 \div POWERS[PowerSent]
<1> DEFINE p == PowerSent
           top == MAX_SCALE + 1
<1>1. p \in 0..PowLimit /\ PowLimit \in Nat /\ MAX_SCALE \in Nat /\ p >= 0
  BY GroupFacts
<1>2. TooLargeToRead(w) <=> w > Max96 \div POWERS[SmallerOf(p, top)]
  BY <1>1 DEF TooLargeToRead
<1> HIDE DEF p
<1>3. CASE p <= top
  <2>1. SmallerOf(p, top) = p
    BY <1>1, <1>3 DEF SmallerOf
  <2>2. QED
    BY <1>2, <2>1 DEF p
<1>4. CASE ~(p <= top)
  <2>1. SmallerOf(p, top) = top /\ top \in 0..PowLimit /\ top <= p
    BY <1>1, <1>4 DEF SmallerOf
  <2>2. POWERS[top] <= POWERS[p] /\ POWERS[top] \in Nat /\ POWERS[p] \in Nat
    BY <1>1, <2>1, PowersMono, PowersType
  <2>3. Max96 < POWERS[top] /\ Max96 < POWERS[p] /\ Max96 \in Nat
    BY <2>2, GroupFacts
  <2>4. Max96 \div POWERS[top] = 0 /\ Max96 \div POWERS[p] = 0
    BY <2>2, <2>3
  <2>5. QED
    BY <1>2, <2>1, <2>4 DEF p
<1>5. QED
  BY <1>3, <1>4

\* What is sent can be read.
LEMMA SentReadable ==
    ASSUME PostgresTypeOK, WirePart, qpc \notin {"idle", "to", "groups"}, TooLargeToRead(Whole(wire.digits))
    PROVE  sent = ZERO
<1>1. SUFFICES ASSUME sent # ZERO PROVE FALSE
  OBVIOUS
<1> DEFINE W == Whole(wire.digits)
           q == -PowerSent
           a == POWERS[Back.s]
           b == POWERS[q]
           m == Back.m
<1>2. /\ wire \in Numerics /\ PowerSent <= 0 /\ q <= MAX_SCALE
      /\ W * a = m * b
  BY <1>1 DEF WirePart
<1>3. PowerSent \in Int /\ W \in Nat
  BY <1>2, WireFacts
<1>4. Back \in Decimal
  BY ZeroType DEF Back, PostgresTypeOK
<1>5. m \in Nat /\ m <= Max96 /\ Back.s \in 0..MAX_SCALE /\ Max96 \in Nat /\ MAX_SCALE \in Nat /\ MAX_SCALE <= PowLimit /\ PowLimit \in Nat
  BY <1>4, GroupFacts, BaseType DEF Decimal, Mantissa
<1>6. Back.s \in 0..PowLimit
  BY <1>5
<1> HIDE DEF W, m
<1>7. q \in 0..PowLimit
  BY <1>2, <1>3, <1>5
<1>8. a \in Nat /\ a >= 1 /\ b \in Nat /\ b >= 1
  <2> HIDE DEF q
  <2>1. QED
    BY <1>6, <1>7, PowersType
<1> HIDE DEF a
<1>9. W <= Max96 * b
  <2>1. 1 * W <= a * W
    BY <1>3, <1>8, MulMono
  <2>2. a * W = W * a /\ 1 * W = W
    BY <1>3, <1>8
  <2>3. m * b <= Max96 * b
    BY <1>5, <1>8, MulMono
  <2>4. m * b \in Int /\ Max96 * b \in Int
    BY <1>5, <1>8
  <2> DEFINE x == m * b
             y == Max96 * b
  <2>5. x <= y /\ x \in Int /\ y \in Int /\ W <= x
    BY <1>2, <2>1, <2>2, <2>3, <2>4
  <2> HIDE DEF x, y
  <2>6. W <= y
    BY <1>3, <2>5
  <2>7. QED
    BY <2>6 DEF y
<1>10. CASE PowerSent >= 0
  <2>1. PowerSent = 0
    BY <1>2, <1>3, <1>10
  <2>2. q = 0 /\ POWERS[0] = 1
    <3>1. POWERS[0] = 1
      BY PowersAssumption
    <3> DEFINE s == PowerSent
    <3>2. s \in Int /\ s <= 0 /\ s >= 0
      BY <1>2, <1>3, <1>10
    <3> HIDE DEF s
    <3>3. -s = 0
      BY <3>2
    <3>4. QED
      BY <3>1, <3>3 DEF s
  <2>3. W > Max96 \div POWERS[PowerSent]
    <3>1. PowerSent \in 0..PowLimit
      BY <1>5, <2>1
    <3>2. QED
      BY <3>1, TooLargeAbove DEF W
  <2>4. W > Max96 \div 1
    BY <2>1, <2>2, <2>3
  <2>5. b = 1
    BY <2>2
  <2> HIDE DEF b
  <2>6. QED
    BY <1>3, <1>5, <1>9, <2>4, <2>5
<1>11. CASE ~(PowerSent >= 0)
  <2>1. 2 * W >= (2 * Max96 + 1) * b
    BY <1>11 DEF TooLargeToRead, W
  <2> HIDE DEF b
  <2>2. (2 * Max96 + 1) * b = 2 * (Max96 * b) + b /\ Max96 * b \in Nat
    BY <1>5, <1>8
  <2> DEFINE y == Max96 * b
  <2>3. 2 * W >= 2 * y + b /\ W <= y /\ y \in Nat
    BY <1>9, <2>1, <2>2
  <2> HIDE DEF y
  <2>4. QED
    BY <1>3, <1>8, <2>3
<1>12. QED
  BY <1>10, <1>11

\* A number whose whole part has outgrown the mantissas is too large.
LEMMA TooLargeAt ==
    ASSUME PostgresTypeOK, wire \in Numerics, NEW i \in 0..Len(wire.digits), i <= wire.weight + 1, Read(i) > Max96
    PROVE  TooLargeToRead(Whole(wire.digits))
<1> DEFINE ds == wire.digits
           L == Len(ds)
           W == Whole(ds)
           wp == wire.weight + 1
           g == GroupDigits
<1>1. /\ ds \in Seq(Group) /\ L \in Nat /\ wp \in Int /\ PowerSent \in -PowLimit..PowLimit /\ PowerSent = g * (wp - L)
      /\ W = Read(L) /\ \A j \in 0..L : Read(j) \in Nat
  BY WireFacts
<1>2. g \in Nat /\ g >= 1 /\ PowLimit \in Nat /\ Max96 \in Nat
  BY GroupFacts
<1>3. i \in 0..L /\ Read(i) \in Nat /\ W \in Nat
  <2>1. L \in 0..L
    BY <1>1
  <2>2. QED
    BY <1>1, <2>1
<1>4. \A j \in i..L : Max96 + 1 <= Read(j) /\ Read(j) \in Nat
  <2>1. TAKE j \in i..L
  <2>2. Read(i) <= Read(j)
    BY <1>1, WholeRises DEF Read
  <2>3. Read(j) \in Nat
    BY <1>1
  <2>4. QED
    BY <1>2, <1>3, <2>2, <2>3
<1>5. CASE PowerSent >= 0
  <2>1. PowerSent \in 0..PowLimit
    BY <1>1, <1>2, <1>5
  <2>2. POWERS[PowerSent] \in Nat /\ POWERS[PowerSent] >= 1
    BY <2>1, PowersType
  <2> DEFINE p == POWERS[PowerSent]
  <2>3. p \in Nat /\ p >= 1
    BY <2>2
  <2> HIDE DEF p
  <2>4. Max96 < W * p
    <3>1. L \in i..L
      BY <1>1
    <3>2. Max96 + 1 <= W
      BY <1>1, <1>4, <3>1
    <3>3. 1 * W <= p * W /\ p * W = W * p /\ 1 * W = W
      BY <1>3, <2>3, MulMono
    <3>4. W * p \in Int
      BY <1>3, <2>3
    <3> DEFINE x == W * p
    <3>5. W <= x /\ x \in Int
      BY <3>3, <3>4
    <3> HIDE DEF x, W
    <3>6. Max96 < x
      BY <1>2, <1>3, <3>2, <3>5
    <3>7. QED
      BY <3>6 DEF x
  <2>5. Max96 \div p < W
    BY <1>2, <1>3, <2>3, <2>4, AtMostQuotient
  <2>6. QED
    BY <2>1, <2>5, TooLargeAbove DEF p
<1>6. CASE ~(PowerSent >= 0)
  <2> DEFINE n == L - wp
             q == -PowerSent
  <2>1. wp < L
    <3>1. SUFFICES ASSUME wp >= L PROVE FALSE
      BY <1>1
    <3>2. wp - L \in Nat
      BY <1>1, <3>1
    <3>3. g * (wp - L) >= 0
      BY <1>2, <3>2
    <3>4. QED
      BY <1>1, <1>6, <3>3
  <2>2. n \in Nat /\ wp \in i..L /\ n = L - wp /\ wp + n = L /\ wp \in 0..L /\ n \in 0..(L - wp)
    BY <1>1, <2>1
  <2>3. g * n = q /\ q \in 0..PowLimit
    <3>1. wp - L = -n /\ g * (-n) = -(g * n)
      BY <1>1, <1>2, <2>2, SMTT(30)
    <3>2. g * n \in Int
      BY <1>2, <2>2
    <3> DEFINE x == g * n
    <3>3. PowerSent = -x /\ x \in Int
      BY <1>1, <3>1, <3>2
    <3> HIDE DEF x
    <3>4. x = q /\ q \in 0..PowLimit
      BY <1>1, <1>2, <1>6, <3>3, SMTT(30)
    <3>5. QED
      BY <3>4 DEF x
  <2> DEFINE p == POWERS[g * n]
  <2>4. Read(wp) * p <= Read(wp + n) /\ Read(wp) \in Nat /\ Read(wp + n) \in Nat
    <3>1. GroupDigits * n <= PowLimit
      BY <1>2, <2>3
    <3> HIDE DEF wp, n
    <3>2. QED
      BY <1>1, <2>2, <3>1, WholeGrows DEF Read
  <2>5. p \in Nat /\ p >= 1 /\ p = POWERS[q]
    BY <2>3, PowersType
  <2> HIDE DEF p, q, n, wp
  <2>6. Max96 + 1 <= Read(wp) /\ Read(wp + n) = W
    BY <1>1, <1>4, <2>2
  <2>7. (Max96 + 1) * p <= Read(wp) * p
    <3>1. Max96 + 1 \in Int /\ Read(wp) \in Int
      BY <1>2, <2>4
    <3>2. QED
      BY <2>5, <2>6, <3>1, MulMono
  <2>8. 2 * ((Max96 + 1) * p) = (2 * Max96 + 1) * p + p
    <3>1. (Max96 + 1) * p = Max96 * p + p
      BY <1>2, <2>5
    <3>2. (2 * Max96 + 1) * p = 2 * (Max96 * p) + p
      BY <1>2, <2>5
    <3>3. Max96 * p \in Int
      BY <1>2, <2>5
    <3> DEFINE x == Max96 * p
    <3>4. (Max96 + 1) * p = x + p /\ (2 * Max96 + 1) * p = 2 * x + p /\ x \in Int
      BY <3>1, <3>2, <3>3
    <3> HIDE DEF x
    <3>5. QED
      BY <2>5, <3>4
  <2>9. (Max96 + 1) * p \in Int /\ Read(wp) * p \in Int /\ (2 * Max96 + 1) * p \in Int
    BY <1>2, <2>4, <2>5
  <2> DEFINE x == (Max96 + 1) * p
             y == Read(wp) * p
             z == (2 * Max96 + 1) * p
  <2>10. x <= y /\ y <= W /\ 2 * x = z + p /\ x \in Int /\ y \in Int /\ z \in Int
    BY <2>4, <2>6, <2>7, <2>8, <2>9
  <2> HIDE DEF x, y, z, W
  <2>11. 2 * W >= z
    BY <1>3, <2>5, <2>10
  <2>12. QED
    BY <1>6, <2>5, <2>11 DEF TooLargeToRead, W, q, z
<1>7. QED
  BY <1>5, <1>6

\* How many groups before the point are sent, and how many are not.
LEMMA MissingFacts ==
    ASSUME PostgresTypeOK, wire \in Numerics
    PROVE  LET L  == Len(wire.digits)
               wp == wire.weight + 1
           IN  \/ ~(wp > L) /\ GroupDigits * MissingGroups = 0 /\ IntegerGroups = wp /\ PowerSent <= 0
                  /\ (PowerSent >= 0 => wp = L)
               \/ wp > L /\ GroupDigits * MissingGroups = PowerSent /\ IntegerGroups = L /\ PowerSent \in 1..PowLimit
<1> DEFINE L == Len(wire.digits)
           wp == wire.weight + 1
           g == GroupDigits
           e == g * MissingGroups
<1>1. /\ L \in Nat /\ wp \in Int /\ PowerSent \in -PowLimit..PowLimit /\ PowerSent = g * (wp - L)
  BY WireFacts
<1>2. g \in Nat /\ g >= 1 /\ PowLimit \in Nat
  BY GroupFacts
<1>3. CASE wp > L
  <2>1. IntegerGroups = L /\ MissingGroups = wp - L
    <3>1. wire.weight \in Int
      BY WireFacts
    <3>2. wire.weight + 1 - L = wp - L
      BY <1>1, <3>1
    <3>3. QED
      BY <1>3, <3>2 DEF IntegerGroups, MissingGroups
  <2>2. wp - L \in Nat /\ wp - L >= 1
    BY <1>1, <1>3
  <2>3. g * (wp - L) >= 1
    BY <1>2, <2>2
  <2>4. e = PowerSent
    BY <1>1, <2>1
  <2>5. PowerSent >= 1
    BY <1>1, <2>3
  <2> HIDE DEF e
  <2>6. QED
    BY <1>1, <1>2, <1>3, <2>1, <2>4, <2>5 DEF e
<1>4. CASE ~(wp > L)
  <2>1. IntegerGroups = wp /\ MissingGroups = 0
    BY <1>4 DEF IntegerGroups, MissingGroups
  <2>2. e = 0
    BY <1>2, <2>1
  <2> DEFINE n == L - wp
  <2>3. n \in Nat /\ wp - L = -n
    BY <1>1, <1>4
  <2>4. g * (-n) = -(g * n) /\ g * n \in Nat
    BY <1>2, <2>3
  <2>5. n >= 1 => g * n >= 1
    BY <1>2, <2>3
  <2> DEFINE x == g * n
  <2>6. PowerSent = -x /\ x \in Nat /\ (n >= 1 => x >= 1)
    BY <1>1, <2>3, <2>4, <2>5
  <2> HIDE DEF x, n
  <2>7. PowerSent <= 0 /\ (PowerSent >= 0 => n = 0)
    BY <2>3, <2>6
  <2>8. n = 0 => wp = L
    BY <1>1 DEF n
  <2>9. QED
    BY <1>4, <2>1, <2>2, <2>7, <2>8
<1>5. QED
  BY <1>3, <1>4

\* Where the power that is missing is no mantissa, the number is not one that was sent,
\* and it is too large, or a zero.
LEMMA MissingLarge ==
    ASSUME PostgresTypeOK, WirePart, wire \in Numerics, qpc \notin {"idle", "to", "groups"},
           POWERS[GroupDigits * MissingGroups] > Max96
    PROVE  /\ wire.weight + 1 > Len(wire.digits) /\ GroupDigits * MissingGroups = PowerSent
           /\ IntegerGroups = Len(wire.digits) /\ PowerSent \in 1..PowLimit
           /\ sent = ZERO
           /\ TooLargeToRead(Whole(wire.digits)) \/ Whole(wire.digits) = 0
<1> DEFINE e == GroupDigits * MissingGroups
           W == Whole(wire.digits)
<1>1. POWERS[0] = 1 /\ Max96 >= 1 /\ Max96 \in Nat /\ PowLimit \in Nat
  BY PowersAssumption, BaseType, GroupFacts
<1>2. e # 0
  BY <1>1
<1>3. /\ wire.weight + 1 > Len(wire.digits) /\ e = PowerSent
      /\ IntegerGroups = Len(wire.digits) /\ PowerSent \in 1..PowLimit
  BY <1>2, MissingFacts
<1>4. POWERS[PowerSent] > Max96 /\ PowerSent \in 0..PowLimit
  BY <1>1, <1>3
<1> HIDE DEF e
<1>5. sent = ZERO
  <2>1. sent # ZERO => PowerSent <= 0
    BY DEF WirePart
  <2>2. QED
    BY <1>1, <1>3, <2>1
<1>6. TooLargeToRead(W) \/ W = 0
  <2>1. W \in Nat
    <3>1. Len(wire.digits) \in 0..Len(wire.digits)
      BY WireFacts
    <3>2. QED
      BY <3>1, WireFacts
  <2>2. POWERS[PowerSent] \in Nat
    BY <1>4, PowersType
  <2>3. Max96 \div POWERS[PowerSent] = 0
    BY <1>1, <1>4, <2>2
  <2>4. TooLargeToRead(W) <=> W > Max96 \div POWERS[PowerSent]
    BY <1>4, TooLargeAbove
  <2> HIDE DEF W
  <2>5. QED
    BY <2>1, <2>3, <2>4
<1>7. QED
  BY <1>3, <1>5, <1>6 DEF e

\* No power is missing behind a number that was sent.
LEMMA SentUnwrapped ==
    ASSUME PostgresTypeOK, WirePart, wire \in Numerics, qpc \notin {"idle", "to", "groups"}, sent # ZERO
    PROVE  ~PowerWraps
<1>1. PowerSent <= 0 /\ PowerSent \in -PowLimit..PowLimit /\ PowLimit \in Nat
  BY WireFacts, GroupFacts DEF WirePart
<1>2. GroupDigits * MissingGroups = 0
  BY <1>1, MissingFacts
<1>3. 1..0 = {}
  OBVIOUS
<1>4. QED
  BY <1>2, <1>3 DEF PowerWraps, PowOverflows

\* While the wire is read it stays what it is.
LEMMA WireKept ==
    ASSUME PostgresInv, qpc \notin {"idle", "to", "groups"}, qpc' \notin {"idle", "to", "groups"},
           UNCHANGED <<sent, wire, mantissa4>>
    PROVE  SendPart' /\ WirePart'
<1>1. WirePart
  BY DEF PostgresInv
<1>2. Back' = Back /\ PowerSent' = PowerSent
  BY DEF Back, PowerSent
<1>3. sent' = sent /\ wire' = wire
  OBVIOUS
<1>4. WirePart'
  BY <1>1, <1>2, <1>3 DEF WirePart
<1>5. SendPart'
  BY DEF SendPart
<1>6. QED
  BY <1>4, <1>5

\* A refusal leaves all as it was, and is due to a number that is too large.
LEMMA RefusedStep ==
    ASSUME PostgresInv, qpc \notin {"idle", "to", "groups"}, NEW pc \in {"refused", "panicked"}, Answer(pc),
           sent = ZERO, TooLargeToRead(Whole(wire.digits)) \/ (pc = "panicked" /\ Whole(wire.digits) = 0)
    PROVE  PostgresInv'
<1>1. UNCHANGED <<sent, wire, mantissa4>> /\ got' = got /\ group' = group /\ qpc' = pc
  BY DEF Answer
<1>2. PostgresTypeOK
  BY DEF PostgresInv
<1>3. SendPart' /\ WirePart'
  BY <1>1, WireKept
<1>4. PostgresTypeOK'
  BY <1>1, <1>2 DEF PostgresTypeOK
<1>5. ReadPart'
  BY <1>1 DEF ReadPart, Receiving
<1>6. PowerSent' = PowerSent /\ wire' = wire /\ sent' = sent
  BY <1>1 DEF PowerSent
<1>7. TooLargeToRead(Whole(wire.digits))' <=> TooLargeToRead(Whole(wire.digits))
  BY <1>6 DEF TooLargeToRead
<1>8. PostgresKeeps'
  BY <1>1, <1>6, <1>7 DEF PostgresKeeps
<1>9. QED
  BY <1>3, <1>4, <1>5, <1>8 DEF PostgresInv

\* A group before the point is read.
LEMMA IntegerStep == ASSUME PostgresInv, IntegerGroup PROVE PostgresInv'
<1> DEFINE next == got.m * GroupBase + wire.digits[group + 1]
           L == Len(wire.digits)
           wp == wire.weight + 1
<1>1. PostgresTypeOK /\ WirePart /\ ReadPart /\ Receiving /\ group < IntegerGroups
  BY DEF PostgresInv, IntegerGroup
<1>2. wire \in Numerics /\ qpc \in {"from", "received"}
  BY <1>1 DEF WirePart, Receiving
<1>3. got = [ZERO EXCEPT !.m = Read(group)] /\ group <= L
  BY <1>1 DEF ReadPart
<1>4. got.m = Read(group) /\ got.neg = FALSE /\ got.s = 0
  BY <1>3 DEF ZERO
<1>5. /\ L \in Nat /\ wp \in Int /\ group \in Nat
      /\ \A i \in 0..L : Read(i) \in Nat
      /\ \A i \in 1..L : Read(i) = Read(i - 1) * GroupBase + wire.digits[i]
  BY <1>1, <1>2, WireFacts
<1>6. group < L /\ group < wp
  BY <1>1, <1>5 DEF IntegerGroups
<1> DEFINE k == group + 1
<1>7. k \in 0..L /\ k \in 1..L /\ k - 1 = group /\ k <= wp /\ k \in Nat /\ k > 0
  BY <1>5, <1>6, SMTT(30)
<1> HIDE DEF k
<1>8. next = Read(k) /\ Read(k) \in Nat
  <2>1. Read(k) = Read(k - 1) * GroupBase + wire.digits[k]
    BY <1>5, <1>7
  <2>2. QED
    BY <1>4, <1>5, <1>7, <2>1 DEF k
<1> HIDE DEF next
<1>9. CASE Fits(next, 0)
  <2>1. /\ got' = [got EXCEPT !.m = next] /\ group' = k
        /\ UNCHANGED <<sent, wire, mantissa4, qpc>>
    BY <1>9 DEF IntegerGroup, next, k
  <2>2. next <= Max96
    BY <1>8, <1>9, FitsInteger
  <2>3. got' = [ZERO EXCEPT !.m = Read(k)]
    BY <1>3, <1>8, <2>1 DEF ZERO
  <2>4. got' \in Decimal
    <3>1. next \in Mantissa
      BY <1>8, <2>2, BaseType DEF Mantissa
    <3>2. got' = [neg |-> FALSE, m |-> Read(k), s |-> 0]
      BY <2>3 DEF ZERO
    <3>3. 0 \in 0..MAX_SCALE
      BY GroupFacts
    <3>4. QED
      BY <1>8, <3>1, <3>2, <3>3 DEF Decimal
  <2>5. PostgresTypeOK'
    BY <1>1, <1>7, <2>1, <2>4 DEF PostgresTypeOK
  <2>6. SendPart' /\ WirePart'
    BY <1>2, <2>1, WireKept
  <2>7. ReadPart'
    <3>1. wire' = wire /\ qpc' = qpc
      BY <2>1
    <3>2. Read(group)' = Read(k)
      BY <2>1, <3>1 DEF Read
    <3>3. qpc' # "fraction"
      BY <1>2, <3>1
    <3>4. k <= L /\ k <= wp
      BY <1>5, <1>7
    <3>5. QED
      BY <2>1, <2>3, <3>1, <3>2, <3>3, <3>4 DEF ReadPart
  <2>8. PostgresKeeps'
    BY <1>2, <2>1 DEF PostgresKeeps
  <2>9. QED
    BY <2>5, <2>6, <2>7, <2>8 DEF PostgresInv
<1>10. CASE ~Fits(next, 0)
  <2>1. Answer("refused")
    BY <1>10 DEF IntegerGroup, next
  <2>2. Read(k) > Max96
    BY <1>8, <1>10, FitsInteger, BaseType
  <2>3. TooLargeToRead(Whole(wire.digits))
    BY <1>1, <1>2, <1>7, <2>2, TooLargeAt
  <2>4. sent = ZERO
    BY <1>1, <1>2, <2>3, SentReadable
  <2>5. QED
    BY <1>2, <2>1, <2>3, <2>4, RefusedStep
<1>11. QED
  BY <1>9, <1>10

\* The groups before the point that are not sent.
LEMMA ZeroGroupsStep == ASSUME PostgresInv, ZeroGroups PROVE PostgresInv'
<1> DEFINE L == Len(wire.digits)
           wp == wire.weight + 1
           g == GroupDigits
           e == g * MissingGroups
           shift == Magnitude(Pow128(e)[e])
<1>1. PostgresTypeOK /\ WirePart /\ ReadPart /\ Receiving /\ group = IntegerGroups /\ wp > 0
  BY DEF PostgresInv, ZeroGroups
<1>2. wire \in Numerics /\ qpc \in {"from", "received"}
  BY <1>1 DEF WirePart, Receiving
<1>3. got = [ZERO EXCEPT !.m = Read(group)] /\ group <= L
  BY <1>1 DEF ReadPart
<1>4. got.m = Read(group) /\ got.neg = FALSE /\ got.s = 0
  BY <1>3 DEF ZERO
<1>5. /\ L \in Nat /\ wp \in Int /\ group \in Nat
      /\ PowerSent \in -PowLimit..PowLimit /\ PowerSent = g * (wp - L)
      /\ got.m \in Nat /\ got.m <= Max96
      /\ Whole(wire.digits) = Read(L)
  BY <1>1, <1>2, WireFacts
<1>6. g \in Nat /\ g >= 1 /\ PowLimit \in Nat /\ Max96 \in Nat
  BY GroupFacts
<1>7. \/ ~(wp > L) /\ e = 0 /\ group = wp /\ PowerSent <= 0 /\ (PowerSent >= 0 => wp = L)
      \/ wp > L /\ e = PowerSent /\ group = L /\ PowerSent \in 1..PowLimit
  BY <1>1, <1>2, MissingFacts
<1> HIDE DEF e
<1>8. e \in 0..PowLimit
  BY <1>6, <1>7
<1>9. /\ shift \in Nat
      /\ ~PowerWraps => shift = POWERS[e] /\ shift >= 1
      /\ PowerWraps => POWERS[e] > Max96
  BY <1>8, Pow128Facts, PowersType DEF PowerWraps, e
<1>14. ASSUME POWERS[e] > Max96
       PROVE  /\ wp > L /\ e = PowerSent /\ PowerSent \in 1..PowLimit /\ group = L /\ sent = ZERO
              /\ TooLargeToRead(Whole(wire.digits)) \/ Whole(wire.digits) = 0
  BY <1>1, <1>2, <1>14, MissingLarge DEF e
<1>10. CASE shift > Max96
  <2>1. Answer("panicked")
    BY <1>10 DEF ZeroGroups, shift, e
  <2>2. POWERS[e] > Max96
    BY <1>9, <1>10
  <2>3. QED
    BY <1>2, <1>14, <2>1, <2>2, RefusedStep
<1>11. CASE ~(shift > Max96) /\ ~Fits(got.m * shift, 0)
  <2>1. Answer("refused")
    BY <1>11 DEF ZeroGroups, shift, e
  <2>2. got.m * shift \in Nat
    BY <1>5, <1>9
  <2>3. got.m * shift > Max96
    BY <1>6, <1>11, <2>2, FitsInteger
  <2>4. sent = ZERO /\ TooLargeToRead(Whole(wire.digits))
    <3>1. CASE PowerWraps
      <4>1. group = L /\ sent = ZERO /\ (TooLargeToRead(Whole(wire.digits)) \/ Whole(wire.digits) = 0)
        BY <1>9, <1>14, <3>1
      <4>2. got.m # 0
        <5>1. SUFFICES ASSUME got.m = 0 PROVE FALSE
          OBVIOUS
        <5>2. got.m * shift = 0
          BY <1>9, <5>1
        <5>3. QED
          BY <1>6, <2>3, <5>2
      <4>3. QED
        BY <1>4, <1>5, <4>1, <4>2
    <3>2. CASE ~PowerWraps
      <4>1. shift = POWERS[e] /\ shift >= 1
        BY <1>9, <3>2
      <4>2. wp > L /\ e = PowerSent /\ PowerSent \in 1..PowLimit /\ group = L
        <5>1. POWERS[0] = 1
          BY PowersAssumption
        <5>2. e # 0
          <6>1. SUFFICES ASSUME e = 0 PROVE FALSE
            OBVIOUS
          <6>2. shift = 1
            BY <4>1, <5>1, <6>1
          <6> HIDE DEF shift
          <6>3. QED
            BY <1>5, <1>6, <2>3, <6>2
        <5>3. QED
          BY <1>7, <5>2
      <4> HIDE DEF shift
      <4>3. Max96 \div shift < got.m
        <5> DEFINE r == got.m
        <5>1. r \in Int /\ Max96 \in Int /\ shift \in Nat \ {0} /\ Max96 < r * shift
          BY <1>5, <1>6, <1>9, <2>2, <2>3, <4>1
        <5> HIDE DEF r
        <5>2. Max96 \div shift < r
          BY <5>1, AtMostQuotient
        <5>3. QED
          BY <5>2 DEF r
      <4>4. got.m = Whole(wire.digits)
        BY <1>4, <1>5, <4>2
      <4>5. PowerSent \in 0..PowLimit
        BY <4>2
      <4>6. TooLargeToRead(Whole(wire.digits))
        BY <4>1, <4>2, <4>3, <4>4, <4>5, TooLargeAbove
      <4>7. sent = ZERO
        BY <1>1, <1>2, <4>6, SentReadable
      <4>8. QED
        BY <4>6, <4>7
    <3>3. QED
      BY <3>1, <3>2
  <2>5. QED
    BY <1>2, <2>1, <2>4, RefusedStep
<1>12. CASE ~(shift > Max96) /\ Fits(got.m * shift, 0)
  <2>1. /\ got' = [got EXCEPT !.m = got.m * shift] /\ qpc' = "fraction"
        /\ UNCHANGED <<sent, wire, mantissa4, group>>
    BY <1>12 DEF ZeroGroups, shift, e
  <2>2. got.m * shift \in Nat
    BY <1>5, <1>9
  <2>3. got.m * shift <= Max96
    BY <1>12, <2>2, FitsInteger
  <2> DEFINE x == got.m * shift
  <2>4. got' = [neg |-> FALSE, m |-> x, s |-> 0]
    BY <1>3, <2>1 DEF ZERO
  <2>5. x \in Nat /\ x <= Max96
    BY <2>2, <2>3
  <2> HIDE DEF x
  <2>6. got' \in Decimal
    <3>1. x \in Mantissa
      BY <2>5, BaseType DEF Mantissa
    <3>2. QED
      BY <2>4, <3>1, GroupFacts DEF Decimal
  <2>7. PostgresTypeOK'
    BY <1>1, <2>1, <2>6 DEF PostgresTypeOK
  <2>8. SendPart' /\ WirePart'
    BY <1>2, <2>1, WireKept
  <2>9. PostgresKeeps'
    BY <2>1 DEF PostgresKeeps
  <2>10. /\ PowerSent' = PowerSent /\ Read(group)' = Read(group) /\ wire' = wire /\ sent' = sent /\ group' = group
         /\ PowerWraps' = PowerWraps
    BY <2>1 DEF PowerSent, Read, PowerWraps, MissingGroups
  <2>11. x = Read(group) * shift
    BY <1>4 DEF x
  <2>12. PowerSent >= 0 => group = L /\ (PowerWraps \/ x = Read(group) * POWERS[PowerSent])
    <3>1. CASE wp > L
      BY <1>7, <1>9, <2>11, <3>1
    <3>2. CASE ~(wp > L)
      <4>1. PowerSent >= 0 => PowerSent = 0 /\ e = 0 /\ group = L
        BY <1>5, <1>7, <3>2
      <4>2. QED
        BY <1>9, <2>11, <4>1
    <3>3. QED
      BY <3>1, <3>2
  <2>13. PowerSent < 0 => group = wp /\ x = Read(group)
    <3>1. ASSUME PowerSent < 0 PROVE group = wp /\ e = 0
      BY <1>6, <1>7, <3>1
    <3>2. POWERS[0] = 1 /\ Read(group) \in Nat /\ ~(1 > Max96)
      BY <1>4, <1>5, PowersAssumption, BaseType
    <3>3. PowerSent < 0 => shift = 1
      BY <1>9, <3>1, <3>2
    <3>4. QED
      BY <2>11, <3>1, <3>2, <3>3
  <2>17. PowerSent >= 0 /\ ~PowerWraps => PowerSent <= MAX_SCALE
    <3>1. MAX_SCALE \in Nat
      BY GroupFacts
    <3>2. CASE wp > L /\ ~PowerWraps
      <4>1. POWERS[e] <= Max96
        BY <1>6, <1>9, <1>12, <3>2
      <4>2. e <= MAX_SCALE
        BY <1>8, <4>1, PowerFits
      <4>3. QED
        BY <1>7, <3>2, <4>2
    <3>3. CASE ~(wp > L)
      BY <1>5, <1>6, <1>7, <3>1, <3>3
    <3>4. QED
      BY <3>2, <3>3
  <2>14. PowerSent < 0 => group >= wp /\ Exact(got, group)'
    <3>1. SUFFICES ASSUME PowerSent < 0 PROVE group >= wp /\ Exact(got, group)'
      OBVIOUS
    <3>2. group = wp /\ x = Read(group) /\ group >= wp
      BY <1>5, <2>13, <3>1
    <3> DEFINE pl == PlacesRead(group)'
    <3>3. pl = 0
      <4>1. pl = g * (group - wp)
        BY <2>10 DEF PlacesRead
      <4>2. group - wp = 0
        BY <1>5, <3>2
      <4>3. QED
        BY <1>6, <4>1, <4>2
    <3>4. POWERS[0] = 1 /\ x * 1 = x /\ MAX_SCALE >= 0
      BY <2>5, PowersAssumption, GroupFacts
    <3> DEFINE d == pl - got'.s
    <3> HIDE DEF pl
    <3>5. got'.s = 0 /\ got'.m = x
      BY <2>4
    <3>6. d \in Int /\ d <= 0 /\ d >= 0
      BY <3>3, <3>5
    <3> HIDE DEF d
    <3>7. d = 0
      BY <3>6
    <3>8. got'.m * POWERS[d] = Read(group)'
      BY <2>10, <3>2, <3>4, <3>5, <3>7
    <3>9. pl <= MAX_SCALE /\ got'.s <= pl
      BY <3>3, <3>4, <3>5
    <3>10. QED
      BY <3>2, <3>8, <3>9 DEF Exact, d, pl
  <2>15. ReadPart'
    <3>1. ~Receiving'
      BY <2>1 DEF Receiving
    <3>2. ~got'.neg /\ got'.s = 0 /\ got'.m = x
      BY <2>4
    <3>3. (PowerSent >= 0 => /\ group = Len(wire.digits)
                             /\ PowerWraps \/ (PowerSent <= MAX_SCALE /\ got.s = 0 /\ got.m = Read(group) * POWERS[PowerSent]))'
      BY <2>10, <2>12, <2>17, <3>2
    <3>4. (PowerSent < 0 => group >= wire.weight + 1 /\ Exact(got, group))'
      BY <2>10, <2>14
    <3>5. (group <= Len(wire.digits))'
      BY <1>3, <2>10
    <3>6. QED
      BY <3>1, <3>2, <3>3, <3>4, <3>5 DEF ReadPart
  <2>16. QED
    BY <2>7, <2>8, <2>9, <2>15 DEF PostgresInv
<1>13. QED
  BY <1>10, <1>11, <1>12

\* A build with overflow checks panics there.
LEMMA PowerOverflowsStep == ASSUME PostgresInv, PowerOverflows PROVE PostgresInv'
<1> DEFINE e == GroupDigits * MissingGroups
<1>1. PostgresTypeOK /\ WirePart /\ Receiving /\ PowerWraps /\ Answer("panicked")
  BY DEF PostgresInv, PowerOverflows
<1>2. wire \in Numerics /\ qpc \in {"from", "received"}
  BY <1>1 DEF WirePart, Receiving
<1>3. e \in 0..PowLimit
  BY <1>1, <1>2, MissingFacts, GroupFacts
<1>4. POWERS[e] > Max96
  BY <1>1, <1>3, Pow128Facts DEF PowerWraps
<1>5. sent = ZERO /\ (TooLargeToRead(Whole(wire.digits)) \/ Whole(wire.digits) = 0)
  BY <1>1, <1>2, <1>4, MissingLarge
<1>6. QED
  BY <1>1, <1>2, <1>5, RefusedStep

\* The places behind the groups after the point.
LEMMA PlacesFacts ==
    ASSUME PostgresTypeOK, wire \in Numerics, NEW i \in 0..Len(wire.digits), wire.weight + 1 <= i
    PROVE  /\ PlacesRead(i) \in Nat /\ PlacesRead(i) \in 0..PowLimit
           /\ -PowerSent = PlacesRead(i) + GroupDigits * (Len(wire.digits) - i)
           /\ Len(wire.digits) - i \in Nat /\ GroupDigits * (Len(wire.digits) - i) \in 0..PowLimit
           /\ PlacesRead(i) <= -PowerSent /\ -PowerSent \in 0..PowLimit
           /\ PlacesRead(i) > MAX_SCALE => PlacesRead(i) >= MAX_SCALE + GroupDigits
           /\ \A k : k = i + 1 => PlacesRead(k) = PlacesRead(i) + GroupDigits
<1> DEFINE L == Len(wire.digits)
           wp == wire.weight + 1
           g == GroupDigits
           n == i - wp
           r == L - i
           x == g * n
           y == g * r
<1>1. L \in Nat /\ wp \in Int /\ PowerSent \in -PowLimit..PowLimit /\ PowerSent = g * (wp - L)
  BY WireFacts
<1>2. g \in Nat /\ g >= 1 /\ PowLimit \in Nat /\ MAX_SCALE \in Nat
  BY GroupFacts
<1>3. i \in Nat /\ i <= L
  BY <1>1
<1>4. n \in Nat /\ r \in Nat /\ wp - L = -(n + r)
  BY <1>1, <1>3
<1>5. x \in Nat /\ y \in Nat /\ g * (n + r) = x + y /\ g * (-(n + r)) = -(g * (n + r))
  BY <1>2, <1>4, SMTT(30)
<1>6. PowerSent = -(x + y)
  BY <1>1, <1>4, <1>5
<1>7. PlacesRead(i) = x
  BY DEF PlacesRead
<1>8. -PowerSent = x + y /\ x + y <= PowLimit
  <2> HIDE DEF x, y
  <2>1. QED
    BY <1>1, <1>2, <1>5, <1>6
<1>9. x > MAX_SCALE => x >= MAX_SCALE + g
  <2>1. SUFFICES ASSUME x > MAX_SCALE PROVE x >= MAX_SCALE + g
    OBVIOUS
  <2>2. PICK k \in Nat : MAX_SCALE = g * k
    BY GroupFacts
  <2>3. n > k
    <3>1. SUFFICES ASSUME n <= k PROVE FALSE
      BY <1>4, <2>2
    <3>2. n * g <= k * g /\ n * g = g * n /\ k * g = g * k
      BY <1>2, <1>4, <2>2, <3>1, MulMono, MulAssoc
    <3>3. x <= MAX_SCALE
      BY <2>2, <3>2
    <3> HIDE DEF x
    <3>4. QED
      BY <1>2, <1>5, <2>1, <3>3
  <2>4. k + 1 <= n /\ k + 1 \in Int /\ n \in Int
    BY <1>4, <2>2, <2>3
  <2>5. (k + 1) * g <= n * g
    BY <1>2, <2>4, MulMono
  <2>6. (k + 1) * g = g * k + g
    BY <1>2, <2>2
  <2>7. n * g = g * n
    BY <1>2, <1>4
  <2> DEFINE gk == g * k
  <2>8. gk = MAX_SCALE /\ gk + g <= x
    BY <2>2, <2>5, <2>6, <2>7
  <2> HIDE DEF gk, x
  <2>9. QED
    BY <2>8
<1>10. \A k : k = i + 1 => PlacesRead(k) = x + g
  <2>1. (i + 1) - wp = n + 1
    BY <1>1, <1>3
  <2>2. g * (n + 1) = g * n + g
    BY <1>2, <1>4
  <2>3. PlacesRead(i + 1) = x + g
    BY <2>1, <2>2 DEF PlacesRead
  <2>4. QED
    BY <2>3
<1>11. /\ x \in 0..PowLimit /\ y \in 0..PowLimit /\ x <= -PowerSent /\ -PowerSent \in 0..PowLimit
  <2> DEFINE q == -PowerSent
  <2>1. q = x + y /\ x + y <= PowLimit
    BY <1>8
  <2> HIDE DEF x, y, q
  <2>2. x \in 0..PowLimit /\ y \in 0..PowLimit /\ x <= q /\ q \in 0..PowLimit
    BY <1>2, <1>5, <2>1
  <2>3. QED
    BY <2>2 DEF q
<1>12. QED
  BY <1>4, <1>5, <1>7, <1>8, <1>9, <1>10, <1>11

\* A number with no groups before the point.
LEMMA NoIntegerStep == ASSUME PostgresInv, NoInteger PROVE PostgresInv'
<1> DEFINE L == Len(wire.digits)
           wp == wire.weight + 1
<1>1. PostgresTypeOK /\ WirePart /\ ReadPart /\ Receiving /\ wp <= 0 /\ Answer("fraction")
  BY DEF PostgresInv, NoInteger
<1>2. wire \in Numerics /\ qpc \in {"from", "received"}
  BY <1>1 DEF WirePart, Receiving
<1>3. UNCHANGED <<sent, wire, mantissa4>> /\ got' = got /\ group' = group /\ qpc' = "fraction"
  BY <1>1 DEF Answer
<1>4. got = [ZERO EXCEPT !.m = Read(group)] /\ group <= L /\ (group > 0 => group <= wp)
  BY <1>1 DEF ReadPart
<1>5. /\ L \in Nat /\ wp \in Int /\ group \in Nat /\ PowerSent \in -PowLimit..PowLimit
      /\ Read(0) = 0
  BY <1>1, <1>2, WireFacts
<1>6. group = 0
  BY <1>1, <1>4, <1>5
<1>7. got.m = 0 /\ got.s = 0 /\ got.neg = FALSE
  BY <1>4, <1>5, <1>6 DEF ZERO
<1>8. 0 \in 0..L /\ PowLimit \in Nat /\ MAX_SCALE \in Nat /\ MAX_SCALE <= PowLimit
  BY <1>5, GroupFacts
<1> DEFINE pl == PlacesRead(0)
           g == GroupDigits
           q == -PowerSent
<1>9. /\ pl \in Nat /\ pl \in 0..PowLimit /\ q = pl + g * (L - 0) /\ L - 0 \in Nat /\ pl <= q /\ g \in Nat /\ g >= 1
  BY <1>1, <1>2, <1>8, PlacesFacts, GroupFacts
<1> HIDE DEF pl
<1>10. PowerSent >= 0 => group = L /\ got.m = Read(group) * POWERS[PowerSent]
  <2>1. SUFFICES ASSUME PowerSent >= 0 PROVE group = L /\ got.m = Read(group) * POWERS[PowerSent]
    OBVIOUS
  <2>2. PowerSent \in 0..PowLimit
    BY <1>5, <1>8, <2>1
  <2>3. POWERS[PowerSent] \in Nat
    BY <2>2, PowersType
  <2>4. L = 0
    <3>1. SUFFICES ASSUME L >= 1 PROVE FALSE
      BY <1>5
    <3>2. g * (L - 0) >= 1
      BY <1>5, <1>9, <3>1
    <3> DEFINE x == g * (L - 0)
    <3>3. q = pl + x /\ x >= 1 /\ x \in Int
      BY <1>5, <1>9, <3>2
    <3> HIDE DEF x
    <3>4. QED
      BY <1>5, <1>9, <2>1, <3>3
  <2>5. QED
    BY <1>5, <1>6, <1>7, <2>3, <2>4
<1>11. PowerSent < 0 => group >= wp /\ (Exact(got, group) \/ (sent = ZERO /\ Halved(got, group)))
  <2>1. group >= wp
    BY <1>1, <1>5, <1>6
  <2>2. CASE pl <= MAX_SCALE
    <3>1. POWERS[pl - got.s] \in Nat
      <4>1. pl - got.s \in 0..PowLimit
        BY <1>7, <1>9
      <4> DEFINE j == pl - got.s
      <4> HIDE DEF j
      <4>2. j \in 0..PowLimit
        BY <4>1 DEF j
      <4>3. POWERS[j] \in Nat
        BY <4>2, PowersType
      <4>4. QED
        BY <4>3 DEF j
    <3>2. got.m * POWERS[pl - got.s] = 0
      BY <1>7, <3>1
    <3>3. Exact(got, group)
      BY <1>5, <1>6, <1>7, <1>9, <2>2, <3>2 DEF Exact, pl
    <3>4. QED
      BY <2>1, <3>3
  <2>3. CASE ~(pl <= MAX_SCALE)
    <3> DEFINE place == POWERS[pl - MAX_SCALE]
               unit == POWERS[pl - got.s]
    <3>1. place \in Nat /\ 2 <= place
      <4> DEFINE j == pl - MAX_SCALE
      <4>1. j \in 1..PowLimit /\ 1 \in 0..PowLimit /\ j \in 0..PowLimit
        BY <1>8, <1>9, <2>3
      <4> HIDE DEF j
      <4>2. POWERS[j] \in Nat /\ POWERS[1] <= POWERS[j]
        BY <4>1, PowersType, PowersMono
      <4>3. POWERS[1] = Ten
        <5>1. Ten \in Nat
          BY GroupFacts
        <5>2. QED
          BY PowersAssumption
      <4>4. Ten \in Nat /\ Ten > 2
        BY GroupFacts
      <4>5. QED
        BY <4>2, <4>3, <4>4 DEF j
    <3>2. unit \in Nat
      <4>1. pl - got.s \in 0..PowLimit
        BY <1>7, <1>9
      <4> DEFINE j == pl - got.s
      <4> HIDE DEF j
      <4>2. j \in 0..PowLimit
        BY <4>1 DEF j
      <4>3. POWERS[j] \in Nat
        BY <4>2, PowersType
      <4>4. QED
        BY <4>3 DEF j
    <3> HIDE DEF place, unit
    <3>3. got.m * unit = 0
      BY <1>7, <3>2
    <3>4. 2 * (got.m * unit - Read(0)) <= place /\ 2 * ((Read(0) + 1) - got.m * unit) <= place
      BY <1>5, <3>1, <3>3
    <3>5. pl > MAX_SCALE
      BY <1>8, <1>9, <2>3
    <3>6. Halved(got, group)
      BY <1>6, <3>4, <3>5 DEF Halved, place, unit, pl
    <3>7. sent = ZERO
      <4>1. sent # ZERO => q <= MAX_SCALE
        BY <1>1, <1>2 DEF WirePart
      <4>2. q > MAX_SCALE
        <5> HIDE DEF q
        <5>1. q \in Int
          BY <1>5 DEF q
        <5>2. QED
          BY <1>8, <1>9, <3>5, <5>1
      <4>3. q \in Int
        BY <1>5
      <4>4. QED
        BY <1>8, <4>1, <4>2, <4>3
    <3>8. QED
      BY <2>1, <3>6, <3>7
  <2>4. QED
    BY <2>2, <2>3
<1>12. PostgresTypeOK'
  BY <1>1, <1>3 DEF PostgresTypeOK
<1>13. SendPart' /\ WirePart'
  BY <1>2, <1>3, WireKept
<1>14. ReadPart'
  <2>1. UNCHANGED <<sent, wire, got, group, PowerSent>>
    BY <1>3 DEF PowerSent
  <2>2. (Exact(got, group) <=> Exact(got, group)') /\ (Halved(got, group) <=> Halved(got, group)') /\ Read(group)' = Read(group)
    BY <2>1 DEF Exact, Halved, PlacesRead, Read
  <2>3. ~Receiving'
    BY <1>3 DEF Receiving
  <2>4. (PowerSent >= 0 => /\ group = Len(wire.digits)
                           /\ PowerWraps \/ (PowerSent <= MAX_SCALE /\ got.s = 0 /\ got.m = Read(group) * POWERS[PowerSent]))'
    <3>1. PowerSent >= 0 => PowerSent <= MAX_SCALE
      <4>1. q >= 0
        <5> HIDE DEF q
        <5>1. q \in Int
          BY <1>5 DEF q
        <5>2. QED
          BY <1>8, <1>9, <5>1
      <4>2. QED
        BY <1>5, <1>8, <4>1
    <3>2. QED
      BY <1>7, <1>10, <2>1, <2>2, <3>1
  <2>5. (PowerSent < 0 => group >= wire.weight + 1 /\ (Exact(got, group) \/ (sent = ZERO /\ Halved(got, group))))'
    BY <1>11, <2>1, <2>2
  <2>6. (~got.neg /\ group <= Len(wire.digits))'
    BY <1>4, <1>7, <2>1
  <2>7. QED
    BY <2>3, <2>4, <2>5, <2>6 DEF ReadPart
<1>15. PostgresKeeps'
  BY <1>3 DEF PostgresKeeps
<1>16. QED
  BY <1>12, <1>13, <1>14, <1>15 DEF PostgresInv

\* What an approximation is off by grows with the groups behind it.
LEMMA ErrorGrows ==
    ASSUME NEW M \in Nat, NEW U \in Nat, NEW W \in Nat, NEW E \in Nat, NEW G \in Nat, NEW d \in Nat, d < G,
           2 * (M * U - W) <= E, 2 * ((W + 1) - M * U) <= E
    PROVE  /\ 2 * (M * (U * G) - (W * G + d)) <= E * G
           /\ 2 * (((W * G + d) + 1) - M * (U * G)) <= E * G
<1> DEFINE x == M * U
           a == 2 * (x - W)
           b == 2 * ((W + 1) - x)
           y == M * (U * G)
           w == W * G
           e == E * G
<1>1. x \in Nat /\ y = x * G /\ y \in Nat /\ w \in Nat /\ e \in Nat
  OBVIOUS
<1> HIDE DEF x
<1>2. a \in Int /\ b \in Int /\ a <= E /\ b <= E /\ E \in Int
  BY <1>1 DEF x
<1>3. a * G <= e /\ b * G <= e
  <2> HIDE DEF a, b
  <2>1. QED
    BY <1>2, MulMono
<1>4. a * G = 2 * (y - w) /\ b * G = 2 * ((w + G) - y)
  <2>1. (x - W) * G = x * G - W * G
    BY <1>1, Distribute
  <2>2. ((W + 1) - x) * G = (W * G + G) - x * G
    BY <1>1
  <2>3. a * G = 2 * ((x - W) * G) /\ b * G = 2 * (((W + 1) - x) * G)
    BY <1>1
  <2>4. QED
    BY <1>1, <2>1, <2>2, <2>3
<1> HIDE DEF a, b, y, w, e
<1>5. 2 * (y - (w + d)) <= e /\ 2 * (((w + d) + 1) - y) <= e
  BY <1>1, <1>3, <1>4
<1>6. QED
  BY <1>5 DEF y, w, e

\* A power of ten with one more group.
LEMMA GapGrows ==
    ASSUME NEW a \in Nat, NEW q \in 0..PowLimit, q = a + GroupDigits, NEW b \in 0..a
    PROVE  /\ a - b \in 0..PowLimit /\ q - b \in 1..PowLimit
           /\ POWERS[a - b] \in Nat /\ POWERS[a - b] >= 1 /\ POWERS[q - b] \in Nat
           /\ POWERS[q - b] = POWERS[a - b] * GroupBase
<1> DEFINE g == GroupDigits
           j == a - b
           k == q - b
<1>1. g \in Nat /\ g >= 1 /\ PowLimit \in Nat
  BY GroupFacts
<1>2. j \in 0..PowLimit /\ g \in 0..PowLimit /\ k = j + g /\ k \in 1..PowLimit /\ k \in 0..PowLimit
  BY <1>1
<1> HIDE DEF j, k
<1>3. POWERS[j + g] = POWERS[j] * POWERS[g]
  <2>1. j + g <= PowLimit
    BY <1>1, <1>2
  <2>2. QED
    BY <1>2, <2>1, PowersAdd
<1>4. POWERS[k] = POWERS[j] * GroupBase /\ POWERS[j] \in Nat /\ POWERS[j] >= 1 /\ POWERS[k] \in Nat
  BY <1>2, <1>3, PowersType DEF GroupBase
<1>5. QED
  BY <1>2, <1>4 DEF j, k

\* A power of ten and the one before it.
LEMMA GapBelow ==
    ASSUME NEW a \in 0..PowLimit, NEW b \in 0..a, b < a
    PROVE  /\ a - b - 1 \in 0..PowLimit /\ a - b \in 1..PowLimit
           /\ POWERS[a - b - 1] \in Nat /\ POWERS[a - b - 1] >= 1 /\ POWERS[a - b] \in Nat
           /\ POWERS[a - b] = POWERS[a - b - 1] * Ten /\ POWERS[a - b] >= Ten
<1> DEFINE j == a - b - 1
           k == a - b
<1>1. PowLimit \in Nat /\ Ten \in Nat /\ Ten > 2
  BY GroupFacts
<1>2. j \in 0..PowLimit /\ k = j + 1 /\ k \in 1..PowLimit /\ k \in 0..PowLimit /\ 1 \in 0..PowLimit
  BY <1>1
<1> HIDE DEF j, k
<1>3. POWERS[1] = Ten
  BY <1>1, PowersAssumption
<1>4. POWERS[j + 1] = POWERS[j] * POWERS[1]
  <2>1. j + 1 <= PowLimit
    BY <1>1, <1>2
  <2>2. QED
    BY <1>2, <2>1, PowersAdd
<1>5. POWERS[j] \in Nat /\ POWERS[j] >= 1 /\ POWERS[k] \in Nat
  BY <1>2, PowersType
<1>6. POWERS[k] = POWERS[j] * Ten
  BY <1>2, <1>3, <1>4
<1>7. 1 * Ten <= POWERS[j] * Ten
  BY <1>1, <1>5, MulMono
<1>8. 1 * Ten = Ten
  BY <1>1
<1>9. QED
  BY <1>2, <1>5, <1>6, <1>7, <1>8 DEF j, k

\* The next group after the point: it adds a digit to the number read.
LEMMA NextGroup ==
    ASSUME PostgresTypeOK, wire \in Numerics, NEW i \in Nat, i < Len(wire.digits), wire.weight + 1 <= i
    PROVE  LET k == i + 1
               d == wire.digits[k]
           IN  /\ i \in 0..Len(wire.digits) /\ k \in 0..Len(wire.digits) /\ wire.weight + 1 <= k /\ k \in Nat
               /\ PlacesRead(i) \in Nat /\ PlacesRead(i) \in 0..PowLimit /\ PlacesRead(k) \in 0..PowLimit
               /\ PlacesRead(k) = PlacesRead(i) + GroupDigits
               /\ Read(i) \in Nat /\ Read(k) \in Nat /\ d \in Nat /\ d < GroupBase
               /\ Read(k) = Read(i) * GroupBase + d
<1> DEFINE L == Len(wire.digits)
           k == i + 1
           d == wire.digits[k]
<1>1. /\ L \in Nat /\ wire.weight \in Int
      /\ \A j \in 0..L : Read(j) \in Nat
      /\ \A j \in 1..L : Read(j) = Read(j - 1) * GroupBase + wire.digits[j] /\ wire.digits[j] \in Group
  BY WireFacts
<1>2. i \in 0..L /\ k \in 0..L /\ k \in 1..L /\ wire.weight + 1 <= k /\ k \in Nat /\ k - 1 = i
  BY <1>1
<1>3. PlacesRead(i) \in Nat /\ PlacesRead(i) \in 0..PowLimit /\ PlacesRead(k) = PlacesRead(i) + GroupDigits
  BY <1>2, PlacesFacts
<1>4. PlacesRead(k) \in 0..PowLimit
  BY <1>2, PlacesFacts
<1> HIDE DEF k
<1>5. Read(k) = Read(k - 1) * GroupBase + d /\ d \in Group
  BY <1>1, <1>2
<1>6. Read(k) = Read(i) * GroupBase + d
  BY <1>2, <1>5
<1>7. d \in Nat /\ d < GroupBase
  <2>1. GroupBase \in Nat
    BY GroupFacts
  <2>2. QED
    BY <1>5, <2>1 DEF Group
<1>8. Read(i) \in Nat /\ Read(k) \in Nat
  BY <1>1, <1>2
<1>9. QED
  BY <1>2, <1>3, <1>4, <1>6, <1>7, <1>8 DEF k

\* Once no digit fits any more, the groups that follow leave what was read.
LEMMA FrozenNext ==
    ASSUME PostgresTypeOK, wire \in Numerics, NEW i \in Nat, i < Len(wire.digits), wire.weight + 1 <= i,
           NEW m \in Mantissa, NEW s \in 0..MAX_SCALE, Frozen([m |-> m, s |-> s], i)
    PROVE  Frozen([m |-> m, s |-> s], i + 1)
<1> DEFINE x == [m |-> m, s |-> s]
           k == i + 1
           d == wire.digits[k]
           pl == PlacesRead(i)
           q == PlacesRead(k)
           G == GroupBase
           U == POWERS[pl - s]
           V == POWERS[pl - s - 1]
           W == Read(i)
<1>1. /\ pl \in Nat /\ pl \in 0..PowLimit /\ q \in 0..PowLimit /\ q = pl + GroupDigits
      /\ W \in Nat /\ d \in Nat /\ d < G /\ Read(k) = W * G + d
  BY NextGroup
<1> HIDE DEF k, d, pl, q, W
<1>2. G \in Nat /\ GroupDigits \in Nat /\ GroupDigits >= 1 /\ m \in Nat /\ s \in Nat /\ PowLimit \in Nat
  BY GroupFacts, BaseType DEF Mantissa
<1>3. s < pl /\ m * Ten > Max96 /\ 2 * (m * U - W) <= U + 2 * V /\ 2 * ((W + 1) - m * U) <= U + 2 * V
  BY DEF Frozen, pl, W
<1>4. U \in Nat /\ V \in Nat /\ POWERS[q - s] = U * G /\ POWERS[q - s - 1] = V * G
  <2>1. s \in 0..pl /\ s + 1 \in 0..pl
    BY <1>1, <1>2, <1>3
  <2>2. U \in Nat /\ POWERS[q - s] = U * G
    BY <1>1, <2>1, GapGrows
  <2> DEFINE t == s + 1
  <2>3. POWERS[pl - t] \in Nat /\ POWERS[q - t] = POWERS[pl - t] * G
    <3> HIDE DEF t
    <3>1. t \in 0..pl
      BY <2>1 DEF t
    <3>2. QED
      BY <1>1, <3>1, GapGrows
  <2>4. pl - t = pl - s - 1 /\ q - t = q - s - 1
    BY <1>1, <1>2
  <2>5. QED
    BY <2>2, <2>3, <2>4
<1> HIDE DEF U, V, G
<1> DEFINE E == U + 2 * V
<1>5. E \in Nat
  BY <1>4
<1>6. E * G = U * G + 2 * (V * G)
  BY <1>2, <1>4
<1>7. 2 * (m * U - W) <= E /\ 2 * ((W + 1) - m * U) <= E
  BY <1>3
<1> HIDE DEF E
<1>8. 2 * (m * (U * G) - (W * G + d)) <= E * G /\ 2 * (((W * G + d) + 1) - m * (U * G)) <= E * G
  BY <1>1, <1>2, <1>4, <1>5, <1>7, ErrorGrows
<1>9. s < q
  BY <1>1, <1>2, <1>3
<1>10. Frozen(x, k)
  BY <1>1, <1>3, <1>4, <1>6, <1>8, <1>9 DEF Frozen, q
<1>11. QED
  BY <1>10 DEF k

\* Past the last place no group changes what was read.
LEMMA HalvedNext ==
    ASSUME PostgresTypeOK, wire \in Numerics, NEW i \in Nat, i < Len(wire.digits), wire.weight + 1 <= i,
           NEW m \in Mantissa, NEW s \in 0..MAX_SCALE, Halved([m |-> m, s |-> s], i)
    PROVE  Halved([m |-> m, s |-> s], i + 1)
<1> DEFINE x == [m |-> m, s |-> s]
           k == i + 1
           d == wire.digits[k]
           pl == PlacesRead(i)
           q == PlacesRead(k)
           G == GroupBase
           U == POWERS[pl - s]
           E == POWERS[pl - MAX_SCALE]
           W == Read(i)
<1>1. /\ pl \in Nat /\ pl \in 0..PowLimit /\ q \in 0..PowLimit /\ q = pl + GroupDigits
      /\ W \in Nat /\ d \in Nat /\ d < G /\ Read(k) = W * G + d
  BY NextGroup
<1> HIDE DEF k, d, pl, q, W
<1>2. /\ G \in Nat /\ GroupDigits \in Nat /\ GroupDigits >= 1 /\ m \in Nat /\ s \in Nat /\ PowLimit \in Nat
      /\ MAX_SCALE \in Nat /\ s <= MAX_SCALE
  BY GroupFacts, BaseType DEF Mantissa
<1>3. MAX_SCALE < pl /\ 2 * (m * U - W) <= E /\ 2 * ((W + 1) - m * U) <= E
  BY DEF Halved, pl, W
<1>4. U \in Nat /\ E \in Nat /\ POWERS[q - s] = U * G /\ POWERS[q - MAX_SCALE] = E * G
  <2>1. s \in 0..pl /\ MAX_SCALE \in 0..pl
    BY <1>1, <1>2, <1>3
  <2>2. U \in Nat /\ POWERS[q - s] = U * G
    BY <1>1, <2>1, GapGrows
  <2>3. E \in Nat /\ POWERS[q - MAX_SCALE] = E * G
    BY <1>1, <2>1, GapGrows
  <2>4. QED
    BY <2>2, <2>3
<1> HIDE DEF U, E, G
<1>5. 2 * (m * (U * G) - (W * G + d)) <= E * G /\ 2 * (((W * G + d) + 1) - m * (U * G)) <= E * G
  BY <1>1, <1>2, <1>3, <1>4, ErrorGrows
<1>6. q > MAX_SCALE
  BY <1>1, <1>2, <1>3
<1>7. Halved(x, k)
  BY <1>1, <1>4, <1>5, <1>6 DEF Halved, q
<1>8. QED
  BY <1>7 DEF k

\* What is kept of a number is at most half a unit off.
LEMMA RoundedNear ==
    ASSUME NEW v \in Nat, NEW s \in 0..MAX_SCALE, Fits(v, s)
    PROVE  LET r == Rounded(v, s)
               u == POWERS[s - r.s]
           IN  /\ r.s \in 0..s /\ r.s \in 0..MAX_SCALE /\ r.m \in Mantissa /\ r.m \in Nat
               /\ u \in Nat /\ u >= 1
               /\ 2 * (r.m * u - v) <= u /\ 2 * (v - r.m * u) <= u
               /\ r.s = s => r.m = v
               /\ r.s < s => r.m * Ten > Max96
<1> DEFINE r == Rounded(v, s)
           t == r.s
           m == r.m
           u == POWERS[s - t]
<1>1. s \in 0..PowLimit /\ s \in Nat /\ SmallerOf(s, MAX_SCALE) = s /\ PowLimit \in Nat /\ MAX_SCALE \in Nat
  BY GroupFacts DEF SmallerOf
<1>2. t \in 0..s /\ t \in 0..MAX_SCALE /\ m = HalfEven(v, u) /\ m \in Mantissa
  BY <1>1, RoundedMost
<1>3. s - t \in 0..PowLimit /\ t \in Nat /\ t <= s
  BY <1>1, <1>2
<1>4. u \in Nat /\ u >= 1 /\ u \in Nat \ {0}
  <2> HIDE DEF t
  <2> DEFINE j == s - t
  <2>1. j \in 0..PowLimit
    BY <1>3
  <2> HIDE DEF j
  <2>2. POWERS[j] \in Nat /\ POWERS[j] >= 1
    BY <2>1, PowersType
  <2>3. QED
    BY <2>2 DEF j
<1>5. t < s => m * Ten > Max96
  BY <1>1, RoundedTight
<1> HIDE DEF t, m
<1>6. m \in Nat /\ IsHalfEven(m, v, u)
  <2> HIDE DEF u
  <2>1. QED
    BY <1>2, <1>4, HalfEvenRight
<1>7. 2 * (m * u - v) <= u /\ 2 * (v - m * u) <= u
  <2> HIDE DEF u
  <2> DEFINE d == 2 * (v - m * u)
             e == 2 * (m * u - v)
  <2>1. -u <= d /\ d <= u
    BY <1>6 DEF IsHalfEven
  <2>2. m * u \in Nat
    BY <1>4, <1>6
  <2>3. e = -d /\ d \in Int
    BY <2>2
  <2> HIDE DEF d, e
  <2>4. e <= u /\ d <= u
    BY <1>4, <2>1, <2>3
  <2>5. QED
    BY <2>4 DEF d, e
<1>8. t = s => m = v
  <2>1. SUFFICES ASSUME t = s PROVE m = v
    OBVIOUS
  <2> DEFINE j == s - t
  <2>2. j \in Int /\ j <= 0 /\ j >= 0
    BY <1>1, <2>1
  <2> HIDE DEF j
  <2>3. j = 0
    BY <2>2
  <2>4. u = 1
    BY <2>3, PowersAssumption DEF j
  <2>5. QED
    BY <1>2, <2>4, HalfEvenExact
<1>9. QED
  BY <1>2, <1>4, <1>5, <1>6, <1>7, <1>8 DEF t, m

\* A number read with all its digits, rounded to what fits.
LEMMA ExactRounds ==
    ASSUME PostgresTypeOK, wire \in Numerics, NEW k \in 0..Len(wire.digits), wire.weight + 1 <= k,
           PlacesRead(k) <= MAX_SCALE, Fits(Read(k), PlacesRead(k))
    PROVE  LET r == Rounded(Read(k), PlacesRead(k))
               x == [m |-> r.m, s |-> r.s]
           IN  r.m \in Mantissa /\ r.s \in 0..MAX_SCALE /\ (Exact(x, k) \/ Frozen(x, k))
<1> DEFINE v == Read(k)
           q == PlacesRead(k)
           r == Rounded(v, q)
           x == [m |-> r.m, s |-> r.s]
           u == POWERS[q - r.s]
           V == POWERS[q - r.s - 1]
<1>1. v \in Nat /\ q \in Nat /\ q \in 0..MAX_SCALE /\ q \in 0..PowLimit
  <2>1. v \in Nat /\ MAX_SCALE \in Nat
    BY WireFacts, GroupFacts
  <2>2. q \in Nat /\ q \in 0..PowLimit
    BY PlacesFacts
  <2>3. QED
    BY <2>1, <2>2
<1> HIDE DEF v, q
<1>2. Fits(v, q) /\ q <= MAX_SCALE
  BY DEF v, q
<1>3. /\ r.s \in 0..q /\ r.s \in 0..MAX_SCALE /\ r.m \in Mantissa /\ r.m \in Nat
      /\ u \in Nat /\ u >= 1
      /\ 2 * (r.m * u - v) <= u /\ 2 * (v - r.m * u) <= u
      /\ r.s = q => r.m = v
      /\ r.s < q => r.m * Ten > Max96
  BY <1>1, <1>2, RoundedNear
<1> HIDE DEF r
<1>4. CASE r.s = q
  <2> DEFINE j == q - r.s
  <2>1. j \in Int /\ j <= 0 /\ j >= 0
    BY <1>1, <1>4
  <2> HIDE DEF j
  <2>2. j = 0
    BY <2>1
  <2>3. POWERS[j] = 1 /\ r.m * 1 = v
    BY <1>3, <1>4, <2>2, PowersAssumption
  <2>4. r.m * POWERS[q - r.s] = v
    BY <2>3 DEF j
  <2>5. r.s <= q
    BY <1>1, <1>4
  <2>6. Exact(x, k)
    BY <1>2, <2>4, <2>5 DEF Exact, v, q
  <2>7. QED
    BY <1>3, <2>6 DEF r, v, q
<1>5. CASE r.s # q
  <2>1. r.s < q
    BY <1>1, <1>3, <1>5
  <2>2. V \in Nat /\ V >= 1
    BY <1>1, <1>3, <2>1, GapBelow
  <2> DEFINE y == r.m * u
  <2>3. y \in Int /\ 2 * (y - v) <= u /\ 2 * (v - y) <= u
    BY <1>3
  <2> HIDE DEF y, u, V
  <2>4. u \in Nat
    BY <1>3
  <2>5. 2 * (y - v) <= u + 2 * V /\ 2 * ((v + 1) - y) <= u + 2 * V
    BY <1>1, <2>2, <2>3, <2>4
  <2>6. Frozen(x, k)
    BY <1>3, <2>1, <2>5 DEF Frozen, u, V, y, v, q
  <2>7. QED
    BY <1>3, <2>6 DEF r, v, q
<1>6. QED
  BY <1>4, <1>5

\* A number read so far that fits at no scale makes the whole too large.
LEMMA RefusedLarge ==
    ASSUME PostgresTypeOK, wire \in Numerics, NEW k \in 0..Len(wire.digits), wire.weight + 1 <= k, PowerSent < 0,
           (2 * Max96 + 1) * POWERS[PlacesRead(k)] <= 2 * Read(k)
    PROVE  TooLargeToRead(Whole(wire.digits))
<1> DEFINE L == Len(wire.digits)
           n == L - k
           g == GroupDigits
           y == g * n
           pl == PlacesRead(k)
           q == -PowerSent
           p == POWERS[y]
           a == POWERS[pl]
           W == Whole(wire.digits)
           c == 2 * Max96 + 1
<1>1. /\ pl \in 0..PowLimit /\ q = pl + y /\ n \in Nat /\ y \in 0..PowLimit /\ q \in 0..PowLimit
  BY PlacesFacts
<1>2. /\ wire.digits \in Seq(Group) /\ L \in Nat /\ Read(k) \in Nat /\ W \in Nat /\ W = Read(L) /\ PowerSent \in Int
  <2>1. L \in 0..L
    BY WireFacts
  <2>2. QED
    BY <2>1, WireFacts
<1>3. Max96 \in Nat /\ PowLimit \in Nat /\ c \in Nat
  BY GroupFacts
<1>4. p \in Nat /\ a \in Nat /\ POWERS[q] = a * p
  <2> HIDE DEF y, pl, q
  <2>1. pl + y <= PowLimit
    BY <1>1, <1>3
  <2>2. POWERS[pl + y] = POWERS[pl] * POWERS[y]
    BY <1>1, <2>1, PowersAdd
  <2>3. QED
    BY <1>1, <2>2, PowersType
<1>5. Read(k) * p <= W
  <2>1. n \in 0..(L - k) /\ k + n = L /\ g * n <= PowLimit
    BY <1>1, <1>2, <1>3
  <2>2. Read(k) * POWERS[g * n] <= Read(k + n)
    BY <1>2, <2>1, WholeGrows DEF Read
  <2>3. QED
    BY <1>2, <2>1, <2>2
<1> HIDE DEF p, a, W, q, y
<1>6. c * a <= 2 * Read(k)
  BY DEF a
<1> HIDE DEF c
<1>7. (c * a) * p <= (2 * Read(k)) * p
  <2>1. c * a \in Int /\ 2 * Read(k) \in Int
    BY <1>2, <1>3, <1>4
  <2>2. QED
    BY <1>4, <1>6, <2>1, MulMono
<1>8. (c * a) * p = c * (a * p) /\ (2 * Read(k)) * p = 2 * (Read(k) * p)
  BY <1>2, <1>3, <1>4
<1>9. c * (a * p) \in Int /\ Read(k) * p \in Int
  BY <1>2, <1>3, <1>4
<1>10. 2 * W >= c * POWERS[q]
  <2> DEFINE s == c * (a * p)
             t == Read(k) * p
  <2>1. s <= 2 * t /\ t <= W /\ s \in Int /\ t \in Int
    BY <1>5, <1>7, <1>8, <1>9
  <2> HIDE DEF s, t
  <2>2. s <= 2 * W
    BY <1>2, <2>1
  <2>3. s \in Int /\ 2 * W \in Int
    BY <1>2, <2>1
  <2>4. 2 * W >= s
    BY <2>2, <2>3
  <2>5. QED
    BY <1>4, <2>4 DEF s
<1>11. ~(PowerSent >= 0)
  BY <1>2
<1>12. QED
  BY <1>10, <1>11 DEF TooLargeToRead, W, q, c

\* A decimal that was sent is read with all its digits.
LEMMA SentExact ==
    ASSUME PostgresTypeOK, WirePart, qpc \notin {"idle", "to", "groups"}, sent # ZERO,
           NEW k \in 0..Len(wire.digits), wire.weight + 1 <= k
    PROVE  LET q == PlacesRead(k)
               r == Rounded(Read(k), q)
           IN  /\ q <= MAX_SCALE /\ Fits(Read(k), q) /\ r.m \in Mantissa /\ r.s \in 0..MAX_SCALE
               /\ Exact([m |-> r.m, s |-> r.s], k)
<1> DEFINE L == Len(wire.digits)
           g == GroupDigits
           n == L - k
           y == g * n
           q == PlacesRead(k)
           e == -PowerSent
           S == Back.s
           m == Back.m
           W == Whole(wire.digits)
           v == Read(k)
           r == Rounded(v, q)
<1>1. wire \in Numerics /\ e <= MAX_SCALE /\ e < S + g /\ W * POWERS[S] = m * POWERS[e]
  BY DEF WirePart
<1>2. /\ q \in Nat /\ q \in 0..PowLimit /\ e = q + y /\ n \in Nat /\ y \in 0..PowLimit /\ q <= e /\ e \in 0..PowLimit
  BY <1>1, PlacesFacts
<1>3. /\ wire.digits \in Seq(Group) /\ L \in Nat /\ v \in Nat /\ W \in Nat /\ W = Read(L)
  <2>1. L \in 0..L
    BY <1>1, WireFacts
  <2>2. QED
    BY <1>1, <2>1, WireFacts
<1>4. Back \in Decimal
  BY ZeroType DEF Back, PostgresTypeOK
<1>5. /\ m \in Nat /\ m <= Max96 /\ m \in Mantissa /\ S \in 0..MAX_SCALE /\ S \in 0..PowLimit
      /\ MAX_SCALE \in Nat /\ PowLimit \in Nat /\ Max96 \in Nat /\ g \in Nat /\ g >= 1
  <2>1. m \in Mantissa /\ S \in 0..MAX_SCALE
    BY <1>4 DEF Decimal
  <2>2. QED
    BY <2>1, GroupFacts, BaseType DEF Mantissa
<1>6. q <= MAX_SCALE
  <2> HIDE DEF q, e
  <2>1. e \in Int
    BY <1>2
  <2>2. QED
    BY <1>1, <1>2, <1>5, <2>1
<1>7. SmallerOf(q, MAX_SCALE) = q
  BY <1>5, <1>6 DEF SmallerOf
<1> HIDE DEF W, v, q, e, y, S, m
<1>8. PICK t \in 0..q, c \in Mantissa : v = c * POWERS[q - t]
  <2>1. CASE q <= S
    <3> DEFINE f == S - q
               A == POWERS[q]
               B == POWERS[y]
               C == POWERS[f]
    <3>1. f \in 0..PowLimit /\ q + f = S /\ q + f <= PowLimit /\ q + y = e /\ q + y <= PowLimit
      BY <1>2, <1>5, <2>1
    <3> HIDE DEF f
    <3>2. A \in Nat \ {0} /\ B \in Nat \ {0} /\ C \in Nat \ {0} /\ POWERS[S] = A * C /\ POWERS[e] = A * B
      <4>1. POWERS[q + f] = A * C /\ POWERS[q + y] = A * B
        BY <1>2, <3>1, PowersAdd
      <4>2. QED
        BY <1>2, <3>1, <4>1, PowersType
    <3>3. v * B <= W
      <4>1. n \in 0..(L - k) /\ k + n = L /\ g * n <= PowLimit
        BY <1>2, <1>3, <1>5 DEF y
      <4>2. Read(k) * POWERS[g * n] <= Read(k + n)
        BY <1>3, <4>1, WholeGrows DEF Read
      <4>3. QED
        BY <1>3, <4>1, <4>2 DEF v, y
    <3> HIDE DEF A, B, C
    <3>4. (v * B) * (A * C) <= W * (A * C)
      <4>1. v * B \in Int /\ W \in Int /\ A * C \in Nat
        BY <1>3, <3>2
      <4>2. QED
        BY <3>3, <4>1, MulMono
    <3>5. W * (A * C) = m * (A * B)
      BY <1>1, <3>2
    <3>6. (v * B) * (A * C) = (v * C) * (A * B)
      <4>1. (v * B) * (A * C) = ((v * B) * C) * A
        BY <1>3, <3>2
      <4>2. (v * B) * C = (v * C) * B
        BY <1>3, <3>2
      <4>3. ((v * C) * B) * A = (v * C) * (A * B)
        BY <1>3, <3>2
      <4>4. QED
        BY <4>1, <4>2, <4>3
    <3>7. v * C \in Int /\ m \in Int /\ A * B \in Nat \ {0}
      BY <1>3, <1>5, <3>2
    <3>8. ~(m < v * C)
      <4>1. m * (A * B) \in Int /\ (v * C) * (A * B) \in Int
        BY <3>7
      <4>2. ~(m * (A * B) < (v * C) * (A * B))
        BY <3>4, <3>5, <3>6, <4>1
      <4>3. QED
        BY <3>7, <4>2, Cancel
    <3>9. v <= m
      <4>1. 1 * v <= C * v /\ C * v = v * C /\ 1 * v = v
        BY <1>3, <3>2, MulMono
      <4> DEFINE z == v * C
      <4>2. v <= z /\ ~(m < z) /\ z \in Int
        BY <3>7, <3>8, <4>1
      <4> HIDE DEF z
      <4>3. QED
        BY <1>3, <1>5, <4>2
    <3>10. v \in Mantissa
      BY <1>3, <1>5, <3>9, BaseType DEF Mantissa
    <3>11. v = v * POWERS[q - q]
      <4> DEFINE j == q - q
      <4>1. j \in Int /\ j <= 0 /\ j >= 0
        BY <1>2
      <4> HIDE DEF j
      <4>2. j = 0
        BY <4>1
      <4>3. v = v * POWERS[j]
        BY <1>3, <4>2, PowersAssumption
      <4>4. QED
        BY <4>3 DEF j
    <3>12. q \in 0..q
      BY <1>2
    <3>13. QED
      BY <3>10, <3>11, <3>12
  <2>2. CASE ~(q <= S)
    <3>1. n = 0
      <4>1. SUFFICES ASSUME n >= 1 PROVE FALSE
        BY <1>2
      <4>2. g * 1 <= g * n
        <5>1. 1 * g <= n * g /\ n * g = g * n /\ 1 * g = g * 1
          BY <1>2, <1>5, <4>1, MulMono
        <5>2. QED
          BY <5>1
      <4>3. g <= y
        BY <1>5, <4>2 DEF y
      <4>4. QED
        BY <1>1, <1>2, <1>5, <2>2, <4>3
    <3>2. y = 0 /\ e = q /\ k = L
      <4>1. y = 0
        BY <1>5, <3>1 DEF y
      <4>2. k = L
        BY <1>3, <3>1
      <4>3. QED
        BY <1>2, <4>1, <4>2
    <3>3. W = v
      BY <1>3, <3>2 DEF v
    <3> DEFINE f == q - S
               A == POWERS[S]
               C == POWERS[f]
    <3>4. f \in 0..PowLimit /\ f + S = q /\ f + S <= PowLimit /\ S \in 0..q
      BY <1>2, <1>5, <2>2
    <3> HIDE DEF f
    <3>5. A \in Nat \ {0} /\ C \in Nat /\ POWERS[q] = C * A
      BY <1>5, <3>4, PowersAdd, PowersType
    <3> HIDE DEF A, C
    <3>6. v * A = (m * C) * A
      <4>1. v * A = m * (C * A)
        BY <1>1, <3>2, <3>3, <3>5 DEF A
      <4>2. m * (C * A) = (m * C) * A
        BY <1>5, <3>5
      <4>3. QED
        BY <4>1, <4>2
    <3>7. v = m * C
      <4>1. v \in Int /\ m * C \in Int
        BY <1>3, <1>5, <3>5
      <4>2. QED
        BY <3>5, <3>6, <4>1, Cancel
    <3>8. QED
      BY <1>5, <3>4, <3>7 DEF C, f
  <2>3. QED
    BY <2>1, <2>2
<1>9. /\ Fits(v, q) /\ r.s \in t..q /\ r.m \in Mantissa /\ r.m * POWERS[q - r.s] = v
  <2> DEFINE w == c * POWERS[q - t]
             R == Rounded(w, q)
  <2>1. t \in 0..SmallerOf(q, MAX_SCALE)
    BY <1>7
  <2>2. Fits(w, q) /\ R.s \in t..SmallerOf(q, MAX_SCALE) /\ R.m \in Mantissa /\ R.m * POWERS[q - R.s] = w
    BY <1>2, <2>1, RoundedExact
  <2>3. v = w
    BY <1>8
  <2> HIDE DEF w
  <2>4. R = r
    BY <2>3
  <2> HIDE DEF R, r
  <2>5. QED
    BY <1>7, <2>2, <2>3, <2>4
<1> HIDE DEF r
<1>10. r.s \in 0..MAX_SCALE /\ r.s <= q
  BY <1>2, <1>5, <1>6, <1>9
<1>11. Exact([m |-> r.m, s |-> r.s], k)
  BY <1>6, <1>9, <1>10 DEF Exact, q, v
<1>12. QED
  BY <1>6, <1>9, <1>10, <1>11 DEF r, q, v

\* The last place is reached, and the group behind it is less than half of it.
LEMMA ExactHalves ==
    ASSUME PostgresTypeOK, wire \in Numerics, NEW i \in Nat, i < Len(wire.digits), wire.weight + 1 <= i,
           NEW m \in Mantissa, NEW s \in 0..MAX_SCALE, Exact([m |-> m, s |-> s], i),
           PlacesRead(i) = MAX_SCALE, wire.digits[i + 1] < GroupBase \div 2
    PROVE  Halved([m |-> m, s |-> s], i + 1)
<1> DEFINE k == i + 1
           d == wire.digits[k]
           q == PlacesRead(k)
           G == GroupBase
           U == POWERS[MAX_SCALE - s]
           W == Read(i)
<1>1. /\ q \in 0..PowLimit /\ q = MAX_SCALE + GroupDigits
      /\ W \in Nat /\ d \in Nat /\ d < G /\ Read(k) = W * G + d
  BY NextGroup
<1>2. d < G \div 2
  OBVIOUS
<1> HIDE DEF k, d, q, W
<1>3. /\ G \in Nat /\ G % 2 = 0 /\ GroupDigits \in Nat /\ GroupDigits >= 1 /\ m \in Nat /\ s \in Nat
      /\ MAX_SCALE \in Nat /\ s \in 0..MAX_SCALE
  BY GroupFacts, BaseType DEF Mantissa
<1>4. m * U = W
  BY DEF Exact, W
<1>5. U \in Nat /\ POWERS[q - s] = U * G /\ POWERS[q - MAX_SCALE] = G
  <2>1. U \in Nat /\ POWERS[q - s] = U * G
    BY <1>1, <1>3, GapGrows
  <2>2. q - MAX_SCALE = GroupDigits
    BY <1>1, <1>3
  <2>3. QED
    BY <2>1, <2>2 DEF GroupBase
<1> HIDE DEF U, G
<1>6. 2 * (d + 1) <= G
  BY <1>1, <1>2, <1>3
<1>7. m * (U * G) = W * G /\ W * G \in Nat
  <2>1. m * (U * G) = (m * U) * G
    BY <1>3, <1>5
  <2>2. (m * U) * G = W * G
    BY <1>4
  <2>3. W * G \in Nat
    BY <1>1, <1>3
  <2>4. QED
    BY <2>1, <2>2, <2>3
<1> DEFINE y == m * (U * G)
           w == W * G
<1>8. y = w /\ w \in Int /\ Read(k) = w + d
  BY <1>1, <1>7
<1> HIDE DEF y, w
<1>9. 2 * (y - Read(k)) <= G /\ 2 * ((Read(k) + 1) - y) <= G
  BY <1>1, <1>3, <1>6, <1>8
<1>10. q > MAX_SCALE
  BY <1>1, <1>3
<1>11. Halved([m |-> m, s |-> s], k)
  BY <1>5, <1>9, <1>10 DEF Halved, q, y
<1>12. QED
  BY <1>11 DEF k

\* One more unit of the last place than a decimal has can be kept.
LEMMA OneMoreFits ==
    ASSUME NEW m \in Mantissa, NEW s \in 0..MAX_SCALE
    PROVE  LET v == m * POWERS[MAX_SCALE - s] + 1 IN v \in Nat /\ Fits(v, MAX_SCALE)
<1> DEFINE j == MAX_SCALE - s
           u == POWERS[j]
           p == POWERS[MAX_SCALE]
           v == m * u + 1
           c == 2 * Max96 + 1
<1>1. /\ MAX_SCALE \in Nat /\ MAX_SCALE >= 1 /\ PowLimit \in Nat /\ MAX_SCALE <= PowLimit /\ Max96 \in Nat
      /\ Ten \in Nat /\ Ten > 2 /\ m \in Nat /\ m <= Max96
  BY GroupFacts, BaseType DEF Mantissa
<1>2. j \in 0..PowLimit /\ j <= MAX_SCALE /\ MAX_SCALE \in 0..PowLimit /\ 1 \in 0..PowLimit
  BY <1>1
<1> HIDE DEF j
<1>3. u \in Nat /\ p \in Nat /\ u <= p
  BY <1>2, PowersType, PowersMono
<1>4. p > 2
  <2>1. POWERS[1] = Ten
    BY <1>1, PowersAssumption
  <2>2. POWERS[1] <= POWERS[MAX_SCALE]
    BY <1>1, <1>2, PowersMono
  <2>3. QED
    BY <1>1, <1>3, <2>1, <2>2
<1> HIDE DEF u, p
<1>5. v \in Nat
  BY <1>1, <1>3
<1>6. Fits(v, MAX_SCALE)
  <2>1. SUFFICES ASSUME ~Fits(v, MAX_SCALE) PROVE FALSE
    OBVIOUS
  <2> HIDE DEF v
  <2>2. c * p <= 2 * v
    BY <1>2, <1>5, <2>1, RoundedNone DEF p
  <2>3. m * u <= Max96 * u
    BY <1>1, <1>3, MulMono
  <2>4. u * Max96 <= p * Max96 /\ u * Max96 = Max96 * u /\ p * Max96 = Max96 * p
    BY <1>1, <1>3, MulMono
  <2>5. c * p = 2 * (Max96 * p) + p
    BY <1>1, <1>3
  <2>6. m * u \in Int /\ Max96 * u \in Int /\ Max96 * p \in Int
    BY <1>1, <1>3
  <2> DEFINE x == m * u
             y == Max96 * u
             z == Max96 * p
  <2>7. x <= y /\ y <= z /\ 2 * z + p <= 2 * (x + 1) /\ x \in Int /\ y \in Int /\ z \in Int
    BY <2>2, <2>3, <2>4, <2>5, <2>6 DEF v
  <2> HIDE DEF x, y, z
  <2>8. QED
    BY <1>3, <1>4, <2>7
<1>7. QED
  BY <1>5, <1>6 DEF v, u, j

\* The last place is reached, and the group behind it is at least half of it.
LEMMA ExactUp ==
    ASSUME PostgresTypeOK, wire \in Numerics, NEW i \in Nat, i < Len(wire.digits), wire.weight + 1 <= i,
           NEW m \in Mantissa, NEW s \in 0..MAX_SCALE, Exact([m |-> m, s |-> s], i),
           PlacesRead(i) = MAX_SCALE, ~(wire.digits[i + 1] < GroupBase \div 2)
    PROVE  LET v == m * POWERS[MAX_SCALE - s] + 1
               r == Rounded(v, MAX_SCALE)
               x == [m |-> r.m, s |-> r.s]
           IN  /\ v \in Nat /\ Fits(v, MAX_SCALE) /\ r.m \in Mantissa /\ r.s \in 0..MAX_SCALE
               /\ Halved(x, i + 1) \/ Frozen(x, i + 1)
<1> DEFINE k == i + 1
           d == wire.digits[k]
           q == PlacesRead(k)
           G == GroupBase
           W == Read(i)
           v == m * POWERS[MAX_SCALE - s] + 1
           r == Rounded(v, MAX_SCALE)
           x == [m |-> r.m, s |-> r.s]
           u == POWERS[MAX_SCALE - r.s]
           V == POWERS[MAX_SCALE - r.s - 1]
           N == r.m
           t == r.s
<1>1. /\ q \in 0..PowLimit /\ q = MAX_SCALE + GroupDigits
      /\ W \in Nat /\ d \in Nat /\ d < G /\ Read(k) = W * G + d
  BY NextGroup
<1>2. ~(d < G \div 2)
  OBVIOUS
<1>3. v \in Nat /\ Fits(v, MAX_SCALE)
  BY OneMoreFits
<1>4. v = W + 1
  BY DEF Exact
<1> HIDE DEF k, d, q, W, v
<1>5. /\ G \in Nat /\ G % 2 = 0 /\ GroupDigits \in Nat /\ GroupDigits >= 1
      /\ MAX_SCALE \in Nat /\ MAX_SCALE \in 0..MAX_SCALE /\ PowLimit \in Nat /\ MAX_SCALE <= PowLimit
  BY GroupFacts
<1>6. /\ t \in 0..MAX_SCALE /\ N \in Mantissa /\ N \in Nat
      /\ u \in Nat /\ u >= 1
      /\ 2 * (N * u - v) <= u /\ 2 * (v - N * u) <= u
      /\ t = MAX_SCALE => N = v
      /\ t < MAX_SCALE => N * Ten > Max96
  BY <1>3, <1>5, RoundedNear
<1>7. POWERS[q - t] = u * G /\ POWERS[q - MAX_SCALE] = G
  <2> HIDE DEF t, r
  <2>1. POWERS[q - r.s] = u * G
    BY <1>1, <1>5, <1>6, GapGrows DEF t
  <2>2. q - MAX_SCALE = GroupDigits
    BY <1>1, <1>5
  <2>3. QED
    BY <2>1, <2>2 DEF GroupBase, t
<1>8. G <= 2 * d
  <2> HIDE DEF G
  <2>1. QED
    BY <1>1, <1>2, <1>5
<1>9. W * G \in Nat /\ (W + 1) * G = W * G + G
  BY <1>1, <1>5
<1> DEFINE w == W * G
<1>10. w \in Nat /\ v * G = w + G /\ Read(k) = w + d
  BY <1>1, <1>4, <1>9
<1> HIDE DEF w
<1>11. CASE t = MAX_SCALE
  <2>1. N * (u * G) = w + G
    <3> DEFINE j == MAX_SCALE - t
    <3> HIDE DEF t
    <3>1. j \in Int /\ j <= 0 /\ j >= 0
      BY <1>5, <1>11
    <3> HIDE DEF j
    <3>2. j = 0
      BY <3>1
    <3>3. POWERS[j] = 1
      BY <3>2, PowersAssumption
    <3>4. u = 1
      BY <3>3 DEF j, t
    <3> HIDE DEF u, G, N
    <3>5. u * G = G /\ N = v
      BY <1>5, <1>6, <1>11, <3>4 DEF t
    <3>6. QED
      BY <1>10, <3>5
  <2> DEFINE y == N * (u * G)
  <2>2. y = w + G
    BY <2>1
  <2> HIDE DEF y, G
  <2>3. 2 * (y - Read(k)) <= G /\ 2 * ((Read(k) + 1) - y) <= G
    BY <1>1, <1>5, <1>8, <1>10, <2>2
  <2>4. q > MAX_SCALE
    BY <1>1, <1>5
  <2>5. Halved(x, k)
    <3> HIDE DEF u, r
    <3>1. QED
      BY <1>7, <2>3, <2>4 DEF Halved, q, y
  <2>6. QED
    BY <1>3, <1>6, <2>5 DEF v, k
<1>12. CASE t # MAX_SCALE
  <2>1. t < MAX_SCALE
    BY <1>5, <1>6, <1>12
  <2>2. V \in Nat /\ V >= 1 /\ MAX_SCALE \in 0..PowLimit
    <3>1. MAX_SCALE \in 0..PowLimit
      BY <1>5
    <3> HIDE DEF r
    <3>2. QED
      BY <1>6, <2>1, <3>1, GapBelow
  <2>3. POWERS[q - t - 1] = V * G
    <3> DEFINE b == t + 1
    <3> HIDE DEF t
    <3>1. b \in 0..MAX_SCALE /\ MAX_SCALE - b = MAX_SCALE - t - 1 /\ q - b = q - t - 1
      <4> HIDE DEF q
      <4>1. q \in Int /\ t \in Nat /\ MAX_SCALE \in Nat
        BY <1>1, <1>5, <1>6
      <4>2. b \in 0..MAX_SCALE
        BY <4>1, <2>1
      <4>3. MAX_SCALE - b = MAX_SCALE - t - 1
        BY <4>1
      <4>4. q - b = q - t - 1
        BY <4>1
      <4>5. QED
        BY <4>2, <4>3, <4>4
    <3> HIDE DEF b
    <3>2. POWERS[q - b] = POWERS[MAX_SCALE - b] * G
      BY <1>1, <1>5, <3>1, GapGrows
    <3>3. POWERS[q - t - 1] = POWERS[MAX_SCALE - t - 1] * G
      BY <3>1, <3>2
    <3>4. QED
      BY <3>3 DEF t
  <2> DEFINE a == N * u
             e == 2 * (a - v)
             f == 2 * (v - a)
             y == N * (u * G)
             U == u * G
             VG == V * G
  <2>4. a \in Nat /\ e \in Int /\ f \in Int /\ e <= u /\ f <= u
    <3>1. e <= u /\ f <= u
      BY <1>6
    <3>2. a \in Nat
      <4> HIDE DEF N, u
      <4>1. QED
        BY <1>6
    <3>3. e \in Int /\ f \in Int
      <4> HIDE DEF a
      <4>1. QED
        BY <1>3, <3>2
    <3>4. QED
      BY <3>1, <3>2, <3>3
  <2>5. e * G <= U /\ f * G <= U
    <3> HIDE DEF e, f, u, G
    <3>1. u \in Int
      BY <1>6
    <3>2. QED
      BY <1>5, <2>4, <3>1, MulMono
  <2>6. e * G = 2 * (y - (w + G)) /\ f * G = 2 * ((w + G) - y)
    <3> HIDE DEF u, G, N
    <3>1. a * G = y
      BY <1>5, <1>6
    <3> HIDE DEF a
    <3>2. e * G = 2 * ((a - v) * G) /\ f * G = 2 * ((v - a) * G)
      BY <1>3, <1>5, <2>4
    <3>3. (a - v) * G = a * G - v * G /\ (v - a) * G = v * G - a * G
      BY <1>3, <1>5, <2>4, Distribute
    <3> HIDE DEF e, f, y
    <3>4. QED
      BY <1>10, <3>1, <3>2, <3>3
  <2>7. y \in Int /\ U \in Int /\ VG \in Int /\ G <= VG
    <3> HIDE DEF u, G, N, V
    <3>1. 1 * G <= V * G /\ 1 * G = G
      BY <1>5, <2>2, MulMono
    <3>2. QED
      BY <1>5, <1>6, <2>2, <3>1
  <2> HIDE DEF a, e, f, y, U, VG, G
  <2>8. 2 * (y - (w + G)) <= U /\ 2 * ((w + G) - y) <= U
    BY <2>5, <2>6
  <2>9. 2 * (y - Read(k)) <= U + 2 * VG /\ 2 * ((Read(k) + 1) - y) <= U + 2 * VG
    BY <1>1, <1>5, <1>10, <2>7, <2>8
  <2>10. t < q
    <3> HIDE DEF t
    <3>1. QED
      BY <1>1, <1>5, <1>6, <2>1
  <2>11. Frozen(x, k)
    <3>1. N * Ten > Max96
      BY <1>6, <2>1
    <3> HIDE DEF u, V, r
    <3>2. QED
      BY <1>7, <2>3, <2>9, <2>10, <3>1 DEF Frozen, q, y, U, VG
  <2>12. QED
    BY <1>3, <1>6, <2>11 DEF v, k
<1>13. QED
  BY <1>11, <1>12

\* Sums: of a number with no more places than the other, and with nothing.
LEMMA SumUp ==
    ASSUME NEW x, NEW y, x.m \in Nat, y.m \in Nat, x.s \in Nat, y.s \in Nat, x.s <= y.s, POWERS[y.s - x.s] \in Nat
    PROVE  SumOf(x, y).v = x.m * POWERS[y.s - x.s] + y.m /\ SumOf(x, y).s = y.s
<1> DEFINE s == IF x.s > y.s THEN x.s ELSE y.s
           a == s - y.s
<1>1. s = y.s
  OBVIOUS
<1>2. a \in Int /\ a <= 0 /\ a >= 0
  BY <1>1
<1> HIDE DEF a
<1>3. a = 0
  BY <1>2
<1>4. POWERS[a] = 1
  BY <1>3, PowersAssumption
<1>5. y.m * POWERS[a] = y.m
  BY <1>4
<1> HIDE DEF s
<1>6. SumOf(x, y).v = x.m * POWERS[s - x.s] + y.m * POWERS[a] /\ SumOf(x, y).s = s
  BY DEF SumOf, s, a
<1>7. QED
  BY <1>1, <1>5, <1>6

\* A sum with nothing is the number itself.
LEMMA SumNone ==
    ASSUME NEW x, x.m \in Nat, x.s \in 0..MAX_SCALE
    PROVE  SumOf(x, [m |-> 0, s |-> 0]).v = x.m /\ SumOf(x, [m |-> 0, s |-> 0]).s = x.s
<1> DEFINE y == [m |-> 0, s |-> 0]
           t == x.s
           s == IF t > 0 THEN t ELSE 0
           a == s - t
           b == s - 0
<1>1. t \in Nat /\ PowLimit \in Nat /\ t <= PowLimit
  BY GroupFacts
<1> HIDE DEF t
<1>2. s = t
  BY <1>1
<1>3. a \in Int /\ a <= 0 /\ a >= 0 /\ b \in 0..PowLimit
  BY <1>1, <1>2
<1> HIDE DEF a, b
<1>4. a = 0
  BY <1>3
<1>5. POWERS[a] = 1 /\ POWERS[b] \in Nat
  BY <1>3, <1>4, PowersType, PowersAssumption
<1>6. x.m * POWERS[a] = x.m /\ 0 * POWERS[b] = 0
  BY <1>5
<1>7. SumOf(x, y).v = x.m * POWERS[a] + 0 * POWERS[b] /\ SumOf(x, y).s = s
  BY DEF SumOf, a, b, s, t
<1>8. QED
  BY <1>2, <1>6, <1>7 DEF t

\* A decimal is what is kept of it.
LEMMA KeptAll ==
    ASSUME NEW m \in Mantissa, NEW s \in 0..MAX_SCALE
    PROVE  Fits(m, s) /\ Rounded(m, s).m = m /\ Rounded(m, s).s = s
<1> DEFINE j == s - s
           v == m * POWERS[j]
           r == Rounded(v, s)
<1>1. s \in Nat /\ s \in 0..PowLimit /\ m \in Nat /\ SmallerOf(s, MAX_SCALE) = s /\ s \in 0..SmallerOf(s, MAX_SCALE)
  BY GroupFacts, BaseType DEF Mantissa, SmallerOf
<1>2. Fits(v, s) /\ r.s \in s..SmallerOf(s, MAX_SCALE) /\ r.m = m * POWERS[r.s - s]
  BY <1>1, RoundedExact
<1>3. j \in Int /\ j <= 0 /\ j >= 0
  BY <1>1
<1>4. r.s = s
  <2> HIDE DEF r
  <2>1. r.s \in s..s
    BY <1>1, <1>2
  <2>2. QED
    BY <1>1, <2>1
<1>5. r.m = m * POWERS[j]
  BY <1>2, <1>4
<1> HIDE DEF r
<1> HIDE DEF j
<1>6. POWERS[j] = 1
  <2>1. j = 0
    BY <1>3
  <2>2. QED
    BY <2>1, PowersAssumption
<1>7. v = m
  BY <1>1, <1>6
<1> HIDE DEF v
<1>8. r = Rounded(m, s)
  BY <1>7 DEF r
<1>9. QED
  BY <1>1, <1>2, <1>4, <1>5, <1>6, <1>7, <1>8 DEF v

\* A number that holds no more digits is kept as it is, if a small one is added.
LEMMA FrozenKept ==
    ASSUME PostgresTypeOK, wire \in Numerics, NEW i \in Nat, i < Len(wire.digits), wire.weight + 1 <= i,
           NEW m \in Mantissa, NEW s \in 0..MAX_SCALE, Frozen([m |-> m, s |-> s], i),
           NEW q \in 0..PowLimit, s < q, NEW d \in Nat, 2 * d < POWERS[q - s]
    PROVE  LET v == m * POWERS[q - s] + d
               r == Rounded(v, q)
           IN  Fits(v, q) /\ r.m \in Mantissa /\ r.s \in 0..MAX_SCALE /\ Frozen([m |-> r.m, s |-> r.s], i + 1)
<1> DEFINE v == m * POWERS[q - s] + d
           r == Rounded(v, q)
<1>1. m * Ten > Max96
  BY DEF Frozen
<1>2. Fits(v, q) /\ r.m = m /\ r.s = s
  BY <1>1, RoundedFrozen
<1>3. Frozen([m |-> m, s |-> s], i + 1)
  BY FrozenNext
<1> HIDE DEF r, v
<1>4. Frozen([m |-> r.m, s |-> r.s], i + 1)
  BY <1>2, <1>3
<1>5. QED
  BY <1>2, <1>4 DEF r, v

\* What is known of the number read: m / Ten^s.
Known(m, s, i) ==
    \/ Exact([m |-> m, s |-> s], i)
    \/ sent = ZERO /\ (Frozen([m |-> m, s |-> s], i) \/ Halved([m |-> m, s |-> s], i))

\* A group within the places there are.
LEMMA FractionDigits ==
    ASSUME PostgresTypeOK, WirePart, qpc \notin {"idle", "to", "groups"}, PowerSent < 0,
           NEW i \in Nat, i < Len(wire.digits), wire.weight + 1 <= i, PlacesRead(i + 1) <= MAX_SCALE,
           NEW m \in Mantissa, NEW s \in 0..MAX_SCALE, Known(m, s, i)
    PROVE  LET q == PlacesRead(i + 1)
               v == m * POWERS[q - s] + wire.digits[i + 1]
               r == Rounded(v, q)
           IN  /\ s <= q /\ POWERS[q - s] \in Nat
               /\ \/ Fits(v, q) /\ r.m \in Mantissa /\ r.s \in 0..MAX_SCALE /\ Known(r.m, r.s, i + 1)
                  \/ ~Fits(v, q) /\ sent = ZERO /\ TooLargeToRead(Whole(wire.digits))
<1> DEFINE k == i + 1
           d == wire.digits[k]
           pl == PlacesRead(i)
           q == PlacesRead(k)
           G == GroupBase
           W == Read(i)
           v == m * POWERS[q - s] + d
           r == Rounded(v, q)
<1>1. wire \in Numerics
  BY DEF WirePart
<1>2. /\ pl \in Nat /\ pl \in 0..PowLimit /\ q \in 0..PowLimit /\ q = pl + GroupDigits /\ k \in 0..Len(wire.digits)
      /\ W \in Nat /\ d \in Nat /\ d < G /\ Read(k) = W * G + d /\ Read(k) \in Nat /\ wire.weight + 1 <= k /\ k \in Nat
  BY <1>1, NextGroup
<1>3. q <= MAX_SCALE
  OBVIOUS
<1> HIDE DEF k, d, pl, q, W
<1>4. /\ G \in Nat /\ GroupDigits \in Nat /\ GroupDigits >= 1 /\ m \in Nat /\ s \in Nat /\ MAX_SCALE \in Nat
      /\ Ten \in Nat /\ Ten > 2
  BY GroupFacts, BaseType DEF Mantissa
<1>5. ~Halved([m |-> m, s |-> s], i)
  <2>1. SUFFICES ASSUME pl > MAX_SCALE PROVE FALSE
    BY DEF Halved, pl
  <2>2. QED
    BY <1>2, <1>3, <1>4, <2>1
<1>6. CASE Exact([m |-> m, s |-> s], i)
  <2> DEFINE U == POWERS[pl - s]
  <2>1. s <= pl /\ m * U = W
    BY <1>6 DEF Exact, pl, W
  <2>2. U \in Nat /\ POWERS[q - s] = U * G /\ POWERS[q - s] \in Nat
    <3>1. s \in 0..pl
      BY <1>2, <1>4, <2>1
    <3>2. QED
      BY <1>2, <3>1, GapGrows
  <2> HIDE DEF U, G
  <2>3. v = Read(k)
    <3>1. m * (U * G) = (m * U) * G
      BY <1>4, <2>2
    <3>2. (m * U) * G = W * G
      BY <2>1
    <3>3. v = m * (U * G) + d
      BY <2>2
    <3>4. QED
      BY <1>2, <3>1, <3>2, <3>3
  <2> HIDE DEF v
  <2>4. r = Rounded(Read(k), q)
    BY <2>3
  <2> HIDE DEF r
  <2>5. s <= q
    BY <1>2, <1>4, <2>1
  <2>6. CASE sent # ZERO
    <3>1. Fits(Read(k), q) /\ r.m \in Mantissa /\ r.s \in 0..MAX_SCALE /\ Exact([m |-> r.m, s |-> r.s], k)
      BY <1>2, <2>4, <2>6, SentExact DEF q
    <3>2. QED
      BY <2>2, <2>3, <2>5, <3>1 DEF Known, q, k, v, r, d
  <2>7. CASE sent = ZERO /\ Fits(v, q)
    <3>1. r.m \in Mantissa /\ r.s \in 0..MAX_SCALE
          /\ (Exact([m |-> r.m, s |-> r.s], k) \/ Frozen([m |-> r.m, s |-> r.s], k))
      BY <1>1, <1>2, <1>3, <2>3, <2>4, <2>7, ExactRounds DEF q
    <3>2. QED
      BY <2>2, <2>5, <2>7, <3>1 DEF Known, q, k, v, r, d
  <2>8. CASE sent = ZERO /\ ~Fits(v, q)
    <3>1. (2 * Max96 + 1) * POWERS[q] <= 2 * Read(k)
      BY <1>2, <2>3, <2>8, RoundedNone
    <3>2. TooLargeToRead(Whole(wire.digits))
      BY <1>1, <1>2, <3>1, RefusedLarge DEF q
    <3>3. QED
      BY <2>2, <2>5, <2>8, <3>2 DEF q, k, v, d
  <2>9. QED
    BY <2>6, <2>7, <2>8
<1>7. CASE sent = ZERO /\ Frozen([m |-> m, s |-> s], i)
  <2> DEFINE U == POWERS[pl - s]
             P == POWERS[q - s]
  <2>1. s < pl
    BY <1>7 DEF Frozen, pl
  <2>2. s \in 0..pl /\ s < q /\ s <= q
    BY <1>2, <1>4, <2>1
  <2>3. U \in Nat /\ P = U * G /\ P \in Nat
    BY <1>2, <2>2, GapGrows
  <2>4. U >= Ten
    BY <1>2, <2>1, <2>2, GapBelow
  <2> HIDE DEF U, P, G
  <2>5. 2 * d < P
    <3>1. 3 * G <= U * G
      BY <1>4, <2>3, <2>4, MulMono
    <3>2. QED
      BY <1>2, <1>4, <2>3, <3>1
  <2>6. Fits(v, q) /\ r.m \in Mantissa /\ r.s \in 0..MAX_SCALE /\ Frozen([m |-> r.m, s |-> r.s], i + 1)
    BY <1>1, <1>2, <1>7, <2>2, <2>5, FrozenKept DEF P
  <2> HIDE DEF v, r
  <2>7. QED
    BY <1>7, <2>2, <2>3, <2>6 DEF Known, P, q, k, v, r, d
<1>8. QED
  BY <1>5, <1>6, <1>7 DEF Known

\* The group behind the last place there is, at least half of it.
LEMMA FractionUp ==
    ASSUME PostgresTypeOK, wire \in Numerics, sent = ZERO,
           NEW i \in Nat, i < Len(wire.digits), wire.weight + 1 <= i, PlacesRead(i) = MAX_SCALE,
           ~(wire.digits[i + 1] < GroupBase \div 2),
           NEW m \in Mantissa, NEW s \in 0..MAX_SCALE, Known(m, s, i)
    PROVE  LET v == m * POWERS[MAX_SCALE - s] + 1
               r == Rounded(v, MAX_SCALE)
           IN  /\ POWERS[MAX_SCALE - s] \in Nat
               /\ Fits(v, MAX_SCALE) /\ r.m \in Mantissa /\ r.s \in 0..MAX_SCALE /\ Known(r.m, r.s, i + 1)
<1> DEFINE P == POWERS[MAX_SCALE - s]
           v == m * P + 1
           r == Rounded(v, MAX_SCALE)
<1>1. MAX_SCALE \in Nat /\ MAX_SCALE \in 0..PowLimit /\ s \in Nat /\ s <= MAX_SCALE /\ PowLimit \in Nat /\ Ten \in Nat /\ Ten > 2
  BY GroupFacts
<1>2. P \in Nat
  <2> DEFINE j == MAX_SCALE - s
  <2>1. j \in 0..PowLimit
    BY <1>1
  <2> HIDE DEF j
  <2>2. POWERS[j] \in Nat
    BY <2>1, PowersType
  <2>3. QED
    BY <2>2 DEF j
<1>3. ~Halved([m |-> m, s |-> s], i)
  BY <1>1 DEF Halved
<1>4. CASE Exact([m |-> m, s |-> s], i)
  <2>1. /\ Fits(v, MAX_SCALE) /\ r.m \in Mantissa /\ r.s \in 0..MAX_SCALE
        /\ Halved([m |-> r.m, s |-> r.s], i + 1) \/ Frozen([m |-> r.m, s |-> r.s], i + 1)
    BY <1>4, ExactUp
  <2> HIDE DEF r
  <2>2. Known(r.m, r.s, i + 1)
    BY <2>1 DEF Known
  <2>3. QED
    BY <1>2, <2>1, <2>2 DEF r
<1>5. CASE Frozen([m |-> m, s |-> s], i)
  <2>1. s < MAX_SCALE
    BY <1>5 DEF Frozen
  <2>2. P >= Ten
    BY <1>1, <2>1, GapBelow
  <2>3. 2 * 1 < P /\ 1 \in Nat
    <3> HIDE DEF P
    <3>1. QED
      BY <1>1, <1>2, <2>2
  <2>4. Fits(v, MAX_SCALE) /\ r.m \in Mantissa /\ r.s \in 0..MAX_SCALE /\ Frozen([m |-> r.m, s |-> r.s], i + 1)
    BY <1>1, <1>5, <2>1, <2>3, FrozenKept
  <2> HIDE DEF r
  <2>5. Known(r.m, r.s, i + 1)
    BY <2>4 DEF Known
  <2>6. QED
    BY <1>2, <2>4, <2>5 DEF r
<1>6. QED
  BY <1>3, <1>4, <1>5 DEF Known

\* Groups that add nothing.
LEMMA FractionNothing ==
    ASSUME PostgresTypeOK, wire \in Numerics, sent = ZERO,
           NEW i \in Nat, i < Len(wire.digits), wire.weight + 1 <= i,
           \/ PlacesRead(i) > MAX_SCALE
           \/ PlacesRead(i) = MAX_SCALE /\ wire.digits[i + 1] < GroupBase \div 2,
           NEW m \in Mantissa, NEW s \in 0..MAX_SCALE, Known(m, s, i)
    PROVE  Known(m, s, i + 1)
<1>1. CASE Exact([m |-> m, s |-> s], i)
  <2>1. PlacesRead(i) <= MAX_SCALE
    BY <1>1 DEF Exact
  <2>2. PlacesRead(i) \in Nat /\ MAX_SCALE \in Nat
    BY NextGroup, GroupFacts
  <2>3. PlacesRead(i) = MAX_SCALE /\ wire.digits[i + 1] < GroupBase \div 2
    BY <2>1, <2>2
  <2>4. Halved([m |-> m, s |-> s], i + 1)
    BY <1>1, <2>3, ExactHalves
  <2>5. QED
    BY <2>4 DEF Known
<1>2. CASE Frozen([m |-> m, s |-> s], i)
  BY <1>2, FrozenNext DEF Known
<1>3. CASE Halved([m |-> m, s |-> s], i)
  BY <1>3, HalvedNext DEF Known
<1>4. QED
  BY <1>1, <1>2, <1>3 DEF Known

\* What the next group makes of the number read.
LEMMA FractionNext ==
    ASSUME PostgresInv, qpc = "fraction", group < Len(wire.digits)
    PROVE  LET sum == SumOf(got, Addend)
               r == Rounded(sum.v, sum.s)
           IN  /\ PowerSent < 0 /\ wire.weight + 1 <= group
               /\ \/ Fits(sum.v, sum.s) /\ r.m \in Mantissa /\ r.s \in 0..MAX_SCALE /\ Known(r.m, r.s, group + 1)
                  \/ ~Fits(sum.v, sum.s) /\ sent = ZERO /\ TooLargeToRead(Whole(wire.digits))
<1> DEFINE i == group
           k == i + 1
           d == wire.digits[k]
           q == PlacesRead(k)
           m == got.m
           s == got.s
           a == Addend
           sum == SumOf(got, a)
           r == Rounded(sum.v, sum.s)
<1>1. PostgresTypeOK /\ WirePart /\ ReadPart /\ qpc \notin {"idle", "to", "groups"}
  BY DEF PostgresInv
<1>2. wire \in Numerics
  BY <1>1 DEF WirePart
<1>3. m \in Nat /\ m \in Mantissa /\ s \in 0..MAX_SCALE /\ s \in Nat /\ i \in Nat /\ Len(wire.digits) \in Nat /\ wire.weight \in Int
      /\ PowerSent \in Int
  BY <1>1, <1>2, WireFacts, BaseType, GroupFacts DEF Mantissa
<1>4. PowerSent < 0 /\ wire.weight + 1 <= i
      /\ (Exact(got, i) \/ (sent = ZERO /\ (Frozen(got, i) \/ Halved(got, i))))
  <2>1. ~(PowerSent >= 0)
    BY <1>1, <1>3 DEF ReadPart
  <2>2. PowerSent < 0
    BY <1>3, <2>1
  <2>3. i >= wire.weight + 1
    BY <1>1, <2>2 DEF ReadPart
  <2>4. wire.weight + 1 <= i
    BY <1>3, <2>3
  <2>5. QED
    BY <1>1, <2>2, <2>4 DEF ReadPart
<1>5. Known(m, s, i)
  BY <1>4 DEF Known, Exact, Frozen, Halved
<1>6. MAX_SCALE \in Nat /\ GroupDigits \in Nat /\ GroupDigits >= 1 /\ GroupBase \in Nat
  BY GroupFacts
<1>7. /\ PlacesRead(i) \in Nat /\ q \in 0..PowLimit /\ q \in Nat /\ q = PlacesRead(i) + GroupDigits
      /\ d \in Nat /\ k \in 0..Len(wire.digits) /\ wire.weight + 1 <= k
  <2>1. PlacesRead(i) \in Nat /\ q \in 0..PowLimit /\ q = PlacesRead(i) + GroupDigits
        /\ d \in Nat /\ k \in 0..Len(wire.digits) /\ wire.weight + 1 <= k
    BY <1>1, <1>2, <1>3, <1>4, NextGroup
  <2> HIDE DEF q
  <2>2. q \in Nat
    BY <2>1
  <2>3. QED
    BY <2>1, <2>2
<1>8. Place = q
  <2>1. group + 1 - (wire.weight + 1) = k - (wire.weight + 1)
    BY <1>3
  <2>2. QED
    BY <2>1 DEF Place, PlacesRead
<1>9. a = IF q <= MAX_SCALE THEN [m |-> d, s |-> q]
          ELSE IF q = MAX_SCALE + GroupDigits /\ d >= GroupBase \div 2 THEN [m |-> 1, s |-> MAX_SCALE]
          ELSE [m |-> 0, s |-> 0]
  BY <1>8 DEF Addend
<1> HIDE DEF a
<1>10. CASE q <= MAX_SCALE
  <2> DEFINE v == m * POWERS[q - s] + d
             R == Rounded(v, q)
  <2>1. /\ s <= q /\ POWERS[q - s] \in Nat
        /\ \/ Fits(v, q) /\ R.m \in Mantissa /\ R.s \in 0..MAX_SCALE /\ Known(R.m, R.s, k)
           \/ ~Fits(v, q) /\ sent = ZERO /\ TooLargeToRead(Whole(wire.digits))
    BY <1>1, <1>3, <1>4, <1>5, <1>10, FractionDigits
  <2>2. a = [m |-> d, s |-> q]
    BY <1>9, <1>10
  <2>3. a.m = d /\ a.s = q
    BY <2>2
  <2>4. sum.v = v /\ sum.s = q
    BY <1>3, <1>7, <2>1, <2>3, SumUp
  <2> HIDE DEF v, sum
  <2>5. R = r
    BY <2>4
  <2> HIDE DEF R, r
  <2>6. QED
    BY <1>4, <2>1, <2>4, <2>5 DEF a, sum, r
<1>11. CASE ~(q <= MAX_SCALE)
  <2>1. sent = ZERO
    <3>1. SUFFICES ASSUME sent # ZERO PROVE FALSE
      OBVIOUS
    <3>2. q <= MAX_SCALE
      BY <1>1, <1>7, <3>1, SentExact
    <3>3. QED
      BY <1>11, <3>2
  <2>2. PlacesRead(i) >= MAX_SCALE
    <3>1. q > MAX_SCALE => q >= MAX_SCALE + GroupDigits
      BY <1>1, <1>2, <1>7, PlacesFacts
    <3> HIDE DEF q
    <3>2. QED
      BY <1>6, <1>7, <1>11, <3>1
  <2>3. CASE PlacesRead(i) = MAX_SCALE /\ ~(d < GroupBase \div 2)
    <3> DEFINE v == m * POWERS[MAX_SCALE - s] + 1
               R == Rounded(v, MAX_SCALE)
    <3>1. /\ POWERS[MAX_SCALE - s] \in Nat
          /\ Fits(v, MAX_SCALE) /\ R.m \in Mantissa /\ R.s \in 0..MAX_SCALE /\ Known(R.m, R.s, k)
      BY <1>1, <1>2, <1>3, <1>4, <1>5, <2>1, <2>3, FractionUp
    <3>2. d >= GroupBase \div 2 /\ q = MAX_SCALE + GroupDigits
      <4>1. GroupBase \div 2 \in Int
        BY <1>6
      <4> HIDE DEF d, q
      <4>2. QED
        BY <1>7, <2>3, <4>1
    <3>3. a.m = 1 /\ a.s = MAX_SCALE
      BY <1>9, <1>11, <3>2
    <3>4. s <= MAX_SCALE
      BY <1>3, <1>6
    <3>5. sum.v = v /\ sum.s = MAX_SCALE
      <4>1. POWERS[a.s - s] \in Nat /\ m * POWERS[a.s - s] + a.m = v
        BY <3>1, <3>3
      <4>2. a.m \in Nat /\ a.s \in Nat /\ s <= a.s
        BY <1>6, <3>3, <3>4
      <4>3. sum.v = m * POWERS[a.s - s] + a.m /\ sum.s = a.s
        BY <1>3, <4>1, <4>2, SumUp
      <4>4. QED
        BY <3>3, <4>1, <4>3
    <3> HIDE DEF v, sum
    <3>6. R = r
      BY <3>5
    <3> HIDE DEF R, r
    <3>7. QED
      BY <1>4, <3>1, <3>5, <3>6 DEF a, sum, r
  <2>4. CASE ~(PlacesRead(i) = MAX_SCALE /\ ~(d < GroupBase \div 2))
    <3>1. PlacesRead(i) > MAX_SCALE \/ (PlacesRead(i) = MAX_SCALE /\ d < GroupBase \div 2)
      BY <1>6, <1>7, <2>2, <2>4
    <3>2. Known(m, s, k)
      BY <1>1, <1>2, <1>3, <1>4, <1>5, <2>1, <3>1, FractionNothing
    <3>3. a = [m |-> 0, s |-> 0]
      <4>1. ~(q = MAX_SCALE + GroupDigits /\ d >= GroupBase \div 2)
        <5>1. GroupBase \div 2 \in Int
          BY <1>6
        <5> HIDE DEF d, q
        <5>2. QED
          BY <1>6, <1>7, <3>1, <5>1
      <4>2. QED
        BY <1>9, <1>11, <4>1
    <3>4. sum.v = m /\ sum.s = s
      BY <1>3, <3>3, SumNone
    <3>5. Fits(m, s) /\ Rounded(m, s).m = m /\ Rounded(m, s).s = s
      BY <1>3, KeptAll
    <3> HIDE DEF sum
    <3>6. Fits(sum.v, sum.s) /\ r.m = m /\ r.s = s
      BY <3>4, <3>5
    <3> HIDE DEF r
    <3>7. QED
      BY <1>3, <1>4, <3>2, <3>6 DEF a, sum, r
  <2>5. QED
    BY <2>3, <2>4
<1>12. QED
  BY <1>10, <1>11

\* A group after the point is read.
LEMMA FractionStep == ASSUME PostgresInv, FractionGroup PROVE PostgresInv'
<1> DEFINE sum == SumOf(got, Addend)
           r == Rounded(sum.v, sum.s)
<1>1. qpc = "fraction" /\ group < Len(wire.digits) /\ PostgresTypeOK /\ qpc \notin {"idle", "to", "groups"}
      /\ WirePart /\ ReadPart
  BY DEF PostgresInv, FractionGroup
<1>2. /\ PowerSent < 0 /\ wire.weight + 1 <= group
      /\ \/ Fits(sum.v, sum.s) /\ r.m \in Mantissa /\ r.s \in 0..MAX_SCALE /\ Known(r.m, r.s, group + 1)
         \/ ~Fits(sum.v, sum.s) /\ sent = ZERO /\ TooLargeToRead(Whole(wire.digits))
  BY <1>1, FractionNext
<1>3. wire \in Numerics
  BY <1>1 DEF WirePart
<1>4. group \in Nat /\ Len(wire.digits) \in Nat /\ wire.weight \in Int /\ PowerSent \in Int
  BY <1>1, <1>3, WireFacts
<1>5. CASE ~Fits(sum.v, sum.s) /\ sent = ZERO /\ TooLargeToRead(Whole(wire.digits))
  <2>1. Answer("refused")
    BY <1>5 DEF FractionGroup
  <2>2. QED
    BY <1>1, <1>5, <2>1, RefusedStep
<1>6. CASE Fits(sum.v, sum.s) /\ r.m \in Mantissa /\ r.s \in 0..MAX_SCALE /\ Known(r.m, r.s, group + 1)
  <2>1. got' = Positive(r) /\ group' = group + 1 /\ UNCHANGED <<sent, wire, mantissa4, qpc>>
    BY <1>6 DEF FractionGroup
  <2> HIDE DEF r
  <2>2. got' = [neg |-> FALSE, m |-> r.m, s |-> r.s]
    BY <2>1 DEF Positive
  <2>3. got' \in Decimal
    BY <1>6, <2>2 DEF Decimal
  <2>4. group' \in Nat /\ group' <= Len(wire.digits) /\ group' >= wire.weight + 1
    BY <1>1, <1>2, <1>4, <2>1
  <2>5. PostgresTypeOK'
    BY <1>1, <2>1, <2>3, <2>4 DEF PostgresTypeOK
  <2>6. SendPart' /\ WirePart'
    BY <1>1, <2>1, WireKept
  <2>7. PostgresKeeps'
    BY <1>1, <2>1 DEF PostgresKeeps
  <2>8. (Exact(got, group) \/ (sent = ZERO /\ (Frozen(got, group) \/ Halved(got, group))))'
    <3>1. got'.m = r.m /\ got'.s = r.s /\ wire' = wire /\ sent' = sent
      BY <2>1, <2>2
    <3>2. CASE Exact([m |-> r.m, s |-> r.s], group + 1)
      BY <2>1, <3>1, <3>2 DEF Exact, PlacesRead, Read
    <3>3. CASE sent = ZERO /\ Frozen([m |-> r.m, s |-> r.s], group + 1)
      BY <2>1, <3>1, <3>3 DEF Frozen, PlacesRead, Read
    <3>4. CASE sent = ZERO /\ Halved([m |-> r.m, s |-> r.s], group + 1)
      BY <2>1, <3>1, <3>4 DEF Halved, PlacesRead, Read
    <3>5. QED
      BY <1>6, <3>2, <3>3, <3>4 DEF Known
  <2>9. ReadPart'
    <3>1. wire' = wire /\ PowerSent' = PowerSent /\ qpc' = qpc
      BY <2>1 DEF PowerSent
    <3>2. ~Receiving'
      BY <1>1, <3>1 DEF Receiving
    <3>3. ~(PowerSent' >= 0)
      BY <1>2, <1>4, <3>1
    <3>4. ~got'.neg
      BY <2>2
    <3>5. (group <= Len(wire.digits))' /\ (group >= wire.weight + 1)'
      BY <2>4, <3>1
    <3>6. QED
      BY <2>8, <3>2, <3>3, <3>4, <3>5 DEF ReadPart
  <2>10. QED
    BY <2>5, <2>6, <2>7, <2>9 DEF PostgresInv
<1>7. QED
  BY <1>2, <1>5, <1>6

\* Rescaling to fewer places rounds to half a unit.
LEMMA FewerPlaces ==
    ASSUME NEW d, d.m \in Mantissa, d.s \in 0..MAX_SCALE, NEW t \in 0..MAX_SCALE, t <= d.s
    PROVE  LET x == Rescaled(d, t)
               D == POWERS[d.s - t]
           IN  /\ x.s = t /\ x.m \in Mantissa /\ x.m \in Nat /\ D \in Nat /\ D >= 1
               /\ 2 * (x.m * D - d.m) <= D /\ 2 * (d.m - x.m * D) <= D
               /\ D = 1 => x.m = d.m
               /\ \A c \in Nat : d.m = c * D => x.m = c
<1> DEFINE m == d.m
           j == d.s - t
           D == POWERS[j]
           h == D \div 2
           a == m + h
           y == a \div D
           r == a % D
<1>1. m \in Nat /\ m <= Max96 /\ Max96 \in Nat /\ j \in 0..PowLimit
  BY BaseType, GroupFacts DEF Mantissa
<1>2. Rescaled(d, t) = [m |-> y, s |-> t]
  BY DEF Rescaled
<1> HIDE DEF m, j
<1>3. D \in Nat /\ D >= 1 /\ (D = 1 \/ D % 2 = 0)
  <2>1. D \in Nat /\ D >= 1 /\ (j >= 1 => D % 2 = 0)
    BY <1>1, PowersType
  <2>2. j = 0 => D = 1
    BY PowersAssumption
  <2>3. j = 0 \/ j >= 1
    BY <1>1, GroupFacts
  <2>4. QED
    BY <2>1, <2>2, <2>3
<1> HIDE DEF D
<1>4. h \in Nat /\ 2 * h <= D /\ h < D /\ (D = 1 => h = 0)
  BY <1>3
<1> HIDE DEF h
<1>5. a \in Nat
  BY <1>1, <1>4
<1>6. y \in Nat /\ r \in Nat /\ r < D /\ a = y * D + r
  <2> HIDE DEF a
  <2>1. QED
    BY <1>3, <1>5, DivMod
<1>7. D = 1 => y = m
  <2>1. SUFFICES ASSUME D = 1 PROVE y = m
    OBVIOUS
  <2>2. a = m /\ h = 0
    BY <1>1, <1>4, <2>1
  <2> HIDE DEF a
  <2>3. a \div 1 = a
    BY <1>5
  <2>4. QED
    BY <2>1, <2>2, <2>3
<1> HIDE DEF y, r
<1> DEFINE z == y * D
<1>8. z \in Nat /\ m + h = z + r
  BY <1>3, <1>6
<1> HIDE DEF z
<1>9. 2 * (z - m) <= D /\ 2 * (m - z) <= D
  <2>1. CASE D = 1
    <3>1. h = 0 /\ r = 0
      BY <1>4, <1>6, <2>1
    <3>2. QED
      BY <1>1, <1>3, <1>8, <3>1
  <2>2. CASE D % 2 = 0
    <3>1. 2 * h = D
      BY <1>3, <2>2 DEF h
    <3>2. QED
      BY <1>1, <1>3, <1>4, <1>6, <1>8, <3>1
  <2>3. QED
    BY <1>3, <2>1, <2>2
<1>10. \A c \in Nat : m = c * D => y = c
  <2>1. SUFFICES ASSUME NEW c \in Nat, m = c * D PROVE y = c
    OBVIOUS
  <2>2. a = c * D + h
    BY <2>1
  <2>3. a \div D = c
    <3> HIDE DEF a
    <3>1. QED
      BY <1>3, <1>4, <1>5, <2>2, QuotientUnique
  <2>4. QED
    BY <2>3 DEF y
<1>11. y <= Max96
  <2>1. CASE D = 1
    BY <1>1, <1>7, <2>1
  <2>2. CASE D # 1
    <3>1. D >= 2
      BY <1>3, <2>2
    <3>2. 2 * y <= D * y
      BY <1>6, <1>3, <3>1, MulMono
    <3>3. D * y = y * D
      BY <1>3, <1>6
    <3>4. 2 * y <= z
      BY <3>2, <3>3 DEF z
    <3>5. SUFFICES ASSUME y > Max96 PROVE FALSE
      BY <1>1, <1>6
    <3>6. y >= m + 1
      BY <1>1, <1>6, <3>5
    <3> DEFINE y1 == y - 1
    <3>7. 2 * y1 <= D * y1 /\ D * y1 = D * y - D /\ y1 \in Nat
      <4>1. y1 \in Nat
        BY <1>1, <1>6, <3>6
      <4>2. D * y1 = D * y - D
        BY <1>3, <1>6
      <4> HIDE DEF y1
      <4>3. 2 * y1 <= D * y1
        BY <1>3, <3>1, <4>1, MulMono
      <4>4. QED
        BY <4>1, <4>2, <4>3
    <3>8. D * y = z
      BY <3>3 DEF z
    <3>9. 2 * (y - 1) <= z - D
      BY <1>3, <1>8, <3>7, <3>8
    <3>10. QED
      BY <1>1, <1>3, <1>4, <1>6, <1>8, <3>1, <3>6, <3>9
  <2>3. QED
    BY <2>1, <2>2
<1>12. y \in Mantissa
  BY <1>1, <1>6, <1>11, BaseType DEF Mantissa
<1>13. QED
  BY <1>2, <1>3, <1>6, <1>7, <1>9, <1>10, <1>12 DEF m, D, j, z

\* Rescaling to more places adds as many as fit.
LEMMA MorePlaces ==
    ASSUME NEW d, d.m \in Mantissa, d.s \in 0..MAX_SCALE, NEW t \in 0..MAX_SCALE, ~(t <= d.s)
    PROVE  LET x == Rescaled(d, t)
           IN  \E k \in 0..(t - d.s) :
                  /\ x.s = d.s + k /\ x.m = d.m * POWERS[k] /\ x.m \in Mantissa
                  /\ k \in 0..MAX_SCALE /\ x.s \in 0..t /\ x.s \in 0..MAX_SCALE
                  /\ x.s = t \/ (x.s < t /\ k + 1 \in 1..(t - d.s) /\ d.m * POWERS[k + 1] > Max96)
<1> DEFINE n == t - d.s
           m == d.m
           k == CHOOSE k \in 0..n : /\ m * POWERS[k] <= Max96
                                    /\ k = n \/ m * POWERS[k + 1] > Max96
<1>1. /\ n \in Nat /\ n \in 0..MAX_SCALE /\ MAX_SCALE \in Nat /\ t \in Nat /\ d.s \in Nat /\ n \in 0..PowLimit
      /\ PowLimit \in Nat /\ MAX_SCALE <= PowLimit /\ n = t - d.s /\ Max96 \in Nat /\ m \in Nat
  BY GroupFacts, BaseType DEF Mantissa
<1>2. Rescaled(d, t) = [m |-> m * POWERS[k], s |-> d.s + k]
  BY DEF Rescaled
<1> HIDE DEF n, m
<1>3. \E c \in 0..n : m * POWERS[c] <= Max96 /\ (c = n \/ m * POWERS[c + 1] > Max96)
  BY <1>1, LargestFitting DEF m
<1>4. k \in 0..n /\ m * POWERS[k] <= Max96 /\ (k = n \/ m * POWERS[k + 1] > Max96)
  <2> HIDE DEF k
  <2>1. k = CHOOSE c \in 0..n : m * POWERS[c] <= Max96 /\ (c = n \/ m * POWERS[c + 1] > Max96)
    BY DEF k
  <2>2. QED
    BY <1>3, <2>1, Zenon
<1> HIDE DEF k
<1>5. POWERS[k] \in Nat
  <2>1. k \in 0..PowLimit
    BY <1>1, <1>4
  <2>2. QED
    BY <2>1, PowersType
<1>6. m * POWERS[k] \in Mantissa
  <2>1. m * POWERS[k] \in Nat
    BY <1>1, <1>5
  <2>2. QED
    BY <1>1, <1>4, <2>1, BaseType DEF Mantissa
<1>7. d.s + k \in 0..t /\ k \in 0..MAX_SCALE /\ d.s + k \in 0..MAX_SCALE /\ k \in Nat
  BY <1>1, <1>4
<1>8. d.s + k = t \/ (d.s + k < t /\ k + 1 \in 1..n /\ m * POWERS[k + 1] > Max96)
  BY <1>1, <1>4, <1>7
<1>9. QED
  BY <1>2, <1>4, <1>6, <1>7, <1>8 DEF n, m

\* w / Ten^p is m / Ten^s to less than a unit of the last place.
Within(m, s, w, p) ==
    LET common == SmallerOf(s, p)
        d      == w * POWERS[s - common] - m * POWERS[p - common]
    IN  -POWERS[p - common] < d /\ d < POWERS[p - common]

\* To less than a unit: from an approximation with fewer places,
LEMMA WithinBelow ==
    ASSUME NEW m \in Nat, NEW w \in Nat, NEW p \in 0..PowLimit, NEW s \in 0..p,
           m * POWERS[p - s] - w < POWERS[p - s], w - m * POWERS[p - s] < POWERS[p - s]
    PROVE  Within(m, s, w, p)
<1> DEFINE u == POWERS[p - s]
           j == s - s
           x == m * u
<1>1. SmallerOf(s, p) = s
  <2>1. s \in Int /\ p \in Int /\ s <= p
    BY GroupFacts
  <2>2. QED
    BY <2>1 DEF SmallerOf
<1>2. POWERS[j] = 1
  <2>1. j \in Int /\ j <= 0 /\ j >= 0
    BY GroupFacts
  <2> HIDE DEF j
  <2>2. j = 0
    BY <2>1
  <2>3. QED
    BY <2>2, PowersAssumption
<1>3. u \in Nat
  <2> DEFINE k == p - s
  <2>1. k \in 0..PowLimit
    BY GroupFacts
  <2> HIDE DEF k
  <2>2. POWERS[k] \in Nat
    BY <2>1, PowersType
  <2>3. QED
    BY <2>2 DEF k
<1>4. x - w < u /\ w - x < u
  OBVIOUS
<1> HIDE DEF u, j
<1>5. x \in Nat
  BY <1>3
<1> HIDE DEF x
<1>6. -u < w - x /\ w - x < u
  BY <1>3, <1>4, <1>5
<1>7. w * POWERS[j] = w
  BY <1>2
<1>8. QED
  BY <1>1, <1>6, <1>7 DEF Within, u, j, x

\* and from one with more.
LEMMA WithinAbove ==
    ASSUME NEW w \in Nat, NEW p \in Nat, NEW s \in Nat, p < s, NEW m \in Nat, m = w * POWERS[s - p]
    PROVE  Within(m, s, w, p)
<1> DEFINE j == p - p
           u == POWERS[j]
<1>1. SmallerOf(s, p) = p
  BY DEF SmallerOf
<1>2. u = 1
  <2>1. j \in Int /\ j <= 0 /\ j >= 0
    OBVIOUS
  <2> HIDE DEF j
  <2>2. j = 0
    BY <2>1
  <2>3. QED
    BY <2>2, PowersAssumption
<1> HIDE DEF u
<1>3. m * u = m
  BY <1>2
<1>4. -u < m - m * u /\ m - m * u < u
  BY <1>2, <1>3
<1>5. QED
  BY <1>1, <1>4 DEF Within, u

\* What is known of the whole number is less than a unit off.
LEMMA KnownNear ==
    ASSUME PostgresTypeOK, wire \in Numerics, wire.weight + 1 <= Len(wire.digits),
           NEW m \in Mantissa, NEW s \in 0..MAX_SCALE, Known(m, s, Len(wire.digits))
    PROVE  LET e == -PowerSent
               W == Whole(wire.digits)
               U == POWERS[e - s]
           IN  /\ e \in 0..PowLimit /\ s \in 0..e /\ W \in Nat /\ U \in Nat /\ U >= 1
               /\ m * U - W < U /\ W - m * U < U
               /\ \/ m * U = W
                  \/ sent = ZERO /\ m * Ten > Max96
                  \/ /\ sent = ZERO /\ e > MAX_SCALE
                     /\ 2 * (m * U - W) <= POWERS[e - MAX_SCALE] /\ 2 * (W - m * U) <= POWERS[e - MAX_SCALE]
<1> DEFINE L == Len(wire.digits)
           e == -PowerSent
           W == Whole(wire.digits)
           pl == PlacesRead(L)
           U == POWERS[e - s]
           V == POWERS[e - s - 1]
           E == POWERS[e - MAX_SCALE]
           x == m * U
<1>1. L \in Nat /\ L \in 0..L /\ W = Read(L) /\ W \in Nat
  <2>1. L \in Nat
    BY WireFacts
  <2>2. L \in 0..L
    BY <2>1
  <2>3. QED
    BY <2>1, <2>2, WireFacts
<1>2. e = pl /\ e \in 0..PowLimit /\ e \in Nat /\ PowLimit \in Nat
  <2>1. e = pl + GroupDigits * (L - L) /\ pl \in Nat /\ e \in 0..PowLimit
    BY <1>1, PlacesFacts
  <2>2. GroupDigits * (L - L) = 0
    <3>1. L - L = 0
      BY <1>1
    <3>2. QED
      BY <3>1, GroupFacts
  <2> DEFINE y == GroupDigits * (L - L)
  <2>3. y = 0 /\ e = pl + y
    BY <2>1, <2>2
  <2> HIDE DEF e, y, pl
  <2>4. QED
    BY <2>1, <2>3, GroupFacts
<1> HIDE DEF e, W, pl
<1>3. m \in Nat /\ s \in Nat /\ MAX_SCALE \in Nat /\ s <= MAX_SCALE /\ Ten \in Nat /\ Ten > 2 /\ Ten % 2 = 0
  BY GroupFacts, BaseType DEF Mantissa
<1>4. s <= e
  <2>1. CASE Exact([m |-> m, s |-> s], L)
    BY <1>2, <2>1 DEF Exact, pl
  <2>2. CASE Frozen([m |-> m, s |-> s], L)
    BY <1>2, <1>3, <2>2 DEF Frozen, pl
  <2>3. CASE Halved([m |-> m, s |-> s], L)
    BY <1>2, <1>3, <2>3 DEF Halved, pl
  <2>4. QED
    BY <2>1, <2>2, <2>3 DEF Known
<1>5. s \in 0..e
  BY <1>2, <1>3, <1>4
<1>6. U \in Nat /\ U >= 1
  <2> DEFINE k == e - s
  <2>1. k \in 0..PowLimit
    BY <1>2, <1>5
  <2> HIDE DEF k
  <2>2. POWERS[k] \in Nat /\ POWERS[k] >= 1
    BY <2>1, PowersType
  <2>3. QED
    BY <2>2 DEF k
<1>7. x \in Nat
  <2> HIDE DEF U
  <2>1. QED
    BY <1>3, <1>6
<1>8. CASE Exact([m |-> m, s |-> s], L)
  <2>1. x = W
    BY <1>1, <1>2, <1>8 DEF Exact, pl
  <2> HIDE DEF x, U
  <2>2. x - W < U /\ W - x < U
    BY <1>1, <1>6, <1>7, <2>1
  <2>3. QED
    BY <1>1, <1>2, <1>5, <1>6, <2>1, <2>2 DEF x, U, e, W
<1>9. CASE sent = ZERO /\ Frozen([m |-> m, s |-> s], L)
  <2>1. m * Ten > Max96 /\ s < e /\ 2 * (x - W) <= U + 2 * V /\ 2 * ((W + 1) - x) <= U + 2 * V
    BY <1>1, <1>2, <1>9 DEF Frozen, pl
  <2>2. V \in Nat /\ V >= 1 /\ U = V * Ten
    BY <1>2, <1>5, <2>1, GapBelow
  <2> HIDE DEF x, U, V
  <2>3. 2 * V < U
    <3>1. 3 * V <= Ten * V /\ Ten * V = V * Ten
      BY <1>3, <2>2, MulMono
    <3>2. 3 * V <= U
      BY <2>2, <3>1
    <3>3. QED
      BY <1>6, <2>2, <3>2
  <2>4. x - W < U /\ W - x < U
    BY <1>1, <1>6, <1>7, <2>1, <2>2, <2>3, SMTT(30)
  <2>5. QED
    BY <1>1, <1>2, <1>5, <1>6, <1>9, <2>1, <2>4 DEF x, U, e, W
<1>10. CASE sent = ZERO /\ Halved([m |-> m, s |-> s], L)
  <2>1. e > MAX_SCALE /\ 2 * (x - W) <= E /\ 2 * ((W + 1) - x) <= E
    BY <1>1, <1>2, <1>10 DEF Halved, pl
  <2>2. E \in Nat /\ E <= U
    <3> DEFINE j == e - MAX_SCALE
               k == e - s
    <3>1. j \in 0..PowLimit /\ k \in 0..PowLimit /\ j <= k
      BY <1>2, <1>3, <1>5, <2>1
    <3> HIDE DEF j, k
    <3>2. POWERS[j] \in Nat /\ POWERS[j] <= POWERS[k]
      BY <3>1, PowersType, PowersMono
    <3>3. QED
      BY <3>2 DEF j, k
  <2> HIDE DEF x, U, E
  <2>3. x - W < U /\ W - x < U /\ 2 * (x - W) <= E /\ 2 * (W - x) <= E
    BY <1>1, <1>6, <1>7, <2>1, <2>2, SMTT(30)
  <2>4. QED
    BY <1>1, <1>2, <1>5, <1>6, <1>10, <2>1, <2>3 DEF x, U, E, e, W
<1>11. QED
  BY <1>8, <1>9, <1>10 DEF Known

\* The number that is read and rescaled is less than a unit of its last place off.
LEMMA ReadClose ==
    ASSUME PostgresTypeOK, wire \in Numerics, wire.weight + 1 <= Len(wire.digits),
           NEW d, d.m \in Mantissa, d.s \in 0..MAX_SCALE, Known(d.m, d.s, Len(wire.digits)), NEW t \in 0..MAX_SCALE
    PROVE  Within(Rescaled(d, t).m, Rescaled(d, t).s, Whole(wire.digits), -PowerSent)
<1> DEFINE e == -PowerSent
           W == Whole(wire.digits)
           m == d.m
           s == d.s
           U == POWERS[e - s]
           x == Rescaled(d, t)
           a == m * U
<1>1. /\ e \in 0..PowLimit /\ s \in 0..e /\ W \in Nat /\ U \in Nat /\ U >= 1
      /\ a - W < U /\ W - a < U
      /\ \/ a = W
         \/ sent = ZERO /\ m * Ten > Max96
         \/ sent = ZERO /\ e > MAX_SCALE /\ 2 * (a - W) <= POWERS[e - MAX_SCALE] /\ 2 * (W - a) <= POWERS[e - MAX_SCALE]
  BY KnownNear
<1>2. /\ m \in Nat /\ m \in Mantissa /\ s \in Nat /\ s \in 0..MAX_SCALE /\ t \in Nat /\ MAX_SCALE \in Nat /\ PowLimit \in Nat
      /\ MAX_SCALE <= PowLimit /\ Max96 \in Nat /\ Ten \in Nat
  BY GroupFacts, BaseType DEF Mantissa
<1> HIDE DEF e, W
<1>3. e \in Nat /\ s <= e
  <2> HIDE DEF s
  <2>1. QED
    BY <1>1, <1>2
<1>4. CASE t <= s
  <2> DEFINE D == POWERS[s - t]
             y == x.m
             z == y * D
             P == POWERS[e - t]
  <2>1. /\ x.s = t /\ y \in Mantissa /\ y \in Nat /\ D \in Nat /\ D >= 1
        /\ 2 * (z - m) <= D /\ 2 * (m - z) <= D
        /\ D = 1 => y = m
    BY <1>2, <1>4, FewerPlaces
  <2>2. P = D * U /\ e - t \in 0..PowLimit /\ t \in 0..e
    <3> DEFINE j == s - t
               k == e - s
               l == e - t
    <3>1. j \in 0..PowLimit /\ k \in 0..PowLimit /\ l \in 0..PowLimit /\ j + k = l /\ j + k <= PowLimit /\ t <= e
      <4> HIDE DEF s
      <4>1. QED
        BY <1>1, <1>2, <1>3, <1>4
    <3> HIDE DEF j, k, l
    <3>2. POWERS[j + k] = POWERS[j] * POWERS[k]
      BY <3>1, PowersAdd
    <3>3. t \in 0..e
      BY <1>2, <1>3, <3>1
    <3>4. QED
      BY <3>1, <3>2, <3>3 DEF j, k, l
  <2> HIDE DEF D, P, U, y, x, m
  <2>3. z \in Nat /\ a \in Nat /\ P \in Nat /\ y * P = z * U
    <3>1. z \in Nat /\ a \in Nat /\ P \in Nat
      BY <1>1, <1>2, <2>1, <2>2
    <3>2. y * (D * U) = (y * D) * U
      BY <1>1, <2>1
    <3>3. QED
      BY <2>2, <3>1, <3>2
  <2>4. z * U - W < P /\ W - z * U < P
    <3>1. CASE D = 1
      <4>1. z = m /\ P = U
        BY <1>1, <1>2, <2>1, <2>2, <3>1
      <4>2. z * U = a
        BY <4>1
      <4>3. QED
        BY <1>1, <4>1, <4>2
    <3>2. CASE D # 1
      <4>1. D >= 2
        BY <2>1, <3>2
      <4> DEFINE f == 2 * (z - m)
                 g == 2 * (m - z)
                 b == z * U
      <4>2. f * U <= D * U /\ g * U <= D * U
        <5> HIDE DEF z
        <5>1. f \in Int /\ g \in Int /\ D \in Int /\ f <= D /\ g <= D
          BY <1>2, <2>1, <2>3
        <5> HIDE DEF f, g
        <5>2. QED
          BY <1>1, <5>1, MulMono
      <4>3. f * U = 2 * (b - a) /\ g * U = 2 * (a - b)
        <5> HIDE DEF z
        <5>1. f * U = 2 * ((z - m) * U) /\ g * U = 2 * ((m - z) * U)
          BY <1>1, <1>2, <2>3
        <5>2. (z - m) * U = z * U - m * U /\ (m - z) * U = m * U - z * U
          BY <1>1, <1>2, <2>3, Distribute
        <5>3. QED
          BY <5>1, <5>2
      <4>4. 2 * U <= D * U
        BY <1>1, <2>1, <4>1, MulMono
      <4>5. b \in Int
        <5> HIDE DEF z
        <5>1. QED
          BY <1>1, <2>3
      <4> HIDE DEF f, g, b, a, z
      <4>6. 2 * (b - a) <= P /\ 2 * (a - b) <= P /\ 2 * U <= P
        BY <2>2, <4>2, <4>3, <4>4
      <4>7. b - W < P /\ W - b < P
        BY <1>1, <2>3, <4>5, <4>6
      <4>8. QED
        BY <4>7 DEF b
    <3>3. QED
      BY <3>1, <3>2
  <2>5. y * P - W < P /\ W - y * P < P
    BY <2>3, <2>4
  <2>6. Within(y, t, W, e)
    BY <1>1, <2>1, <2>2, <2>5, WithinBelow DEF P
  <2>7. QED
    BY <2>1, <2>6 DEF y, W, e, x
<1>5. CASE ~(t <= s)
  <2>1. PICK k \in 0..(t - s) :
            /\ x.s = s + k /\ x.m = m * POWERS[k] /\ x.m \in Mantissa
            /\ k \in 0..MAX_SCALE /\ x.s \in 0..t /\ x.s \in 0..MAX_SCALE
            /\ x.s = t \/ (x.s < t /\ k + 1 \in 1..(t - s) /\ m * POWERS[k + 1] > Max96)
    BY <1>2, <1>5, MorePlaces
  <2> DEFINE q == x.s
             y == x.m
             C == POWERS[k]
  <2> HIDE DEF x
  <2>2. q \in Nat /\ k \in Nat /\ y \in Nat /\ k \in 0..PowLimit /\ q <= MAX_SCALE
    <3>1. y \in Nat
      BY <2>1, BaseType DEF Mantissa
    <3> HIDE DEF s, m
    <3>2. QED
      BY <1>2, <2>1, <3>1
  <2>3. C \in Nat /\ C >= 1 /\ y = m * C /\ q = s + k
    BY <2>1, <2>2, PowersType
  <2> HIDE DEF C, U
  <2>4. CASE q <= e
    <3> DEFINE P == POWERS[e - q]
               j == e - q
               l == e - s
    <3>1. j \in 0..PowLimit /\ k + j = l /\ k + j <= PowLimit /\ q \in 0..e
      <4> HIDE DEF s, q
      <4>1. QED
        BY <1>1, <1>2, <1>3, <2>2, <2>3, <2>4
    <3>2. U = C * P /\ P \in Nat /\ P >= 1
      <4> HIDE DEF j, l
      <4>1. POWERS[k + j] = POWERS[k] * POWERS[j] /\ POWERS[j] \in Nat /\ POWERS[j] >= 1
        BY <2>2, <3>1, PowersAdd, PowersType
      <4>2. QED
        BY <3>1, <4>1 DEF C, U, j, l
    <3> HIDE DEF P
    <3>3. y * P = a
      <4>1. (m * C) * P = m * (C * P)
        BY <1>2, <2>3, <3>2
      <4>2. QED
        BY <2>3, <3>2, <4>1
    <3>4. a \in Nat
      BY <1>1, <1>2, SMTT(30)
    <3>5. a - W < P /\ W - a < P
      <4> HIDE DEF a, m
      <4>1. CASE a = W
        BY <1>1, <3>2, <4>1
      <4>2. CASE m * Ten > Max96
        <5>1. k = 0
          <6>1. SUFFICES ASSUME k # 0 PROVE FALSE
            OBVIOUS
          <6>2. 1 \in 0..PowLimit /\ 1 <= k
            BY <1>2, <2>2, <6>1
          <6>3. POWERS[1] = Ten
            BY <1>2, PowersAssumption
          <6>4. Ten <= C
            BY <2>2, <6>2, <6>3, PowersMono DEF C
          <6>5. Ten * m <= C * m /\ Ten * m = m * Ten /\ C * m = m * C
            BY <1>2, <2>3, <6>4, MulMono
          <6>6. y <= Max96
            BY <2>1, BaseType DEF Mantissa
          <6>7. m * Ten <= y
            BY <2>3, <6>5
          <6>8. m * Ten \in Int
            BY <1>2
          <6> DEFINE w == m * Ten
          <6>9. w <= y /\ w > Max96 /\ y <= Max96 /\ w \in Int
            BY <4>2, <6>6, <6>7, <6>8
          <6> HIDE DEF w, y
          <6>10. QED
            BY <1>2, <2>2, <6>9
        <5>2. C = 1
          BY <5>1, PowersAssumption DEF C
        <5>3. U = P
          BY <3>2, <5>2
        <5>4. QED
          BY <1>1, <5>3
      <4>3. CASE e > MAX_SCALE /\ 2 * (a - W) <= POWERS[e - MAX_SCALE] /\ 2 * (W - a) <= POWERS[e - MAX_SCALE]
        <5> DEFINE E == POWERS[e - MAX_SCALE]
                   i == e - MAX_SCALE
        <5>1. i \in 0..PowLimit /\ i <= j
          <6> HIDE DEF q
          <6>1. QED
            BY <1>1, <1>2, <1>3, <2>2, <4>3
        <5>2. E \in Nat /\ E <= P
          <6> HIDE DEF i, j
          <6>1. POWERS[i] \in Nat /\ POWERS[i] <= POWERS[j]
            BY <3>1, <5>1, PowersType, PowersMono
          <6>2. QED
            BY <6>1 DEF i, j, P
        <5>3. 2 * (a - W) <= E /\ 2 * (W - a) <= E
          BY <4>3
        <5> HIDE DEF E
        <5>4. QED
          BY <1>1, <3>2, <3>4, <5>2, <5>3
      <4>4. QED
        BY <1>1, <4>1, <4>2, <4>3
    <3>6. y * P - W < P /\ W - y * P < P
      BY <3>3, <3>5
    <3>7. Within(y, q, W, e)
      BY <1>1, <2>2, <3>1, <3>6, WithinBelow DEF P
    <3>8. QED
      BY <3>7 DEF y, q, W, e, x
  <2>5. CASE ~(q <= e)
    <3> DEFINE j == q - e
               l == e - s
    <3>1. e <= MAX_SCALE /\ j \in 0..PowLimit /\ l \in 0..PowLimit /\ l + j = k /\ l + j <= PowLimit /\ e < q
      <4> HIDE DEF s, q
      <4>1. QED
        BY <1>1, <1>2, <1>3, <2>2, <2>3, <2>5
    <3>2. C = U * POWERS[j] /\ POWERS[j] \in Nat
      <4> HIDE DEF j, l
      <4>1. POWERS[l + j] = POWERS[l] * POWERS[j]
        BY <3>1, PowersAdd
      <4>2. POWERS[j] \in Nat
        BY <3>1, PowersType
      <4>3. QED
        BY <3>1, <4>1, <4>2 DEF C, U, l
    <3>3. a = W
      <4>1. ~(m * Ten > Max96)
        <5>1. SUFFICES ASSUME m * Ten > Max96 PROVE FALSE
          OBVIOUS
        <5>2. k >= 1
          <6> HIDE DEF s, q
          <6>1. QED
            BY <1>2, <1>3, <2>2, <2>3, <2>5
        <5>3. 1 \in 0..PowLimit
          BY <1>2, <2>2, <5>2
        <5>4. POWERS[1] = Ten
          BY <1>2, PowersAssumption
        <5>5. Ten <= C
          BY <2>2, <5>2, <5>3, <5>4, PowersMono DEF C
        <5> HIDE DEF m
        <5>6. Ten * m <= C * m /\ Ten * m = m * Ten /\ C * m = m * C
          BY <1>2, <2>3, <5>5, MulMono
        <5>7. y <= Max96
          BY <2>1, BaseType DEF Mantissa
        <5>8. m * Ten <= y /\ m * Ten \in Int
          BY <1>2, <2>3, <5>6
        <5> DEFINE w == m * Ten
        <5>9. w <= y /\ w > Max96 /\ w \in Int
          BY <5>1, <5>8
        <5> HIDE DEF w, y
        <5>10. QED
          BY <1>2, <2>2, <5>7, <5>9
      <4>2. ~(e > MAX_SCALE)
        BY <1>2, <1>3, <3>1
      <4>3. QED
        BY <1>1, <4>1, <4>2
    <3> HIDE DEF j, m
    <3>4. y = W * POWERS[j]
      <4>1. m * (U * POWERS[j]) = (m * U) * POWERS[j]
        BY <1>1, <1>2, <3>2
      <4>2. y = m * (U * POWERS[j])
        BY <2>3, <3>2
      <4>3. QED
        BY <3>3, <4>1, <4>2
    <3>5. y = W * POWERS[q - e]
      BY <3>4 DEF j
    <3> HIDE DEF y, q
    <3>6. Within(y, q, W, e)
      BY <1>1, <1>3, <2>2, <3>1, <3>5, WithinAbove
    <3>7. QED
      BY <3>6 DEF y, q, W, e, x
  <2>6. QED
    BY <2>4, <2>5
<1>6. QED
  BY <1>4, <1>5

\* A decimal that was sent comes back.
LEMMA ReturnedBack ==
    ASSUME PostgresTypeOK, WirePart, qpc \notin {"idle", "to", "groups"}, sent # ZERO,
           NEW d, d.m \in Mantissa, d.s \in 0..MAX_SCALE, d.s <= -PowerSent,
           d.m * POWERS[(-PowerSent) - d.s] = Whole(wire.digits)
    PROVE  Back \in Decimal /\ Rescaled(d, Back.s).m = Back.m /\ Rescaled(d, Back.s).s = Back.s
<1> DEFINE e == -PowerSent
           W == Whole(wire.digits)
           m == d.m
           s == d.s
           M == Back.m
           S == Back.s
           U == POWERS[e - s]
           x == Rescaled(d, S)
           A == POWERS[s]
           B == POWERS[S]
<1>1. wire \in Numerics /\ e <= MAX_SCALE /\ W * B = M * POWERS[e] /\ m * U = W /\ s <= e
  BY DEF WirePart
<1>2. W \in Nat /\ e \in Int
  <2>1. Len(wire.digits) \in 0..Len(wire.digits)
    BY <1>1, WireFacts
  <2>2. W \in Nat /\ PowerSent \in Int
    BY <1>1, <2>1, WireFacts
  <2>3. QED
    BY <2>2
<1> HIDE DEF e, W
<1>3. Back \in Decimal
  BY ZeroType DEF Back, PostgresTypeOK
<1>4. /\ M \in Nat /\ M <= Max96 /\ S \in 0..MAX_SCALE /\ S \in Nat /\ m \in Nat /\ s \in Nat /\ s \in 0..MAX_SCALE
      /\ MAX_SCALE \in Nat /\ PowLimit \in Nat /\ 2 * MAX_SCALE <= PowLimit /\ Max96 \in Nat
  <2>1. M \in Mantissa /\ S \in 0..MAX_SCALE
    BY <1>3 DEF Decimal
  <2>2. QED
    BY <2>1, GroupFacts, BaseType DEF Mantissa
<1> HIDE DEF M, S, m, s
<1>5. s \in 0..PowLimit /\ S \in 0..PowLimit /\ e \in 0..PowLimit /\ e - s \in 0..PowLimit
  BY <1>1, <1>2, <1>4
<1>6. A \in Nat \ {0} /\ B \in Nat \ {0} /\ U \in Nat \ {0} /\ POWERS[e] = U * A
  <2> DEFINE j == e - s
  <2>1. j \in 0..PowLimit /\ j + s = e /\ j + s <= PowLimit
    BY <1>1, <1>2, <1>4, <1>5
  <2> HIDE DEF j
  <2>2. POWERS[j + s] = POWERS[j] * POWERS[s] /\ POWERS[j] \in Nat \ {0}
    BY <1>5, <2>1, PowersAdd, PowersType
  <2>3. A \in Nat \ {0} /\ B \in Nat \ {0}
    BY <1>5, PowersType
  <2>4. QED
    BY <2>1, <2>2, <2>3 DEF j
<1> HIDE DEF A, B, U
<1>7. m * B = M * A
  <2>1. (m * U) * B = (m * B) * U
    BY <1>4, <1>6
  <2>2. M * (U * A) = (M * A) * U
    BY <1>4, <1>6
  <2>3. (m * B) * U = (M * A) * U
    BY <1>1, <1>6, <2>1, <2>2
  <2>4. m * B \in Int /\ M * A \in Int
    BY <1>4, <1>6
  <2>5. QED
    BY <1>6, <2>3, <2>4, Cancel
<1>8. CASE S <= s
  <2> DEFINE D == POWERS[s - S]
  <2>1. D \in Nat \ {0} /\ A = D * B
    <3> DEFINE j == s - S
    <3>1. j \in 0..PowLimit /\ j + S = s /\ j + S <= PowLimit
      BY <1>4, <1>5, <1>8
    <3> HIDE DEF j
    <3>2. POWERS[j + S] = POWERS[j] * POWERS[S] /\ POWERS[j] \in Nat \ {0}
      BY <1>5, <3>1, PowersAdd, PowersType
    <3>3. QED
      BY <3>1, <3>2 DEF j, A, B
  <2>2. m = M * D
    <3> HIDE DEF D
    <3>1. M * (D * B) = (M * D) * B
      BY <1>4, <1>6, <2>1
    <3>2. m * B = (M * D) * B
      BY <1>7, <2>1, <3>1
    <3>3. M * D \in Int /\ m \in Int
      BY <1>4, <2>1
    <3> DEFINE f == M * D
    <3>4. f \in Int /\ m * B = f * B
      BY <3>2, <3>3
    <3> HIDE DEF f
    <3>5. m = f
      BY <1>6, <3>3, <3>4, Cancel
    <3>6. QED
      BY <3>5 DEF f
  <2>3. x.s = S /\ \A c \in Nat : d.m = c * POWERS[d.s - S] => x.m = c
    BY <1>4, <1>8, FewerPlaces DEF s, m
  <2>4. x.m = M
    <3> HIDE DEF x
    <3>1. d.m = M * POWERS[d.s - S]
      BY <2>2 DEF m, s
    <3>2. QED
      BY <1>4, <2>3, <3>1
  <2>5. QED
    BY <1>3, <2>3, <2>4 DEF x, M, S
<1>9. CASE ~(S <= s)
  <2> DEFINE n == S - s
             C == POWERS[n]
  <2>1. n \in 0..PowLimit /\ n + s = S /\ n + s <= PowLimit /\ n >= 1
    BY <1>4, <1>5, <1>9
  <2>2. C \in Nat /\ B = C * A
    <3> HIDE DEF n
    <3>1. POWERS[n + s] = POWERS[n] * POWERS[s] /\ POWERS[n] \in Nat
      BY <1>5, <2>1, PowersAdd, PowersType
    <3>2. QED
      BY <2>1, <3>1 DEF A, B
  <2> HIDE DEF C
  <2>3. M = m * C
    <3>1. m * (C * A) = (m * C) * A
      BY <1>4, <1>6, <2>2
    <3>2. M * A = (m * C) * A
      BY <1>7, <2>2, <3>1
    <3>3. m * C \in Int /\ M \in Int
      BY <1>4, <2>2
    <3> DEFINE f == m * C
    <3>4. f \in Int /\ M * A = f * A
      BY <3>2, <3>3
    <3> HIDE DEF f
    <3>5. M = f
      BY <1>6, <3>3, <3>4, Cancel
    <3>6. QED
      BY <3>5 DEF f
  <2>4. PICK k \in 0..n :
            /\ x.s = s + k /\ x.m = m * POWERS[k]
            /\ x.s = S \/ (k + 1 \in 1..n /\ m * POWERS[k + 1] > Max96)
    BY <1>4, <1>9, MorePlaces DEF s, m
  <2> HIDE DEF x
  <2>5. x.s = S
    <3>1. SUFFICES ASSUME k + 1 \in 1..n, m * POWERS[k + 1] > Max96 PROVE FALSE
      BY <2>4
    <3> DEFINE i == k + 1
               E == POWERS[i]
    <3>2. i \in 0..PowLimit /\ i <= n
      BY <1>4, <2>1, <3>1
    <3> HIDE DEF i, n
    <3>3. E \in Nat /\ E <= C
      BY <2>1, <3>2, PowersType, PowersMono DEF C
    <3> HIDE DEF E
    <3>4. E * m <= C * m /\ E * m = m * E /\ C * m = m * C
      BY <1>4, <2>2, <3>3, MulMono
    <3>5. m * E > Max96
      BY <3>1 DEF E, i
    <3>6. m * E <= M /\ m * E \in Int
      BY <1>4, <2>3, <3>3, <3>4
    <3> DEFINE z == m * E
    <3>7. z > Max96 /\ z <= M /\ z \in Int
      BY <3>5, <3>6
    <3> HIDE DEF z
    <3>8. QED
      BY <1>4, <3>7
  <2>6. k = n
    BY <1>4, <2>1, <2>4, <2>5
  <2>7. x.m = M
    BY <2>3, <2>4, <2>6 DEF C
  <2>8. QED
    BY <1>3, <2>5, <2>7 DEF x, M, S
<1>10. QED
  BY <1>8, <1>9

\* A whole number that is rescaled keeps its value.
LEMMA WholeRescaled ==
    ASSUME NEW d, d.m \in Mantissa, d.s = 0, NEW t \in 0..MAX_SCALE,
           NEW W \in Nat, NEW p \in 0..MAX_SCALE, d.m = W * POWERS[p]
    PROVE  Rescaled(d, t).m = W * POWERS[p + Rescaled(d, t).s]
<1> DEFINE x == Rescaled(d, t)
           m == d.m
<1>1. MAX_SCALE \in Nat /\ PowLimit \in Nat /\ 2 * MAX_SCALE <= PowLimit /\ 0 \in 0..MAX_SCALE /\ t \in Nat /\ p \in Nat
  BY GroupFacts
<1>2. m \in Nat /\ m = W * POWERS[p]
  BY BaseType DEF Mantissa
<1>3. CASE t <= d.s
  <2>1. t = 0
    BY <1>1, <1>3
  <2>2. d.s \in 0..MAX_SCALE
    BY <1>1
  <2>3. x.s = t /\ (POWERS[d.s - t] = 1 => x.m = m)
    BY <1>3, <2>2, FewerPlaces
  <2>4. POWERS[d.s - t] = 1
    <3> DEFINE j == d.s - t
    <3>1. j \in Int /\ j <= 0 /\ j >= 0
      BY <2>1
    <3> HIDE DEF j
    <3>2. j = 0
      BY <3>1
    <3>3. POWERS[j] = 1
      BY <3>2, PowersAssumption
    <3>4. QED
      BY <3>3 DEF j
  <2> HIDE DEF x
  <2>5. p + x.s = p
    BY <1>1, <2>1, <2>3
  <2>6. QED
    BY <1>2, <2>3, <2>4, <2>5 DEF x
<1>4. CASE ~(t <= d.s)
  <2>1. d.s \in 0..MAX_SCALE
    BY <1>1
  <2>2. PICK k \in 0..(t - d.s) : x.s = d.s + k /\ x.m = m * POWERS[k] /\ k \in 0..MAX_SCALE
    BY <1>4, <2>1, MorePlaces
  <2> HIDE DEF x, m
  <2>3. x.s = k /\ k \in 0..PowLimit /\ p \in 0..PowLimit /\ p + k <= PowLimit
    BY <1>1, <2>2
  <2>4. POWERS[p + k] = POWERS[p] * POWERS[k] /\ POWERS[p] \in Nat /\ POWERS[k] \in Nat
    BY <2>3, PowersAdd, PowersType
  <2>5. (W * POWERS[p]) * POWERS[k] = W * (POWERS[p] * POWERS[k])
    BY <2>4
  <2>6. QED
    BY <1>2, <2>2, <2>3, <2>4, <2>5 DEF x
<1>5. QED
  BY <1>3, <1>4

\* What is known when all groups have been read.
LEMMA AllRead ==
    ASSUME PostgresInv, qpc = "fraction", group = Len(wire.digits)
    PROVE  /\ PowerSent >= 0 /\ ~PowerWraps => /\ PowerSent \in 0..MAX_SCALE /\ got.s = 0
                                                /\ got.m = Whole(wire.digits) * POWERS[PowerSent]
           /\ ~(PowerSent >= 0) => /\ wire.weight + 1 <= Len(wire.digits)
                                   /\ Known(got.m, got.s, Len(wire.digits))
           /\ sent # ZERO => /\ got.s <= -PowerSent
                             /\ got.m * POWERS[(-PowerSent) - got.s] = Whole(wire.digits)
<1> DEFINE L == Len(wire.digits)
           W == Whole(wire.digits)
           m == got.m
           s == got.s
<1>1. PostgresTypeOK /\ WirePart /\ ReadPart /\ qpc \notin {"idle", "to", "groups"}
  BY DEF PostgresInv
<1>2. wire \in Numerics
  BY <1>1 DEF WirePart
<1>3. /\ PowerSent \in Int /\ L \in Nat /\ wire.weight \in Int /\ W = Read(L)
      /\ m \in Nat /\ s \in 0..MAX_SCALE /\ s \in Nat
  BY <1>1, <1>2, WireFacts, GroupFacts
<1>4. MAX_SCALE \in Nat /\ PowLimit \in Nat /\ MAX_SCALE <= PowLimit
  BY GroupFacts
<1>5. PowerSent >= 0 /\ ~PowerWraps => PowerSent \in 0..MAX_SCALE /\ s = 0 /\ m = W * POWERS[PowerSent]
  <2>1. SUFFICES ASSUME PowerSent >= 0, ~PowerWraps PROVE PowerSent \in 0..MAX_SCALE /\ s = 0 /\ m = W * POWERS[PowerSent]
    OBVIOUS
  <2>2. PowerSent <= MAX_SCALE /\ s = 0 /\ m = Read(group) * POWERS[PowerSent]
    BY <1>1, <2>1 DEF ReadPart
  <2>3. PowerSent \in 0..MAX_SCALE
    BY <1>3, <1>4, <2>1, <2>2
  <2>4. QED
    BY <1>3, <2>2, <2>3
<1>6. ~(PowerSent >= 0) => wire.weight + 1 <= L /\ Known(m, s, L)
  <2>1. SUFFICES ASSUME ~(PowerSent >= 0) PROVE wire.weight + 1 <= L /\ Known(m, s, L)
    OBVIOUS
  <2>2. PowerSent < 0
    BY <1>3, <2>1
  <2>3. group >= wire.weight + 1
        /\ (Exact(got, group) \/ (sent = ZERO /\ (Frozen(got, group) \/ Halved(got, group))))
    BY <1>1, <2>2 DEF ReadPart
  <2>4. wire.weight + 1 <= L
    BY <1>3, <2>3
  <2>5. Known(m, s, L)
    BY <2>3 DEF Known, Exact, Frozen, Halved
  <2>6. QED
    BY <2>4, <2>5
<1>7. sent # ZERO => s <= -PowerSent /\ m * POWERS[(-PowerSent) - s] = W
  <2>1. SUFFICES ASSUME sent # ZERO PROVE s <= -PowerSent /\ m * POWERS[(-PowerSent) - s] = W
    OBVIOUS
  <2> DEFINE e == -PowerSent
  <2>2. CASE PowerSent >= 0
    <3>1. PowerSent <= 0
      BY <1>1, <2>1 DEF WirePart
    <3>2. PowerSent = 0
      BY <1>3, <2>2, <3>1
    <3>3. e \in Int /\ e <= 0 /\ e >= 0
      BY <3>1, <1>3, <2>2
    <3> HIDE DEF e
    <3>4. e = 0
      BY <3>3
    <3>5. s = 0 /\ m = W * POWERS[0] /\ POWERS[0] = 1
      <4>1. ~PowerWraps
        BY <1>1, <1>2, <2>1, SentUnwrapped
      <4>2. QED
        BY <1>5, <2>2, <3>2, <4>1, PowersAssumption
    <3>6. W \in Nat
      BY <1>1, <1>2, <1>3, WireFacts
    <3>7. m = W
      BY <3>5, <3>6
    <3> DEFINE j == e - s
    <3>8. j \in Int /\ j <= 0 /\ j >= 0
      BY <3>4, <3>5
    <3> HIDE DEF j
    <3>9. j = 0
      BY <3>8
    <3>10. m * POWERS[j] = W
      BY <1>3, <3>5, <3>7, <3>9
    <3>11. s <= e
      BY <3>4, <3>5
    <3>12. QED
      BY <3>10, <3>11 DEF j, e
  <2>3. CASE ~(PowerSent >= 0)
    <3>1. wire.weight + 1 <= L /\ Exact([m |-> m, s |-> s], L)
      BY <1>6, <2>1, <2>3 DEF Known
    <3>2. PlacesRead(L) = e
      <4>1. L \in 0..L
        BY <1>3
      <4>2. e = PlacesRead(L) + GroupDigits * (L - L) /\ PlacesRead(L) \in Nat /\ e \in Int
        BY <1>1, <1>2, <1>3, <3>1, <4>1, PlacesFacts
      <4>3. GroupDigits * (L - L) = 0
        <5>1. L - L = 0
          BY <1>3
        <5>2. QED
          BY <5>1, GroupFacts
      <4> DEFINE y == GroupDigits * (L - L)
                 p == PlacesRead(L)
      <4>4. y = 0 /\ e = p + y /\ p \in Nat
        BY <4>2, <4>3
      <4> HIDE DEF e, y, p
      <4>5. e = p
        BY <4>4
      <4>6. QED
        BY <4>5 DEF p
    <3>3. s <= PlacesRead(L) /\ m * POWERS[PlacesRead(L) - s] = Read(L)
      BY <3>1 DEF Exact
    <3>4. QED
      BY <1>3, <3>2, <3>3
  <2>4. QED
    BY <2>2, <2>3
<1>8. QED
  BY <1>5, <1>6, <1>7

\* The number read is given the scale that was announced.
LEMMA ReceiveStep == ASSUME PostgresInv, Receive PROVE PostgresInv'
<1> DEFINE L == Len(wire.digits)
           W == Whole(wire.digits)
           t == SmallerOf(wire.scale, MAX_SCALE)
           x == Rescaled(got, t)
<1>1. /\ PostgresTypeOK /\ WirePart /\ qpc = "fraction" /\ group = L /\ qpc \notin {"idle", "to", "groups"}
      /\ got' = [Positive(x) EXCEPT !.neg = wire.neg]
      /\ qpc' = (IF sent = ZERO THEN "read" ELSE "returned")
      /\ UNCHANGED <<sent, wire, mantissa4, group>>
  BY DEF PostgresInv, Receive
<1>2. wire \in Numerics
  BY <1>1 DEF WirePart
<1>3. /\ PowerSent \in -PowLimit..PowLimit /\ PowerSent \in Int /\ L \in Nat /\ wire.weight \in Int /\ W = Read(L) /\ W \in Nat
      /\ wire.neg \in BOOLEAN /\ wire.scale \in Nat
      /\ got.m \in Mantissa /\ got.s \in 0..MAX_SCALE /\ MAX_SCALE \in Nat
  <2>1. Len(wire.digits) \in 0..Len(wire.digits)
    BY <1>1, <1>2, WireFacts
  <2>2. got.m \in Mantissa
    BY <1>1 DEF PostgresTypeOK, Decimal
  <2>3. /\ PowerSent \in -PowLimit..PowLimit /\ L \in Nat /\ wire.weight \in Int
        /\ wire.neg \in BOOLEAN /\ wire.scale \in Nat
    BY <1>1, <1>2, WireFacts
  <2>4. PowLimit \in Nat /\ MAX_SCALE \in Nat
    BY GroupFacts
  <2>5. PowerSent \in Int
    BY <2>3, <2>4
  <2>6. W = Read(L) /\ W \in Nat
    BY <1>1, <1>2, <2>1, WireFacts
  <2>7. got.s \in 0..MAX_SCALE
    BY <1>1 DEF PostgresTypeOK, Decimal
  <2>8. QED
    BY <2>2, <2>3, <2>4, <2>5, <2>6, <2>7
<1>4. t \in 0..MAX_SCALE /\ t <= wire.scale /\ t \in Nat
  BY <1>3 DEF SmallerOf
<1>5. /\ PowerSent >= 0 /\ ~PowerWraps => PowerSent \in 0..MAX_SCALE /\ got.s = 0 /\ got.m = W * POWERS[PowerSent]
      /\ ~(PowerSent >= 0) => wire.weight + 1 <= L /\ Known(got.m, got.s, L)
      /\ sent # ZERO => got.s <= -PowerSent /\ got.m * POWERS[(-PowerSent) - got.s] = W
  BY <1>1, AllRead
<1>6. x.m \in Mantissa /\ x.s \in 0..MAX_SCALE /\ x.s \in Nat /\ x.s <= t /\ (x.s < t => x.m * Ten > Max96)
  <2>1. CASE t <= got.s
    <3>1. x.s = t /\ x.m \in Mantissa
      BY <1>3, <1>4, <2>1, FewerPlaces
    <3> HIDE DEF x, t
    <3>2. QED
      BY <1>3, <1>4, <3>1
  <2>2. CASE ~(t <= got.s)
    <3>1. PICK k \in 0..(t - got.s) :
            /\ x.s = got.s + k /\ x.m = got.m * POWERS[k] /\ x.m \in Mantissa
            /\ k \in 0..MAX_SCALE /\ x.s \in 0..t /\ x.s \in 0..MAX_SCALE
            /\ x.s = t \/ (x.s < t /\ k + 1 \in 1..(t - got.s) /\ got.m * POWERS[k + 1] > Max96)
      BY <1>3, <1>4, <2>2, MorePlaces
    <3> HIDE DEF x, t
    <3>2. x.s \in Nat /\ x.s <= t
      BY <1>3, <1>4, <3>1
    <3>3. x.s < t => x.m * Ten > Max96
      <4>1. SUFFICES ASSUME x.s < t PROVE x.m * Ten > Max96
        OBVIOUS
      <4> DEFINE m == got.m
      <4>2. k + 1 \in 1..(t - got.s) /\ m * POWERS[k + 1] > Max96
        BY <1>4, <3>1, <3>2, <4>1
      <4>3. k \in 0..PowLimit /\ 1 \in 0..PowLimit /\ k + 1 <= PowLimit /\ m \in Nat /\ Ten \in Nat
        <5>1. k + 1 <= t /\ t <= MAX_SCALE /\ MAX_SCALE <= PowLimit /\ PowLimit \in Nat /\ k \in Nat
          BY <1>3, <1>4, <4>2, GroupFacts
        <5>2. m \in Nat
          BY <1>3, BaseType DEF Mantissa
        <5>3. QED
          BY <1>4, <5>1, <5>2, GroupFacts
      <4>4. POWERS[k + 1] = POWERS[k] * POWERS[1] /\ POWERS[1] = Ten /\ POWERS[k] \in Nat
        BY <4>3, PowersAdd, PowersType, PowersAssumption
      <4> HIDE DEF m
      <4>5. m * (POWERS[k] * Ten) = (m * POWERS[k]) * Ten
        BY <4>3, <4>4
      <4>6. m * (POWERS[k] * Ten) > Max96
        BY <4>2, <4>4
      <4>7. x.m = m * POWERS[k]
        BY <3>1 DEF m
      <4>8. QED
        BY <4>5, <4>6, <4>7
    <3>4. QED
      BY <3>1, <3>2, <3>3
  <2>3. QED
    BY <2>1, <2>2
<1>7. PowerSent >= 0 /\ ~PowerWraps => x.m = W * POWERS[PowerSent + x.s]
  BY <1>3, <1>4, <1>5, WholeRescaled
<1>8. ~(PowerSent >= 0) => Within(x.m, x.s, W, -PowerSent)
  BY <1>1, <1>2, <1>3, <1>4, <1>5, ReadClose
<1>9. sent # ZERO => Back \in Decimal /\ x.m = Back.m /\ x.s = Back.s /\ wire.neg = Back.neg
  <2>1. SUFFICES ASSUME sent # ZERO PROVE Back \in Decimal /\ x.m = Back.m /\ x.s = Back.s /\ wire.neg = Back.neg
    OBVIOUS
  <2>2. wire.neg = Back.neg /\ wire.scale = Back.s
    BY <1>1, <2>1 DEF WirePart
  <2>3. /\ Back \in Decimal /\ Rescaled(got, Back.s).m = Back.m /\ Rescaled(got, Back.s).s = Back.s
    BY <1>1, <1>3, <1>5, <2>1, ReturnedBack
  <2>4. Back.s \in 0..MAX_SCALE
    BY <2>3 DEF Decimal
  <2>5. t = Back.s
    BY <1>3, <2>2, <2>4 DEF SmallerOf
  <2> HIDE DEF t
  <2>6. QED
    BY <2>2, <2>3, <2>5
<1> HIDE DEF x, t
<1>10. got' = [neg |-> wire.neg, m |-> x.m, s |-> x.s]
  BY <1>1 DEF Positive
<1>11. got' \in Decimal
  BY <1>3, <1>6, <1>10 DEF Decimal
<1>12. PostgresTypeOK'
  BY <1>1, <1>11 DEF PostgresTypeOK
<1>13. SendPart' /\ WirePart'
  BY <1>1, WireKept
<1>14. ReadPart'
  BY <1>1 DEF ReadPart, Receiving
<1>15. PostgresKeeps'
  <2>1. got'.neg = wire.neg /\ got'.m = x.m /\ got'.s = x.s
    BY <1>10
  <2>2. wire' = wire /\ sent' = sent /\ PowerSent' = PowerSent /\ PowerWraps' = PowerWraps
    BY <1>1 DEF PowerSent, PowerWraps, MissingGroups
  <2>3. CASE sent = ZERO
    <3>1. qpc' = "read"
      BY <1>1, <2>3
    <3>2. PowerSent >= 0 /\ ~PowerWraps => got'.m = W * POWERS[PowerSent + got'.s]
      BY <1>7, <2>1
    <3>3. ~(PowerSent >= 0) => WithinUnit(Whole(wire.digits), -PowerSent)'
      BY <1>8, <2>1, <2>2 DEF WithinUnit, Within
    <3>4. got'.s <= wire.scale /\ got'.s <= MAX_SCALE
      BY <1>3, <1>4, <1>6, <2>1
    <3>5. got'.s < SmallerOf(wire.scale, MAX_SCALE) => got'.m * Ten > Max96
      BY <1>6, <2>1 DEF t
    <3>6. (~PowerWraps => IF PowerSent >= 0 THEN got.m = Whole(wire.digits) * POWERS[PowerSent + got.s]
                          ELSE WithinUnit(Whole(wire.digits), -PowerSent))'
      BY <2>2, <3>2, <3>3
    <3>7. QED
      BY <2>1, <2>2, <3>1, <3>4, <3>5, <3>6 DEF PostgresKeeps
  <2>4. CASE sent # ZERO
    <3>1. qpc' = "returned"
      BY <1>1, <2>4
    <3>2. got' = Back
      <4>1. Back \in Decimal /\ x.m = Back.m /\ x.s = Back.s /\ wire.neg = Back.neg
        BY <1>9, <2>4
      <4>2. Back = [neg |-> Back.neg, m |-> Back.m, s |-> Back.s]
        BY <4>1 DEF Decimal
      <4>3. QED
        BY <1>10, <4>1, <4>2
    <3>3. QED
      BY <2>2, <3>1, <3>2 DEF PostgresKeeps, Back
  <2>5. QED
    BY <2>3, <2>4
<1>16. QED
  BY <1>12, <1>13, <1>14, <1>15 DEF PostgresInv

\* Every step keeps it.
LEMMA PostgresSteps == PostgresInv /\ [PostgresNext]_qvars => PostgresInv'
<1>1. SUFFICES ASSUME PostgresInv, [PostgresNext]_qvars PROVE PostgresInv'
  OBVIOUS
<1>2. CASE SendZero
  BY <1>1, <1>2, SendZeroStep
<1>3. CASE FillGroup
  BY <1>1, <1>3, FillStep
<1>4. CASE PushGroup
  BY <1>1, <1>4, PushStep
<1>5. CASE Send
  BY <1>1, <1>5, SendStep
<1>6. CASE IntegerGroup
  BY <1>1, <1>6, IntegerStep
<1>7. CASE ZeroGroups
  BY <1>1, <1>7, ZeroGroupsStep
<1>8. CASE NoInteger
  BY <1>1, <1>8, NoIntegerStep
<1>13. CASE PowerOverflows
  BY <1>1, <1>13, PowerOverflowsStep
<1>9. CASE FractionGroup
  BY <1>1, <1>9, FractionStep
<1>10. CASE Receive
  BY <1>1, <1>10, ReceiveStep
<1>11. CASE UNCHANGED qvars
  <2>1. UNCHANGED <<sent, wire, mantissa4, got, group, qpc>>
    BY <1>11 DEF qvars
  <2>2. PostgresTypeOK' /\ SendPart'
    BY <1>1, <2>1 DEF PostgresInv, PostgresTypeOK, SendPart, Read
  <2>3. UNCHANGED <<Back, PowerSent, PowerWraps>>
    BY <2>1 DEF Back, PowerSent, PowerWraps, MissingGroups
  <2>4. WirePart'
    BY <1>1, <2>1, <2>3 DEF PostgresInv, WirePart
  <2>5. ReadPart'
    BY <1>1, <2>1, <2>3 DEF PostgresInv, ReadPart, Receiving, Exact, Frozen, Halved, PlacesRead, Read
  <2>6. PostgresKeeps'
    BY <1>1, <2>1, <2>3 DEF PostgresInv, PostgresKeeps, WithinUnit, TooLargeToRead
  <2>7. QED
    BY <2>2, <2>4, <2>5, <2>6 DEF PostgresInv
<1>12. QED
  BY <1>1, <1>2, <1>3, <1>4, <1>5, <1>6, <1>7, <1>8, <1>9, <1>10, <1>11, <1>13 DEF PostgresNext

\* The inductive invariant.
THEOREM PostgresInvariant == PostgresSpec => []PostgresInv
<1>1. PostgresInit => PostgresInv
  BY PostgresStarts
<1>2. PostgresInv /\ [PostgresNext]_qvars => PostgresInv'
  BY PostgresSteps
<1>3. QED
  BY <1>1, <1>2, PTL DEF PostgresSpec

\* A decimal comes back from PostgreSQL as it was sent, and any number PostgreSQL
\* sends is read to less than a unit of the last place kept or refused because it is
\* too large: PostgresKeeps, for every group size, width and scale, but for what is
\* read when the power of missing groups wrapped in a build that does not check it.
THEOREM PostgresKept == PostgresSpec => []PostgresKeeps
<1>1. PostgresInv => PostgresKeeps
  BY DEF PostgresInv
<1>2. QED
  BY <1>1, PostgresInvariant, PTL

-----------------------------------------------------------------------------
(* Powers *)

\* A decimal, in last places of the largest scale, and in those of twice that scale;
\* the last place of a scale.
Worth(d) == d.m * POWERS[MAX_SCALE - d.s]
Wide(d)  == d.m * POWERS[2 * MAX_SCALE - d.s]
Last(t)  == POWERS[MAX_SCALE - t]

\* The constants of the functions.
LEMMA MathsFacts ==
    /\ MAX_SCALE \in Nat /\ MAX_SCALE >= 2 /\ PowLimit \in Nat /\ 2 * MAX_SCALE <= PowLimit
    /\ Ten \in Nat /\ Ten >= 4 /\ Ten \div 2 \in Nat /\ Ten = 2 * (Ten \div 2) /\ Ten \div 2 >= 2
    /\ Max96 \in Nat /\ Ten * Ten <= Max96
    /\ POWERS[0] = 1 /\ POWERS[1] = Ten
    /\ \A t \in 0..MAX_SCALE : Last(t) \in Nat \ {0} /\ MAX_SCALE - t \in 0..PowLimit
<1>1. MAX_SCALE \in Nat /\ MAX_SCALE >= 2 /\ PowLimit \in Nat /\ 2 * MAX_SCALE <= PowLimit
  BY ScaleAssumption, MathsAssumption
<1>2. Ten \in Nat /\ Ten > 1 /\ Ten % 2 = 0 /\ B3 \in Nat /\ Max96 = B3 - 1 /\ Max96 \in Nat
  BY BaseAssumption, BaseType
<1>3. B3 % Ten < Ten /\ B3 % Ten = (Ten \div 2) + 1
  BY <1>2, DivMod, MathsAssumption
<1>4. Ten >= 4 /\ Ten \div 2 \in Nat /\ Ten = 2 * (Ten \div 2) /\ Ten \div 2 >= 2
  BY <1>2, <1>3
<1>5. Ten * Ten <= Max96
  <2>1. 1 \in 0..PowLimit /\ 2 \in 0..PowLimit /\ MAX_SCALE \in 0..PowLimit
    BY <1>1
  <2>2. POWERS[1 + 1] = POWERS[1] * POWERS[1] /\ POWERS[1] = Ten
    BY <1>1, <2>1, PowersAdd, PowersAssumption
  <2>3. POWERS[2] <= POWERS[MAX_SCALE] /\ POWERS[2] \in Nat /\ POWERS[MAX_SCALE] \in Nat
    BY <1>1, <2>1, PowersMono, PowersType
  <2>4. POWERS[MAX_SCALE] < B3
    BY WidthAssumption DEF B3
  <2>6. POWERS[2] = Ten * Ten
    BY <2>2
  <2>7. QED
    BY <1>2, <2>3, <2>4, <2>6
<1>6. \A t \in 0..MAX_SCALE : MAX_SCALE - t \in 0..PowLimit
  BY <1>1
<1>7. \A t \in 0..MAX_SCALE : Last(t) \in Nat \ {0}
  BY <1>6, PowersType DEF Last
<1>8. QED
  BY <1>1, <1>2, <1>4, <1>5, <1>6, <1>7, PowersAssumption

\* A decimal is worth the same at either scale.
LEMMA WorthFacts ==
    ASSUME NEW d \in Decimal
    PROVE  /\ d.m \in Mantissa /\ d.m \in Nat /\ d.m <= Max96 /\ d.s \in 0..MAX_SCALE /\ d.neg \in BOOLEAN
           /\ Worth(d) \in Nat /\ Wide(d) \in Nat /\ Wide(d) = Worth(d) * POWERS[MAX_SCALE]
           /\ Worth(d) = d.m * Last(d.s)
           /\ d.m # 0 <=> Worth(d) # 0
<1>1. d.m \in Mantissa /\ d.s \in 0..MAX_SCALE /\ d.neg \in BOOLEAN /\ d.m \in Nat /\ d.m <= Max96
  BY BaseType DEF Decimal, Mantissa
<1> DEFINE i == MAX_SCALE - d.s
<1>2. i \in 0..PowLimit /\ MAX_SCALE \in 0..PowLimit /\ i + MAX_SCALE = 2 * MAX_SCALE - d.s /\ i + MAX_SCALE <= PowLimit
  BY <1>1, MathsFacts
<1> HIDE DEF i
<1> DEFINE p == POWERS[i]
           q == POWERS[MAX_SCALE]
<1>3. p \in Nat \ {0} /\ q \in Nat \ {0} /\ POWERS[i + MAX_SCALE] = p * q
  BY <1>2, PowersType, PowersAdd
<1> HIDE DEF p, q
<1>4. d.m * p \in Nat /\ d.m * (p * q) = (d.m * p) * q /\ (d.m * p) * q \in Nat /\ (d.m # 0 <=> d.m * p # 0)
  <2> DEFINE m == d.m
  <2>1. m \in Nat
    BY <1>1
  <2> HIDE DEF m
  <2>2. m * p \in Nat /\ m * (p * q) = (m * p) * q /\ (m * p) * q \in Nat
    BY <1>3, <2>1, MulAssoc, \A u, v \in Nat : u * v \in Nat
  <2>3. m # 0 <=> m * p # 0
    <3>1. m * p = 0 * p <=> m = 0
      BY <1>3, <2>1, Cancel
    <3>2. QED
      BY <1>3, <3>1
  <2>4. QED
    BY <2>2, <2>3 DEF m
<1>5. Worth(d) = d.m * p /\ Wide(d) = d.m * (p * q) /\ Last(d.s) = p
  BY <1>2, <1>3 DEF Worth, Wide, Last, p, i
<1>6. QED
  BY <1>1, <1>4, <1>5 DEF q

\* Zeros taken off do not change what a decimal is worth.
LEMMA StrippedWorth ==
    ASSUME NEW d \in Decimal
    PROVE  /\ Stripped(d) \in Decimal /\ Worth(Stripped(d)) = Worth(d)
           /\ ~d.neg => ~Stripped(d).neg
<1>1. /\ d.m \in Mantissa /\ d.m \in Nat /\ d.m <= Max96 /\ d.s \in 0..MAX_SCALE /\ d.neg \in BOOLEAN
      /\ MAX_SCALE \in Nat /\ PowLimit \in Nat /\ 2 * MAX_SCALE <= PowLimit /\ Max96 \in Nat /\ d.s \in Nat
  BY WorthFacts, MathsFacts
<1>2. CASE d.m = 0
  <2>1. Stripped(d) = ZERO
    BY <1>2 DEF Stripped
  <2>2. 0 * POWERS[MAX_SCALE - 0] = 0 /\ Worth(d) = 0
    <3>1. MAX_SCALE - 0 \in 0..PowLimit
      BY <1>1
    <3>2. QED
      BY <1>2, <3>1, WorthFacts, PowersType
  <2>3. Worth(ZERO) = 0
    BY <2>2 DEF Worth, ZERO
  <2>4. QED
    BY <2>1, <2>2, <2>3, ZeroType
<1>3. CASE d.m # 0
  <2> DEFINE good(k) == d.m % POWERS[k] = 0 /\ (k = d.s \/ d.m % POWERS[k + 1] # 0)
             k == CHOOSE k \in 0..d.s : good(k)
             T == {j \in 0..d.s : d.m % POWERS[j] = 0}
  <2>1. \E j \in 0..d.s : good(j)
    <3>1. 0 \in T
      <4>0. \A n \in Nat : n % 1 = 0
        <5>1. ASSUME NEW n \in Nat PROVE n % 1 = 0
          <6>1. 1 \in Nat \ {0} /\ 0 \in Nat /\ n = n * 1 + 0 /\ 0 < 1
            OBVIOUS
          <6>2. QED
            BY <6>1, QuotientUnique
        <5>2. QED
          BY <5>1
      <4>1. POWERS[0] = 1 /\ 0 \in 0..d.s
        <5>1. POWERS[0] = 1
          BY PowersAssumption
        <5>2. 0 \in 0..d.s
          BY <1>1
        <5>3. QED
          BY <5>1, <5>2
      <4>2. d.m % POWERS[0] = 0
        BY <1>1, <4>0, <4>1
      <4>3. QED
        BY <4>1, <4>2
    <3>2. PICK j \in T : \A u \in T : u <= j
      <4> HIDE DEF T
      <4>1. T \subseteq 0..d.s
        BY DEF T
      <4>2. QED
        BY <1>1, <3>1, <4>1, GreatestOf
    <3>3. j \in 0..d.s /\ d.m % POWERS[j] = 0
      BY <3>2
    <3>4. j # d.s => d.m % POWERS[j + 1] # 0
      <4>1. SUFFICES ASSUME j # d.s, d.m % POWERS[j + 1] = 0 PROVE FALSE
        OBVIOUS
      <4>2. j + 1 \in 0..d.s /\ ~(j + 1 <= j)
        BY <1>1, <3>3, <4>1
      <4>3. QED
        BY <3>2, <4>1, <4>2
    <3>5. QED
      BY <3>3, <3>4
  <2>2. k \in 0..d.s /\ d.m % POWERS[k] = 0
    <3> HIDE DEF good
    <3>1. k \in 0..d.s /\ good(k)
      BY <2>1
    <3>2. QED
      BY <3>1 DEF good
  <2>3. Stripped(d) = [neg |-> d.neg, m |-> d.m \div POWERS[k], s |-> d.s - k]
    BY <1>3 DEF Stripped
  <2> HIDE DEF k
  <2> DEFINE p == POWERS[k]
             m == d.m \div p
             q == POWERS[MAX_SCALE - d.s]
  <2>4. k \in 0..PowLimit /\ d.s - k \in 0..MAX_SCALE /\ MAX_SCALE - d.s \in 0..PowLimit
        /\ k + (MAX_SCALE - d.s) = MAX_SCALE - (d.s - k) /\ k + (MAX_SCALE - d.s) <= PowLimit
    BY <1>1, <2>2
  <2>5. p \in Nat \ {0} /\ q \in Nat \ {0} /\ POWERS[MAX_SCALE - (d.s - k)] = p * q
    <3>1. POWERS[k + (MAX_SCALE - d.s)] = POWERS[k] * POWERS[MAX_SCALE - d.s]
      BY <2>4, PowersAdd
    <3>2. QED
      BY <2>4, <3>1, PowersType
  <2>6. m \in Nat /\ d.m = m * p /\ m <= d.m
    <3> DEFINE n == d.m
    <3>0. n \in Nat /\ n % p = 0
      BY <1>1, <2>2
    <3> HIDE DEF p, n
    <3>1. n \div p \in Nat /\ n = (n \div p) * p + (n % p)
      BY <2>5, <3>0, DivMod
    <3>2. m = n \div p
      BY DEF n
    <3> HIDE DEF m
    <3>3. m \in Nat /\ n = m * p
      BY <2>5, <3>0, <3>1, <3>2
    <3>4. 1 * m <= p * m /\ p * m = m * p
      BY <2>5, <3>3, MulMono
    <3>5. QED
      BY <3>3, <3>4 DEF n
  <2>7. m \in Mantissa
    BY <1>1, <2>6 DEF Mantissa
  <2>8. Stripped(d) \in Decimal
    BY <1>1, <2>3, <2>4, <2>7 DEF Decimal
  <2>9. m * (p * q) = (m * p) * q
    <3> HIDE DEF m, p, q
    <3>1. QED
      BY <2>5, <2>6, MulAssoc
  <2>10. Worth(Stripped(d)) = Worth(d)
    BY <2>3, <2>5, <2>6, <2>9 DEF Worth
  <2>11. QED
    BY <2>3, <2>8, <2>10
<1>4. QED
  BY <1>2, <1>3

\* The dividend and the divisor of a quotient of t places, over those of their worths.
LEMMA QuotientScales ==
    ASSUME NEW x \in Decimal, NEW y \in Decimal, NEW t \in 0..MAX_SCALE
    PROVE  LET top == x.m * POWERS[IF t + y.s > x.s THEN t + y.s - x.s ELSE 0]
               divisor == y.m * POWERS[IF t + y.s < x.s THEN x.s - y.s - t ELSE 0]
           IN  /\ top \in Nat /\ divisor \in Nat /\ (y.m # 0 => divisor # 0)
               /\ \E k \in Nat \ {0} : top * k = Wide(x) /\ divisor * k = Last(t) * Worth(y)
<1> DEFINE a == IF t + y.s > x.s THEN t + y.s - x.s ELSE 0
           b == IF t + y.s < x.s THEN x.s - y.s - t ELSE 0
           e == IF t + y.s < x.s THEN 2 * MAX_SCALE - x.s ELSE 2 * MAX_SCALE - (t + y.s)
           f == MAX_SCALE - t
           g == MAX_SCALE - y.s
<1>1. /\ x.m \in Nat /\ x.s \in 0..MAX_SCALE /\ y.m \in Nat /\ y.s \in 0..MAX_SCALE
      /\ MAX_SCALE \in Nat /\ PowLimit \in Nat /\ 2 * MAX_SCALE <= PowLimit
  BY WorthFacts, MathsFacts
<1>2. /\ a \in 0..PowLimit /\ b \in 0..PowLimit /\ e \in 0..PowLimit /\ f \in 0..PowLimit /\ g \in 0..PowLimit
      /\ a + e = 2 * MAX_SCALE - x.s /\ b + e = f + g /\ a + e <= PowLimit /\ b + e <= PowLimit /\ f + g <= PowLimit
  BY <1>1
<1> HIDE DEF a, b, e, f, g
<1>3. /\ POWERS[a] \in Nat \ {0} /\ POWERS[b] \in Nat \ {0} /\ POWERS[e] \in Nat \ {0}
      /\ POWERS[f] \in Nat \ {0} /\ POWERS[g] \in Nat \ {0}
      /\ POWERS[2 * MAX_SCALE - x.s] = POWERS[a] * POWERS[e] /\ POWERS[b] * POWERS[e] = POWERS[f] * POWERS[g]
  <2>1. POWERS[a + e] = POWERS[a] * POWERS[e] /\ POWERS[b + e] = POWERS[b] * POWERS[e] /\ POWERS[f + g] = POWERS[f] * POWERS[g]
    BY <1>2, PowersAdd
  <2>2. QED
    BY <1>2, <2>1, PowersType
<1>4. ASSUME NEW u \in Nat, NEW v \in Nat, NEW A \in Nat \ {0}, NEW B \in Nat \ {0}, NEW E \in Nat \ {0},
             NEW F \in Nat \ {0}, NEW G \in Nat \ {0}, B * E = F * G
      PROVE  /\ u * A \in Nat /\ v * B \in Nat /\ (v # 0 => v * B # 0)
             /\ (u * A) * E = u * (A * E) /\ (v * B) * E = F * (v * G)
  <2>1. (v * B) * E = v * (B * E) /\ v * (F * G) = (v * F) * G /\ (v * F) * G = F * (v * G)
    OBVIOUS
  <2>2. v # 0 => v * B # 0
    BY Cancel
  <2>3. QED
    BY <1>4, <2>1, <2>2
<1> DEFINE top == x.m * POWERS[a]
           divisor == y.m * POWERS[b]
<1>5. /\ top \in Nat /\ divisor \in Nat /\ (y.m # 0 => divisor # 0)
      /\ top * POWERS[e] = x.m * (POWERS[a] * POWERS[e]) /\ divisor * POWERS[e] = POWERS[f] * (y.m * POWERS[g])
  <2> DEFINE A == POWERS[a]  B == POWERS[b]  E == POWERS[e]  F == POWERS[f]  G == POWERS[g]  u == x.m  v == y.m
  <2>1. /\ A \in Nat \ {0} /\ B \in Nat \ {0} /\ E \in Nat \ {0} /\ F \in Nat \ {0} /\ G \in Nat \ {0}
        /\ B * E = F * G /\ u \in Nat /\ v \in Nat
    BY <1>1, <1>3
  <2> HIDE DEF A, B, E, F, G, u, v
  <2>2. /\ u * A \in Nat /\ v * B \in Nat /\ (v # 0 => v * B # 0)
        /\ (u * A) * E = u * (A * E) /\ (v * B) * E = F * (v * G)
    BY <1>4, <2>1
  <2>3. QED
    BY <2>2 DEF A, B, E, F, G, u, v
<1>6. Wide(x) = x.m * (POWERS[a] * POWERS[e]) /\ Last(t) = POWERS[f] /\ Worth(y) = y.m * POWERS[g]
  BY <1>3 DEF Wide, Last, Worth, f, g
<1>7. top * POWERS[e] = Wide(x) /\ divisor * POWERS[e] = Last(t) * Worth(y)
  BY <1>5, <1>6
<1> HIDE DEF top, divisor
<1>8. \E k \in Nat \ {0} : top * k = Wide(x) /\ divisor * k = Last(t) * Worth(y)
  BY <1>3, <1>7
<1>9. QED
  BY <1>5, <1>8 DEF a, b, top, divisor

\* The last place of one scale less.
LEMMA LastBefore ==
    ASSUME NEW t \in 0..MAX_SCALE, t # MAX_SCALE
    PROVE  t + 1 \in 0..MAX_SCALE /\ Last(t) = Ten * Last(t + 1)
<1> DEFINE j == MAX_SCALE - (t + 1)
<1>1. t + 1 \in 0..MAX_SCALE /\ j \in 0..PowLimit /\ 1 \in 0..PowLimit /\ j + 1 = MAX_SCALE - t /\ j + 1 <= PowLimit
  BY MathsFacts
<1> HIDE DEF j
<1>2. POWERS[j + 1] = POWERS[j] * POWERS[1] /\ POWERS[1] = Ten /\ POWERS[j] \in Nat
  BY <1>1, PowersAdd, PowersType, MathsFacts
<1>3. POWERS[j + 1] = Ten * POWERS[j]
  BY <1>2, MathsFacts
<1>4. QED
  BY <1>1, <1>3 DEF Last, j

\* A decimal of a mantissa and a scale.
LEMMA PartsWorth ==
    ASSUME NEW m \in Mantissa, NEW t \in 0..MAX_SCALE
    PROVE  /\ FromParts(m, FALSE, t) \in Decimal /\ ~FromParts(m, FALSE, t).neg
           /\ Worth(FromParts(m, FALSE, t)) = m * Last(t)
  BY DEF FromParts, Decimal, Worth, Last

\* A quotient of two positive numbers: within half of a last place, and of a scale that
\* is the largest or has no room for another digit.
LEMMA QuotientNear ==
    ASSUME NEW x \in Decimal, NEW y \in Decimal, ~x.neg, ~y.neg, NEW r \in Quotients(x, y)
    PROVE  /\ y.m # 0 /\ r \in Decimal /\ ~r.neg
           /\ \E t \in 0..MAX_SCALE, m \in Mantissa :
                /\ Worth(r) = m * Last(t)
                /\ -(Last(t) * Worth(y)) <= 2 * (Worth(r) * Worth(y) - Wide(x))
                /\ 2 * (Worth(r) * Worth(y) - Wide(x)) <= Last(t) * Worth(y)
                /\ t = MAX_SCALE \/ (2 * Max96 + 1) * (Last(t) * Worth(y)) <= 2 * (Ten * Wide(x))
<1> DEFINE top(t)  == x.m * POWERS[IF t + y.s > x.s THEN t + y.s - x.s ELSE 0]
           divisor(t)  == y.m * POWERS[IF t + y.s < x.s THEN x.s - y.s - t ELSE 0]
           fits    == {t \in 0..MAX_SCALE : HalfEven(top(t), divisor(t)) <= Max96}
           t       == CHOOSE t \in fits : \A u \in fits : u <= t
           even    == HalfEven(top(t), divisor(t))
           beside  == {q \in {even - 1, even + 1} \cap Mantissa :
                           2 * (q * divisor(t) - top(t)) \in {-divisor(t), divisor(t)}}
<1>1. /\ y.m # 0 /\ fits # {}
      /\ \E q \in {even} \union (IF y.m < B2 THEN {} ELSE beside) : r = Stripped(FromParts(q, x.neg # y.neg, t))
  BY DEF Quotients
<1>2. ASSUME NEW i \in 0..MAX_SCALE
      PROVE  /\ top(i) \in Nat /\ divisor(i) \in Nat \ {0}
             /\ \E k \in Nat \ {0} : top(i) * k = Wide(x) /\ divisor(i) * k = Last(i) * Worth(y)
  BY <1>1, QuotientScales
<1> HIDE DEF top, divisor
<1>3. t \in fits /\ \A u \in fits : u <= t
  <2>1. fits \subseteq 0..MAX_SCALE /\ MAX_SCALE \in Nat
    BY MathsFacts
  <2> HIDE DEF fits
  <2>2. \E k \in fits : \A u \in fits : u <= k
    BY <1>1, <2>1, GreatestOf
  <2>3. QED
    BY <2>2
<1> HIDE DEF t
<1>4. t \in 0..MAX_SCALE /\ even <= Max96 /\ \A u \in 0..MAX_SCALE : HalfEven(top(u), divisor(u)) <= Max96 => u <= t
  BY <1>3
<1> DEFINE n == top(t)
           d == divisor(t)
<1>5. n \in Nat /\ d \in Nat \ {0}
  BY <1>2, <1>4
<1>6. PICK k \in Nat \ {0} : n * k = Wide(x) /\ d * k = Last(t) * Worth(y)
  BY <1>2, <1>4
<1> HIDE DEF n, d
<1>7. even = HalfEven(n, d) /\ beside = {q \in {even - 1, even + 1} \cap Mantissa : 2 * (q * d - n) \in {-d, d}}
  BY DEF n, d
<1> HIDE DEF even, beside
<1>8. even \in Mantissa /\ -d <= 2 * (even * d - n) /\ 2 * (even * d - n) <= d
  <2>1. even \in Nat /\ -d <= 2 * (n - even * d) /\ 2 * (n - even * d) <= d
    BY <1>5, <1>7, HalfEvenRight DEF IsHalfEven
  <2>2. even \in Mantissa
    BY <1>4, <2>1, BaseType DEF Mantissa
  <2>3. even * d \in Nat
    BY <1>5, <2>1
  <2>4. QED
    BY <1>5, <2>1, <2>2, <2>3
<1>9. PICK q \in {even} \union beside : r = Stripped(FromParts(q, x.neg # y.neg, t))
  BY <1>1
<1>10. q \in Mantissa /\ q \in Nat /\ -d <= 2 * (q * d - n) /\ 2 * (q * d - n) <= d
  <2>1. q \in Mantissa => q \in Nat
    BY BaseType DEF Mantissa
  <2>2. CASE q = even
    BY <1>8, <2>1, <2>2
  <2>3. CASE q \in beside
    <3>1. q \in Mantissa /\ 2 * (q * d - n) \in {-d, d}
      BY <1>7, <2>3
    <3>2. QED
      BY <1>5, <2>1, <3>1
  <2>4. QED
    BY <2>2, <2>3
<1>11. r \in Decimal /\ ~r.neg /\ Worth(r) = q * Last(t)
  <2>1. (x.neg # y.neg) = FALSE
    BY WorthFacts, Zenon
  <2>2. FromParts(q, FALSE, t) \in Decimal /\ ~FromParts(q, FALSE, t).neg /\ Worth(FromParts(q, FALSE, t)) = q * Last(t)
    BY <1>4, <1>10, PartsWorth
  <2>3. QED
    BY <1>9, <2>1, <2>2, StrippedWorth
<1> DEFINE L == Last(t)  W == Worth(y)  N == Wide(x)
<1>12. L \in Nat \ {0} /\ W \in Nat /\ N \in Nat
  BY <1>4, MathsFacts, WorthFacts
<1>13. -(L * W) <= 2 * ((q * L) * W - N) /\ 2 * ((q * L) * W - N) <= L * W
  <2> HIDE DEF L, W, N
  <2>1. n * k = N /\ d * k = L * W
    BY <1>6 DEF L, W, N
  <2>2. (-d) * k <= (2 * (q * d - n)) * k /\ (2 * (q * d - n)) * k <= d * k
    <3>1. -d \in Int /\ 2 * (q * d - n) \in Int /\ d \in Int /\ k \in Nat
      BY <1>5, <1>10
    <3>2. QED
      BY <1>10, <3>1, MulMono
  <2>3. (-d) * k = -(d * k) /\ (2 * (q * d - n)) * k = 2 * (q * (d * k) - n * k)
    BY <1>5, <1>6, <1>10
  <2>4. q * (L * W) = (q * L) * W
    BY <1>10, <1>12
  <2>5. QED
    BY <2>1, <2>2, <2>3, <2>4
<1>14. t = MAX_SCALE \/ (2 * Max96 + 1) * (L * W) <= 2 * (Ten * N)
  <2>1. SUFFICES ASSUME t # MAX_SCALE PROVE (2 * Max96 + 1) * (L * W) <= 2 * (Ten * N)
    OBVIOUS
  <2> DEFINE u == t + 1
  <2>2. u \in 0..MAX_SCALE /\ L = Ten * Last(u) /\ ~(u <= t)
    BY <1>4, <2>1, LastBefore, MathsFacts
  <2> HIDE DEF u
  <2> DEFINE n1 == top(u)  d1 == divisor(u)  J == Last(u)
  <2>3. n1 \in Nat /\ d1 \in Nat \ {0} /\ J \in Nat \ {0}
    BY <1>2, <2>2, MathsFacts
  <2>4. PICK i \in Nat \ {0} : n1 * i = N /\ d1 * i = J * W
    BY <1>2, <2>2
  <2>5. HalfEven(n1, d1) > Max96
    <3>1. ~(HalfEven(n1, d1) <= Max96)
      BY <1>4, <2>2
    <3> HIDE DEF n1, d1
    <3>2. HalfEven(n1, d1) \in Nat /\ Max96 \in Nat
      BY <2>3, HalfEvenRight, MathsFacts
    <3>3. QED
      BY <3>1, <3>2
  <2> HIDE DEF n1, d1, J, N, W, L
  <2> DEFINE M == Max96
  <2>6. M \in Nat /\ Ten \in Nat
    BY MathsFacts
  <2>7. (2 * M + 1) * d1 <= 2 * n1
    BY <2>3, <2>5, <2>6, HalfEvenAbove
  <2> HIDE DEF M
  <2>8. ((2 * M + 1) * d1) * i <= (2 * n1) * i
    <3>1. (2 * M + 1) * d1 \in Int /\ 2 * n1 \in Int
      BY <2>3, <2>6
    <3>2. QED
      BY <2>4, <2>7, <3>1, MulMono
  <2>9. ((2 * M + 1) * d1) * i = (2 * M + 1) * (d1 * i) /\ (2 * n1) * i = 2 * (n1 * i)
    <3>1. 2 * M + 1 \in Int /\ d1 \in Int /\ i \in Int /\ n1 \in Int /\ 2 \in Int
      BY <2>3, <2>6
    <3>2. QED
      BY <3>1, MulAssoc
  <2>10. (2 * M + 1) * (J * W) <= 2 * N
    BY <2>4, <2>8, <2>9
  <2>11. Ten * ((2 * M + 1) * (J * W)) <= Ten * (2 * N)
    <3>1. (2 * M + 1) * (J * W) \in Int /\ 2 * N \in Int
      BY <1>12, <2>3, <2>6
    <3>2. ((2 * M + 1) * (J * W)) * Ten <= (2 * N) * Ten
      BY <2>6, <2>10, <3>1, MulMono
    <3>3. QED
      BY <2>6, <3>1, <3>2, MulAssoc
  <2>12. Ten * ((2 * M + 1) * (J * W)) = (2 * M + 1) * ((Ten * J) * W) /\ Ten * (2 * N) = 2 * (Ten * N)
    BY <1>12, <2>3, <2>6
  <2>13. L = Ten * J
    BY <2>2 DEF J
  <2>14. QED
    BY <2>11, <2>12, <2>13 DEF M
<1>15. QED
  BY <1>1, <1>4, <1>10, <1>11, <1>13, <1>14

\* A sum of two positive numbers: exact, or within half of a last place of a scale that
\* has no room for another digit.
LEMMA SumNear ==
    ASSUME NEW x \in Decimal, NEW y \in Decimal, NEW r \in Sums(x, y)
    PROVE  /\ r \in Decimal /\ ~r.neg
           /\ \E t \in 0..MAX_SCALE, m \in Mantissa :
                /\ Worth(r) = m * Last(t)
                /\ \/ Worth(r) = Worth(x) + Worth(y)
                   \/ /\ -Last(t) <= 2 * (Worth(r) - (Worth(x) + Worth(y)))
                      /\ 2 * (Worth(r) - (Worth(x) + Worth(y))) <= Last(t)
                      /\ (2 * Max96 + 1) * Last(t) <= 2 * (Ten * (Worth(x) + Worth(y)))
<1> DEFINE v == SumOf(x, y).v
           s == SumOf(x, y).s
<1>1. /\ x.m \in Nat /\ x.s \in 0..MAX_SCALE /\ y.m \in Nat /\ y.s \in 0..MAX_SCALE
      /\ Worth(x) \in Nat /\ Worth(y) \in Nat
      /\ MAX_SCALE \in Nat /\ PowLimit \in Nat /\ 2 * MAX_SCALE <= PowLimit /\ Max96 \in Nat /\ Ten \in Nat
  BY WorthFacts, MathsFacts
<1>2. s = (IF x.s > y.s THEN x.s ELSE y.s) /\ v = x.m * POWERS[s - x.s] + y.m * POWERS[s - y.s]
  BY DEF SumOf
<1>3. s \in 0..MAX_SCALE /\ s - x.s \in 0..PowLimit /\ s - y.s \in 0..PowLimit /\ s \in 0..PowLimit /\ s \in Nat
  BY <1>1, <1>2
<1> HIDE DEF v, s
<1>4. v \in Nat
  <2>1. POWERS[s - x.s] \in Nat /\ POWERS[s - y.s] \in Nat
    BY <1>3, PowersType
  <2>2. QED
    BY <1>1, <1>2, <2>1
<1>5. Fits(v, s) /\ r = FromParts(Rounded(v, s).m, FALSE, Rounded(v, s).s)
  BY DEF Sums, Answers, v, s
<1> DEFINE m == Rounded(v, s).m
           t == Rounded(v, s).s
<1>6. SmallerOf(s, MAX_SCALE) = s
  BY <1>3, <1>1 DEF SmallerOf
<1>7. /\ t \in 0..s /\ t \in 0..MAX_SCALE /\ m = HalfEven(v, POWERS[s - t]) /\ m \in Mantissa
      /\ \A u \in 0..s : HalfEven(v, POWERS[s - u]) <= Max96 => u <= t
  BY <1>3, <1>4, <1>5, <1>6, RoundedMost
<1> HIDE DEF m, t
<1>8. r = FromParts(m, FALSE, t)
  BY <1>5 DEF m, t
<1>9. r \in Decimal /\ ~r.neg /\ Worth(r) = m * Last(t)
  BY <1>7, <1>8, PartsWorth
<1> DEFINE k == Last(s)
<1>10. k \in Nat \ {0}
  BY <1>3, MathsFacts
<1>11. \A i \in 0..s : POWERS[s - i] \in Nat \ {0} /\ Last(i) = POWERS[s - i] * k
  <2>1. ASSUME NEW i \in 0..s PROVE POWERS[s - i] \in Nat \ {0} /\ Last(i) = POWERS[s - i] * k
    <3> DEFINE a == s - i
               b == MAX_SCALE - s
    <3>1. a \in 0..PowLimit /\ b \in 0..PowLimit /\ a + b = MAX_SCALE - i /\ a + b <= PowLimit
      BY <1>1, <1>3
    <3> HIDE DEF a, b
    <3>2. POWERS[a + b] = POWERS[a] * POWERS[b] /\ POWERS[a] \in Nat \ {0}
      BY <3>1, PowersAdd, PowersType
    <3>3. QED
      BY <3>1, <3>2 DEF Last, a, b
  <2>2. QED
    BY <2>1
<1>12. Worth(x) + Worth(y) = v * k
  <2>1. x.s \in 0..s /\ y.s \in 0..s
    BY <1>1, <1>2
  <2>2. Worth(x) = x.m * (POWERS[s - x.s] * k) /\ Worth(y) = y.m * (POWERS[s - y.s] * k)
    BY <1>11, <2>1, WorthFacts
  <2> DEFINE a == POWERS[s - x.s]  b == POWERS[s - y.s]
  <2>3. a \in Nat /\ b \in Nat /\ v = x.m * a + y.m * b
    BY <1>2, <1>11, <2>1
  <2> HIDE DEF a, b, k
  <2>4. (x.m * a + y.m * b) * k = x.m * (a * k) + y.m * (b * k)
    <3>1. (x.m * a + y.m * b) * k = (x.m * a) * k + (y.m * b) * k
      BY <1>1, <1>10, <2>3, Distribute
    <3>2. (x.m * a) * k = x.m * (a * k) /\ (y.m * b) * k = y.m * (b * k)
      BY <1>1, <1>10, <2>3, MulAssoc
    <3>3. QED
      BY <3>1, <3>2
  <2>5. QED
    BY <2>2, <2>3, <2>4 DEF a, b
<1>13. m \in Nat /\ Max96 \in Nat
  BY <1>7, BaseType DEF Mantissa
<1>14. CASE t = s
  <2>1. s - t = 0 /\ POWERS[0] = 1
    BY <1>3, <1>14, MathsFacts
  <2>2. m = v
    BY <1>4, <1>7, <2>1, HalfEvenExact
  <2>3. Worth(r) = Worth(x) + Worth(y)
    BY <1>9, <1>12, <1>14, <2>2
  <2>4. QED
    BY <1>7, <1>9, <2>3
<1>15. CASE t # s
  <2> DEFINE u == t + 1
             p == POWERS[s - t]
             j == POWERS[s - u]
             S == Worth(x) + Worth(y)
             M == Max96
  <2>1. u \in 0..s /\ ~(u <= t) /\ t \in 0..MAX_SCALE /\ t # MAX_SCALE
    BY <1>3, <1>7, <1>15, <1>1
  <2>2. p \in Nat \ {0} /\ j \in Nat \ {0} /\ Last(t) = p * k /\ Last(u) = j * k
    BY <1>7, <1>11, <2>1
  <2>3. -p <= 2 * (v - m * p) /\ 2 * (v - m * p) <= p
    BY <1>4, <1>7, <2>2, HalfEvenRight DEF IsHalfEven
  <2>4. HalfEven(v, j) > M
    <3>1. ~(HalfEven(v, j) <= M)
      BY <1>7, <2>1
    <3> HIDE DEF j
    <3>2. HalfEven(v, j) \in Nat
      BY <1>4, <2>2, HalfEvenRight
    <3>3. QED
      BY <1>13, <3>1, <3>2
  <2>5. (2 * M + 1) * j <= 2 * v
    BY <1>4, <1>13, <2>2, <2>4, HalfEvenAbove
  <2>6. Last(t) = Ten * Last(u)
    BY <2>1, LastBefore
  <2>7. S = v * k /\ M \in Nat /\ Worth(r) = m * (p * k)
    BY <1>9, <1>12, <1>13, <2>2
  <2> DEFINE D == Last(t)
  <2>8. D = p * k /\ D = Ten * (j * k)
    BY <2>2, <2>6
  <2> HIDE DEF p, j, S, M, D, k, u
  <2>9. -D <= 2 * (m * (p * k) - v * k) /\ 2 * (m * (p * k) - v * k) <= D
    <3>1. (-p) * k <= (2 * (v - m * p)) * k /\ (2 * (v - m * p)) * k <= p * k
      <4>1. -p \in Int /\ 2 * (v - m * p) \in Int /\ p \in Int
        BY <1>4, <1>13, <2>2
      <4>2. QED
        BY <1>10, <2>3, <4>1, MulMono
    <3>2. (2 * (v - m * p)) * k = 2 * (v * k - m * (p * k)) /\ (-p) * k = -(p * k)
      BY <1>4, <1>10, <1>13, <2>2
    <3>3. m * (p * k) \in Int /\ v * k \in Int /\ p * k \in Int
      BY <1>4, <1>10, <1>13, <2>2
    <3>4. QED
      BY <2>8, <3>1, <3>2, <3>3
  <2>10. (2 * M + 1) * D <= 2 * (Ten * S)
    <3>1. ((2 * M + 1) * j) * (Ten * k) <= (2 * v) * (Ten * k)
      <4>1. (2 * M + 1) * j \in Int /\ 2 * v \in Int /\ Ten * k \in Nat
        BY <1>1, <1>4, <1>10, <2>2, <2>7
      <4>2. QED
        BY <2>5, <4>1, MulMono
    <3>2. ((2 * M + 1) * j) * (Ten * k) = (2 * M + 1) * (Ten * (j * k)) /\ (2 * v) * (Ten * k) = 2 * (Ten * (v * k))
      BY <1>1, <1>4, <1>10, <2>2, <2>7
    <3>3. QED
      BY <2>7, <2>8, <3>1, <3>2
  <2>11. -D <= 2 * (Worth(r) - S) /\ 2 * (Worth(r) - S) <= D
    BY <2>7, <2>9
  <2>12. QED
    BY <1>7, <1>9, <2>10, <2>11 DEF D, S, M
<1>16. QED
  BY <1>14, <1>15

\* The places that a mantissa has room for are as many as fit.
LEMMA RoomFacts ==
    ASSUME NEW d \in Decimal
    PROVE  LET t == Room(d)
               a == d.m * POWERS[t - d.s]
           IN  /\ t \in 0..MAX_SCALE /\ t - d.s \in 0..MAX_SCALE
               /\ a \in Nat /\ a <= Max96 /\ Worth(d) = a * Last(t)
               /\ t = MAX_SCALE \/ a * Ten > Max96
<1> DEFINE n == MAX_SCALE - d.s
           good(t) == /\ d.m * POWERS[t - d.s] <= Max96
                      /\ t = MAX_SCALE \/ d.m * POWERS[t + 1 - d.s] > Max96
           t == CHOOSE t \in d.s..MAX_SCALE : good(t)
<1>1. /\ d.m \in Mantissa /\ d.m \in Nat /\ d.s \in 0..MAX_SCALE /\ n \in 0..PowLimit
      /\ MAX_SCALE \in Nat /\ PowLimit \in Nat /\ 2 * MAX_SCALE <= PowLimit /\ Max96 \in Nat /\ Ten \in Nat
  BY WorthFacts, MathsFacts
<1>2. PICK k \in 0..n : d.m * POWERS[k] <= Max96 /\ (k = n \/ d.m * POWERS[k + 1] > Max96)
  BY <1>1, LargestFitting
<1>3. \E i \in d.s..MAX_SCALE : good(i)
  <2>1. d.s + k \in d.s..MAX_SCALE /\ d.s + k - d.s = k /\ d.s + k + 1 - d.s = k + 1 /\ (k = n => d.s + k = MAX_SCALE)
    BY <1>1
  <2>2. good(d.s + k)
    <3>0. ASSUME NEW e, e = d.s + k
          PROVE  e - d.s = k /\ e + 1 - d.s = k + 1 /\ (k = n => e = MAX_SCALE)
      BY <1>1, <3>0
    <3> DEFINE e == d.s + k
    <3>1. e - d.s = k /\ e + 1 - d.s = k + 1 /\ (k = n => e = MAX_SCALE)
      BY <3>0
    <3> HIDE DEF e, n
    <3>2. d.m * POWERS[e - d.s] <= Max96
      BY <1>2, <3>1
    <3>3. e = MAX_SCALE \/ d.m * POWERS[e + 1 - d.s] > Max96
      BY <1>2, <3>1
    <3>4. QED
      BY <3>2, <3>3 DEF e
  <2> HIDE DEF good
  <2>3. QED
    BY <2>1, <2>2
<1>4. t \in d.s..MAX_SCALE /\ good(t)
  <2> HIDE DEF good
  <2>1. QED
    BY <1>3
<1>5. Room(d) = t
  BY DEF Room
<1> HIDE DEF t
<1> DEFINE j == t - d.s
           a == d.m * POWERS[j]
<1>6. /\ t \in 0..MAX_SCALE /\ j \in 0..MAX_SCALE /\ a <= Max96
      /\ t = MAX_SCALE \/ d.m * POWERS[j + 1] > Max96
  <2>1. t + 1 - d.s = j + 1
    BY <1>1, <1>4
  <2>2. t \in 0..MAX_SCALE /\ j \in 0..MAX_SCALE
    BY <1>1, <1>4
  <2>3. d.m * POWERS[j] <= Max96
    BY <1>4, Zenon
  <2>4. t = MAX_SCALE \/ d.m * POWERS[t + 1 - d.s] > Max96
    BY <1>4
  <2> HIDE DEF j
  <2>5. QED
    BY <2>1, <2>2, <2>3, <2>4
<1> DEFINE i == MAX_SCALE - t
<1>7. j \in 0..PowLimit /\ i \in 0..PowLimit /\ j + i = MAX_SCALE - d.s /\ j + i <= PowLimit /\ 1 \in 0..PowLimit /\ j + 1 \in Nat
  <2>1. t \in 0..MAX_SCALE /\ t - d.s \in 0..MAX_SCALE
    BY <1>6
  <2>2. QED
    BY <1>1, <2>1, MathsFacts
<1> HIDE DEF i, j
<1> DEFINE p == POWERS[j]
           q == POWERS[i]
<1>8. p \in Nat \ {0} /\ q \in Nat \ {0} /\ POWERS[j + i] = p * q
  BY <1>7, PowersType, PowersAdd
<1>9. a \in Nat /\ Worth(d) = a * Last(t)
  <2>1. Worth(d) = d.m * (p * q) /\ Last(t) = q /\ a = d.m * p
    BY <1>7, <1>8 DEF Worth, Last, i
  <2> HIDE DEF p, q, a
  <2>2. d.m * p \in Nat /\ d.m * (p * q) = (d.m * p) * q
    <3> DEFINE m == d.m
    <3>1. m \in Nat
      BY <1>1
    <3> HIDE DEF m
    <3>2. m * p \in Nat /\ m * (p * q) = (m * p) * q
      BY <1>8, <3>1
    <3>3. QED
      BY <3>2 DEF m
  <2>3. QED
    BY <2>1, <2>2
<1>10. t = MAX_SCALE \/ a * Ten > Max96
  <2>1. SUFFICES ASSUME t # MAX_SCALE PROVE a * Ten > Max96
    OBVIOUS
  <2>2. j + 1 <= PowLimit
    BY <1>1, <1>6, <1>7, <2>1 DEF j
  <2>3. POWERS[j + 1] = p * Ten
    BY <1>7, <2>2, PowersAdd, MathsFacts
  <2>4. d.m * (p * Ten) = (d.m * p) * Ten
    <3> DEFINE m == d.m
    <3>1. m \in Nat
      BY <1>1
    <3> HIDE DEF m, p
    <3>2. m * (p * Ten) = (m * p) * Ten
      BY <1>1, <1>8, <3>1
    <3>3. QED
      BY <3>2 DEF m
  <2>5. QED
    BY <1>6, <2>1, <2>3, <2>4
<1>11. QED
  BY <1>5, <1>6, <1>9, <1>10 DEF j

\* A last place of a smaller scale is Ten of the next, or at least the square of Ten.
LEMMA LastRatio ==
    ASSUME NEW i \in 0..MAX_SCALE, NEW j \in 0..MAX_SCALE, i < j
    PROVE  \E k \in Nat \ {0} : Last(i) = (Ten * k) * Last(j) /\ (k = 1 \/ k >= Ten)
<1> DEFINE n == j - i - 1
           b == MAX_SCALE - j
<1>1. /\ n \in 0..PowLimit /\ b \in 0..PowLimit /\ 1 \in 0..PowLimit /\ n + 1 \in 0..PowLimit
      /\ (n + 1) + b = MAX_SCALE - i /\ (n + 1) + b <= PowLimit /\ n \in Nat
  BY MathsFacts
<1> HIDE DEF n, b
<1>2. POWERS[(n + 1) + b] = POWERS[n + 1] * POWERS[b] /\ POWERS[n + 1] = POWERS[n] * POWERS[1] /\ POWERS[1] = Ten
  BY <1>1, PowersAdd, MathsFacts
<1>3. POWERS[n] \in Nat \ {0} /\ (n = 0 => POWERS[n] = 1) /\ (n # 0 => POWERS[n] >= Ten)
  <2>1. n # 0 => POWERS[1] <= POWERS[n]
    BY <1>1, PowersMono
  <2>2. QED
    BY <1>1, <2>1, PowersType, MathsFacts
<1>4. POWERS[n] * Ten = Ten * POWERS[n] /\ Ten \in Nat
  BY <1>3, MathsFacts
<1>5. Last(i) = (Ten * POWERS[n]) * Last(j)
  BY <1>1, <1>2, <1>4 DEF Last, b
<1>6. POWERS[n] = 1 \/ POWERS[n] >= Ten
  BY <1>3
<1>7. QED
  BY <1>3, <1>5, <1>6

\* The largest mantissa ends in half of Ten.
LEMMA LargestEnds ==
    \E k \in Nat : Max96 = k * Ten + (Ten \div 2)
<1>1. Ten \in Nat \ {0} /\ B3 \in Nat /\ Max96 = B3 - 1 /\ Ten \div 2 \in Nat
  BY BaseAssumption, BaseType, MathsFacts
<1>2. B3 \div Ten \in Nat /\ B3 = (B3 \div Ten) * Ten + (B3 % Ten)
  BY <1>1, DivMod
<1>3. (B3 \div Ten) * Ten \in Nat
  BY <1>1, <1>2
<1>4. Max96 = (B3 \div Ten) * Ten + (Ten \div 2)
  BY <1>1, <1>2, <1>3, MathsAssumption
<1>5. QED
  BY <1>2, <1>4

\* A half is rounded at the last place that its mantissa has room for.
LEMMA HalfPlace ==
    ASSUME NEW d \in Decimal, NEW t \in 0..MAX_SCALE, NEW m \in Mantissa, NEW S \in Nat,
           Worth(d) = m * Last(t),
           S <= 2 * Worth(d) + Last(t),
           t = MAX_SCALE \/ (2 * Max96 + 1) * Last(t) <= Ten * S
    PROVE  t = Room(d)
<1> DEFINE u == Room(d)
           a == d.m * POWERS[u - d.s]
           M == Max96
           c == Ten \div 2
           D == Last(t)
           U == Last(u)
           G == Worth(d)
<1>1. /\ u \in 0..MAX_SCALE /\ a \in Nat /\ a <= M /\ G = a * U /\ (u = MAX_SCALE \/ a * Ten > M)
  BY RoomFacts
<1>2. /\ m \in Nat /\ m <= M /\ M \in Nat /\ Ten \in Nat /\ Ten >= 4 /\ c \in Nat /\ Ten = 2 * c /\ MAX_SCALE \in Nat
      /\ D \in Nat \ {0} /\ U \in Nat \ {0} /\ G \in Nat
  BY <1>1, MathsFacts, WorthFacts, BaseType DEF Mantissa
<1>3. G = m * D /\ S <= 2 * G + D /\ (t = MAX_SCALE \/ (2 * M + 1) * D <= Ten * S)
  OBVIOUS
<1>4. PICK z \in Nat : M = z * Ten + c
  BY LargestEnds
<1>5. t < u => \E k \in Nat \ {0} : D = (Ten * k) * U
  BY <1>1, LastRatio
<1>6. u < t => \E k \in Nat \ {0} : U = (Ten * k) * D
  BY <1>1, LastRatio
<1> HIDE DEF a, u, M, c, D, U, G
<1>7. ASSUME u < t PROVE FALSE
  <2>1. PICK k \in Nat \ {0} : U = (Ten * k) * D
    BY <1>6, <1>7
  <2>2. a * Ten > M
    BY <1>1, <1>2, <1>7
  <2>3. m * D = (a * (Ten * k)) * D
    BY <1>1, <1>2, <1>3, <2>1
  <2>4. m = a * (Ten * k)
    <3>1. a * (Ten * k) \in Nat
      BY <1>1, <1>2
    <3>2. QED
      BY <1>2, <2>3, <3>1, Cancel
  <2>5. a * (Ten * k) = k * (a * Ten) /\ 1 * (a * Ten) <= k * (a * Ten) /\ a * Ten \in Nat
    <3>1. a * Ten \in Nat /\ 1 <= k /\ k \in Int
      BY <1>1, <1>2
    <3>2. a * (Ten * k) = k * (a * Ten)
      BY <1>1, <1>2
    <3>3. QED
      BY <3>1, <3>2, MulMono
  <2>6. QED
    BY <1>2, <2>2, <2>4, <2>5
<1>8. ASSUME t < u PROVE FALSE
  <2>1. PICK k \in Nat \ {0} : D = (Ten * k) * U
    BY <1>5, <1>8
  <2>2. a * U = (m * (Ten * k)) * U
    BY <1>1, <1>2, <1>3, <2>1
  <2>3. a = m * (Ten * k)
    <3>1. m * (Ten * k) \in Nat
      BY <1>2
    <3>2. QED
      BY <1>1, <1>2, <2>2, <3>1, Cancel
  <2>4. m * Ten <= M
    <3>1. m * Ten \in Nat /\ 1 <= k /\ k \in Int
      BY <1>2
    <3>2. 1 * (m * Ten) <= k * (m * Ten) /\ k * (m * Ten) = m * (Ten * k)
      <4>1. k * (m * Ten) = m * (Ten * k)
        BY <1>2
      <4>2. QED
        BY <3>1, <4>1, MulMono
    <3>3. QED
      BY <1>1, <1>2, <2>3, <3>1, <3>2
  <2>5. m <= z
    <3>1. SUFFICES ASSUME z + 1 <= m PROVE FALSE
      BY <1>2
    <3>2. (z + 1) * Ten <= m * Ten /\ (z + 1) * Ten = z * Ten + Ten /\ z * Ten \in Nat /\ m * Ten \in Nat
      BY <1>2, <3>1, MulMono
    <3>3. QED
      BY <1>2, <1>4, <2>4, <3>2
  <2>6. (2 * M + 1) * D <= (Ten * (2 * m + 1)) * D
    <3>1. (2 * M + 1) * D <= Ten * S
      BY <1>1, <1>2, <1>3, <1>8
    <3>2. S <= 2 * (m * D) + D /\ 2 * (m * D) + D = (2 * m + 1) * D
      BY <1>2, <1>3
    <3>3. S * Ten <= ((2 * m + 1) * D) * Ten
      <4>1. (2 * m + 1) * D \in Int
        BY <1>2
      <4>2. QED
        BY <1>2, <3>2, <4>1, MulMono
    <3>4. ((2 * m + 1) * D) * Ten = (Ten * (2 * m + 1)) * D /\ S * Ten = Ten * S
      BY <1>2
    <3>5. (2 * M + 1) * D \in Int /\ Ten * S \in Int /\ (Ten * (2 * m + 1)) * D \in Int
      BY <1>2
    <3>6. QED
      BY <3>1, <3>3, <3>4, <3>5
  <2>7. 2 * M + 1 <= Ten * (2 * m + 1)
    <3>1. 2 * M + 1 \in Int /\ Ten * (2 * m + 1) \in Int
      BY <1>2
    <3>2. ~((Ten * (2 * m + 1)) * D < (2 * M + 1) * D)
      <4>1. (Ten * (2 * m + 1)) * D \in Int /\ (2 * M + 1) * D \in Int
        BY <1>2, <3>1
      <4>2. QED
        BY <2>6, <4>1
    <3>3. ~(Ten * (2 * m + 1) < 2 * M + 1)
      BY <1>2, <3>1, <3>2, Cancel
    <3>4. QED
      BY <3>1, <3>3
  <2>8. Ten * (2 * m + 1) = 2 * (m * Ten) + Ten /\ m * Ten <= z * Ten /\ m * Ten \in Nat /\ z * Ten \in Nat
    <3>1. Ten * (2 * m + 1) = 2 * (m * Ten) + Ten
      BY <1>2
    <3>2. QED
      BY <1>2, <2>5, <3>1, MulMono
  <2>9. QED
    BY <1>2, <1>4, <2>7, <2>8
<1>9. t = u
  BY <1>1, <1>2, <1>7, <1>8
<1>10. QED
  BY <1>9 DEF u

\* The guess G of a last places U is half of S, which is the sum of G and of the quotient
\* Q in n places D.
Averaged(M, c, T, a, U, G, Q, S, D, n) ==
    /\ M \in Nat /\ c \in Nat /\ c >= 2 /\ T \in Nat /\ T = 2 * c /\ T * T <= M
    /\ a \in Nat /\ a <= M /\ U \in Nat \ {0} /\ G \in Nat /\ G = a * U
    /\ Q \in Nat /\ S \in Nat /\ D \in Nat \ {0} /\ n \in Nat
    /\ S = n * D /\ -U <= 2 * G - S /\ 2 * G - S <= U
    /\ S = G + Q \/ (-D <= 2 * (S - (G + Q)) /\ 2 * (S - (G + Q)) <= D /\ (2 * M + 1) * D <= 2 * (T * (G + Q)))
    /\ D <= U \/ \E k \in Nat \ {0} : D = (T * k) * U /\ (k = 1 \/ k >= T)

\* How far a guess is from the quotient it was averaged with, by the rounding of their sum:
\* as far as one and a half last places, or as half of Ten and then only near the end.
LEMMA SumApart ==
    ASSUME NEW M, NEW c, NEW T, NEW a, NEW U, NEW G, NEW Q, NEW S, NEW D, NEW n,
           Averaged(M, c, T, a, U, G, Q, S, D, n)
    PROVE  \/ -(3 * U) <= 2 * (G - Q) /\ 2 * (G - Q) <= 3 * U
           \/ /\ -(c * U) <= G - Q /\ G - Q <= c * U
              /\ 2 * M + 1 - T <= 4 * a
<1> SUFFICES ASSUME M \in Nat, c \in Nat, c >= 2, T \in Nat, T = 2 * c, T * T <= M, a \in Nat, a <= M,
                      U \in Nat \ {0}, G \in Nat, G = a * U, Q \in Nat, S \in Nat, D \in Nat \ {0}, n \in Nat,
                      S = n * D, -U <= 2 * G - S, 2 * G - S <= U,
                      S = G + Q \/ (-D <= 2 * (S - (G + Q)) /\ 2 * (S - (G + Q)) <= D /\ (2 * M + 1) * D <= 2 * (T * (G + Q))),
                      D <= U \/ \E k \in Nat \ {0} : D = (T * k) * U /\ (k = 1 \/ k >= T)
      PROVE  \/ -(3 * U) <= 2 * (G - Q) /\ 2 * (G - Q) <= 3 * U
             \/ /\ -(c * U) <= G - Q /\ G - Q <= c * U
                /\ 2 * M + 1 - T <= 4 * a
  BY DEF Averaged
<1>1. CASE S = G + Q \/ D <= U
  BY <1>1
<1>2. CASE S # G + Q /\ ~(D <= U)
  <2>1. PICK k \in Nat \ {0} : D = (T * k) * U /\ (k = 1 \/ k >= T)
    BY <1>2
  <2>2. -D <= 2 * (S - (G + Q)) /\ 2 * (S - (G + Q)) <= D /\ (2 * M + 1) * D <= 2 * (T * (G + Q))
    BY <1>2
  <2>3. S = 2 * G
    <3> DEFINE e == a - c * (n * k)
    <3>1. e \in Int
      OBVIOUS
    <3>2. 2 * G - S = (2 * e) * U
      <4>1. n * ((T * k) * U) = (2 * (c * (n * k))) * U
        OBVIOUS
      <4>2. (2 * e) * U = 2 * (a * U) - (2 * (c * (n * k))) * U
        OBVIOUS
      <4>3. QED
        BY <2>1, <4>1, <4>2
    <3> HIDE DEF e
    <3>3. ~(e >= 1)
      <4>1. SUFFICES ASSUME e >= 1 PROVE FALSE
        OBVIOUS
      <4>2. 2 * U <= (2 * e) * U
        BY <3>1, <4>1, MulMono
      <4>3. QED
        BY <3>1, <3>2, <4>2
    <3>4. ~(e <= -1)
      <4>1. SUFFICES ASSUME e <= -1 PROVE FALSE
        OBVIOUS
      <4>2. (2 * e) * U <= (-2) * U
        BY <3>1, <4>1, MulMono
      <4>3. QED
        BY <3>1, <3>2, <4>2
    <3>5. e = 0
      BY <3>1, <3>3, <3>4
    <3>6. QED
      BY <3>2, <3>5
  <2>4. -D <= 2 * (G - Q) /\ 2 * (G - Q) <= D
    BY <2>2, <2>3
  <2>5. (2 * M + 1) * k <= 4 * a + T * k
    <3>1. (2 * M + 1) * D <= T * (4 * G + D)
      <4>1. (2 * (G + Q)) * T <= (4 * G + D) * T
        <5>1. 2 * (G + Q) <= 4 * G + D
          BY <2>4
        <5>2. QED
          BY <5>1, MulMono
      <4>2. 2 * (T * (G + Q)) = (2 * (G + Q)) * T /\ (4 * G + D) * T = T * (4 * G + D)
        OBVIOUS
      <4>3. (2 * M + 1) * D \in Int /\ T * (4 * G + D) \in Int /\ 2 * (T * (G + Q)) \in Int
        OBVIOUS
      <4>4. QED
        BY <2>2, <4>1, <4>2, <4>3
    <3> DEFINE W == T * U
    <3>2. W \in Nat \ {0}
      <4>1. 0 * U < T * U
        BY Cancel
      <4>2. QED
        BY <4>1
    <3>3. (2 * M + 1) * D = ((2 * M + 1) * k) * W /\ T * (4 * G + D) = (4 * a + T * k) * W
      <4>1. (2 * M + 1) * ((T * k) * U) = ((2 * M + 1) * k) * (T * U)
        OBVIOUS
      <4>2. T * (4 * (a * U) + (T * k) * U) = (4 * a + T * k) * (T * U)
        OBVIOUS
      <4>3. QED
        BY <2>1, <4>1, <4>2
    <3> HIDE DEF W
    <3>4. (2 * M + 1) * k \in Int /\ 4 * a + T * k \in Int
      OBVIOUS
    <3>5. ((2 * M + 1) * k) * W <= (4 * a + T * k) * W
      BY <3>1, <3>3
    <3>6. ~((4 * a + T * k) * W < ((2 * M + 1) * k) * W)
      <4> DEFINE u == (2 * M + 1) * k  v == 4 * a + T * k
      <4>1. u \in Int /\ v \in Int /\ u * W <= v * W
        BY <3>4, <3>5
      <4> HIDE DEF u, v
      <4>2. ~(v * W < u * W)
        BY <3>2, <4>1
      <4>3. QED
        BY <4>2 DEF u, v
    <3>7. ~(4 * a + T * k < (2 * M + 1) * k)
      BY <3>2, <3>4, <3>6, Cancel
    <3>8. QED
      BY <3>4, <3>7
  <2>6. CASE k = 1
    <3>1. D = (2 * c) * U /\ (2 * c) * U = 2 * (c * U) /\ c * U \in Nat
      BY <2>1, <2>6
    <3>2. 2 * M + 1 - T <= 4 * a
      BY <2>5, <2>6
    <3>3. QED
      BY <2>4, <3>1, <3>2
  <2>7. CASE k >= T
    <3>1. T * T \in Nat /\ T >= 4
      OBVIOUS
    <3>2. (2 * M + 1 - T) * k <= 4 * M
      <4>1. (2 * M + 1 - T) * k = (2 * M + 1) * k - T * k
        OBVIOUS
      <4>2. (2 * M + 1) * k \in Int /\ T * k \in Int
        OBVIOUS
      <4>3. QED
        BY <2>5, <4>1, <4>2
    <3>3. T <= T * T
      <4>1. 1 * T <= T * T
        BY <3>1, MulMono
      <4>2. QED
        BY <4>1
    <3>4. 2 * M + 1 - T \in Nat
      BY <3>1, <3>3
    <3>5. T * (2 * M + 1 - T) <= k * (2 * M + 1 - T) /\ k * (2 * M + 1 - T) = (2 * M + 1 - T) * k
      BY <2>7, <3>4, MulMono
    <3>6. 4 * (2 * M + 1 - T) <= T * (2 * M + 1 - T)
      BY <3>1, <3>4, MulMono
    <3>7. 4 * (2 * M + 1 - T) <= 4 * M
      BY <3>2, <3>4, <3>5, <3>6
    <3>8. 4 * T <= T * T
      BY <3>1, MulMono
    <3>9. QED
      BY <3>1, <3>3, <3>7, <3>8
  <2>8. QED
    BY <2>1, <2>6, <2>7
<1>3. QED
  BY <1>1, <1>2

\* The quotient Q of N by G is n places D, and as far from G as SumApart says.
Divided(M, c, T, a, U, G, Q, N, D, n) ==
    /\ M \in Nat /\ c \in Nat /\ c >= 2 /\ T \in Nat /\ T = 2 * c /\ T * T <= M
    /\ a \in Nat \ {0} /\ a <= M /\ U \in Nat \ {0} /\ G \in Nat /\ G = a * U
    /\ Q \in Nat /\ N \in Nat /\ D \in Nat \ {0} /\ n \in Nat /\ n <= M /\ Q = n * D
    /\ -(D * G) <= 2 * (Q * G - N) /\ 2 * (Q * G - N) <= D * G
    /\ D <= U \/ ((2 * M + 1) * (D * G) <= 2 * (T * N) /\ \E k \in Nat \ {0} : D = (T * k) * U /\ (k = 1 \/ k >= T))
    /\ \/ -(3 * U) <= 2 * (G - Q) /\ 2 * (G - Q) <= 3 * U
       \/ -(c * U) <= G - Q /\ G - Q <= c * U /\ 2 * M + 1 - T <= 4 * a

\* The number is that near to the square of such a guess.
LEMMA SquareNear ==
    ASSUME NEW M, NEW c, NEW T, NEW a, NEW U, NEW G, NEW Q, NEW N, NEW D, NEW n,
           Divided(M, c, T, a, U, G, Q, N, D, n)
    PROVE  /\ N <= (G + c * U) * (G + c * U)
           /\ a > c => (G - c * U) * (G - c * U) <= N
<1> SUFFICES ASSUME M \in Nat, c \in Nat, c >= 2, T \in Nat, T = 2 * c, T * T <= M, a \in Nat \ {0}, a <= M,
                      U \in Nat \ {0}, G \in Nat, G = a * U, Q \in Nat, N \in Nat, D \in Nat \ {0}, n \in Nat, n <= M,
                      Q = n * D, -(D * G) <= 2 * (Q * G - N), 2 * (Q * G - N) <= D * G,
                      D <= U \/ ((2 * M + 1) * (D * G) <= 2 * (T * N) /\ \E k \in Nat \ {0} : D = (T * k) * U /\ (k = 1 \/ k >= T)),
                      \/ -(3 * U) <= 2 * (G - Q) /\ 2 * (G - Q) <= 3 * U
                      \/ -(c * U) <= G - Q /\ G - Q <= c * U /\ 2 * M + 1 - T <= 4 * a
      PROVE  /\ N <= (G + c * U) * (G + c * U)
             /\ a > c => (G - c * U) * (G - c * U) <= N
  BY DEF Divided
<1> DEFINE W == U * G
           V == U * U
           GG == G * G
           P == Q * G
<1>0. W \in Nat /\ V \in Nat \ {0} /\ GG \in Nat /\ P \in Nat /\ W = a * V /\ G \in Nat \ {0} /\ T >= 4
  <2>1. 0 * U < a * U /\ 0 * U < U * U
    BY Cancel
  <2>2. U * (a * U) = a * (U * U)
    OBVIOUS
  <2>3. QED
    BY <2>1, <2>2
<1>1. /\ (G + c * U) * (G + c * U) = GG + 2 * (c * W) + (c * c) * V
      /\ (G - c * U) * (G - c * U) = GG - 2 * (c * W) + (c * c) * V
      /\ (c * c) * V \in Nat /\ c * W \in Nat /\ c * c \in Nat
  OBVIOUS
<1>2. U <= c * U /\ 3 * U <= 2 * (c * U) /\ c * U \in Nat
  <2>1. 2 * U <= c * U
    BY MulMono
  <2>2. QED
    BY <2>1
<1>3. -(c * U) <= G - Q /\ G - Q <= c * U
  BY <1>2
<1>4. /\ P <= GG + c * W /\ GG - c * W <= P
      /\ -(3 * U) <= 2 * (G - Q) /\ 2 * (G - Q) <= 3 * U => 2 * GG - 3 * W <= 2 * P /\ 2 * P <= 2 * GG + 3 * W
  <2>1. Q * G <= (G + c * U) * G /\ (G - c * U) * G <= Q * G
    <3>1. Q <= G + c * U /\ G - c * U <= Q /\ G + c * U \in Int /\ G - c * U \in Int
      BY <1>3
    <3>2. QED
      BY <3>1, MulMono
  <2>2. (G + c * U) * G = G * G + c * (U * G) /\ (G - c * U) * G = G * G - c * (U * G)
    OBVIOUS
  <2>3. ASSUME -(3 * U) <= 2 * (G - Q), 2 * (G - Q) <= 3 * U
        PROVE  2 * GG - 3 * W <= 2 * P /\ 2 * P <= 2 * GG + 3 * W
    <3>1. (2 * G - 3 * U) * G <= (2 * Q) * G /\ (2 * Q) * G <= (2 * G + 3 * U) * G
      <4>1. 2 * G - 3 * U <= 2 * Q /\ 2 * Q <= 2 * G + 3 * U
        BY <2>3
      <4>2. QED
        BY <4>1, MulMono
    <3>2. (2 * G - 3 * U) * G = 2 * (G * G) - 3 * (U * G) /\ (2 * G + 3 * U) * G = 2 * (G * G) + 3 * (U * G) /\ (2 * Q) * G = 2 * (Q * G)
      OBVIOUS
    <3>3. QED
      BY <3>1, <3>2
  <2>4. QED
    BY <2>1, <2>2, <2>3
<1>5. W <= c * W /\ 2 * W <= c * W
  BY <1>0, MulMono
<1>6. CASE D <= U
  <2>1. D * G <= W /\ D * G \in Nat
    BY <1>6, MulMono
  <2>2. -W <= 2 * (P - N) /\ 2 * (P - N) <= W
    BY <1>0, <2>1
  <2>3. N <= GG + 2 * (c * W)
    BY <1>0, <1>1, <1>4, <1>5, <2>2
  <2>4. ASSUME a > c PROVE (G - c * U) * (G - c * U) <= N
    <3>1. CASE -(3 * U) <= 2 * (G - Q) /\ 2 * (G - Q) <= 3 * U
      <4>1. GG - 2 * W <= N
        BY <1>0, <1>4, <2>2, <3>1
      <4>2. c * c <= (2 * c - 2) * a
        <5>1. c * (2 * c - 2) <= a * (2 * c - 2)
          BY <2>4, MulMono
        <5>2. 2 * c <= c * c
          BY MulMono
        <5>3. c * (2 * c - 2) = 2 * (c * c) - 2 * c /\ a * (2 * c - 2) = (2 * c - 2) * a
          OBVIOUS
        <5>4. c * c \in Int /\ (2 * c - 2) * a \in Int
          OBVIOUS
        <5>5. QED
          BY <5>1, <5>2, <5>3, <5>4
      <4>3. (c * c) * V <= ((2 * c - 2) * a) * V
        <5>1. c * c \in Int /\ (2 * c - 2) * a \in Int
          OBVIOUS
        <5>2. QED
          BY <1>0, <4>2, <5>1, MulMono
      <4>4. ((2 * c - 2) * a) * V = 2 * (c * W) - 2 * W
        <5>1. ((2 * c - 2) * a) * V = (2 * c - 2) * (a * V)
          BY <1>0
        <5>2. (2 * c - 2) * W = 2 * (c * W) - 2 * W
          BY <1>0
        <5>3. QED
          BY <1>0, <5>1, <5>2
      <4>5. QED
        BY <1>0, <1>1, <4>1, <4>3, <4>4
    <3>2. CASE 2 * M + 1 - T <= 4 * a
      <4>1. 2 * GG - 2 * (c * W) - W <= 2 * N
        BY <1>0, <1>1, <1>4, <2>2
      <4>2. a >= c + 1
        BY <2>4
      <4>3. 2 * (c * c) <= (2 * c - 1) * a
        <5>1. (c + 1) * (2 * c - 1) <= a * (2 * c - 1)
          BY <4>2, MulMono
        <5>2. (c + 1) * (2 * c - 1) = 2 * (c * c) + c - 1 /\ a * (2 * c - 1) = (2 * c - 1) * a
          OBVIOUS
        <5>3. c * c \in Int /\ (2 * c - 1) * a \in Int
          OBVIOUS
        <5>4. QED
          BY <5>1, <5>2, <5>3
      <4>4. (2 * (c * c)) * V <= ((2 * c - 1) * a) * V
        <5>1. 2 * (c * c) \in Int /\ (2 * c - 1) * a \in Int
          OBVIOUS
        <5>2. QED
          BY <1>0, <4>3, <5>1, MulMono
      <4>5. ((2 * c - 1) * a) * V = 2 * (c * W) - W /\ (2 * (c * c)) * V = 2 * ((c * c) * V)
        <5>1. ((2 * c - 1) * a) * V = (2 * c - 1) * (a * V)
          BY <1>0
        <5>2. (2 * c - 1) * W = 2 * (c * W) - W
          BY <1>0
        <5>3. QED
          BY <1>0, <1>1, <5>1, <5>2
      <4>6. QED
        BY <1>0, <1>1, <4>1, <4>4, <4>5
    <3>3. QED
      BY <3>1, <3>2
  <2>5. QED
    BY <1>0, <1>1, <2>3, <2>4
<1>7. CASE ~(D <= U)
  <2>1. PICK k \in Nat \ {0} : D = (T * k) * U /\ (k = 1 \/ k >= T)
    BY <1>7
  <2>2. (2 * M + 1) * (D * G) <= 2 * (T * N) /\ D * G \in Nat
    BY <1>7
  <2>3. D * G = (T * k) * W
    <3>1. ((T * k) * U) * G = (T * k) * (U * G)
      OBVIOUS
    <3>2. QED
      BY <2>1, <3>1
  <2>4. (2 * M + 1) * (k * W) <= 2 * N
    <3>1. (2 * M + 1) * ((T * k) * W) = T * ((2 * M + 1) * (k * W)) /\ 2 * (T * N) = T * (2 * N)
      BY <1>0
    <3>2. ((2 * M + 1) * (k * W)) * T <= (2 * N) * T
      BY <1>0, <2>2, <2>3, <3>1
    <3> DEFINE u == (2 * M + 1) * (k * W)
    <3>3. u \in Int /\ u * T <= (2 * N) * T /\ T \in Nat \ {0} /\ 2 * N \in Int
      BY <1>0, <3>2
    <3> HIDE DEF u
    <3>4. ~((2 * N) * T < u * T)
      BY <3>3
    <3>5. ~(2 * N < u)
      BY <3>3, <3>4, Cancel
    <3>6. u <= 2 * N
      BY <3>3, <3>5
    <3>7. QED
      BY <3>6 DEF u
  <2>5. GG <= N
    <3>1. W <= k * W
      BY <1>0, MulMono
    <3>2. (2 * M + 1) * W <= (2 * M + 1) * (k * W)
      <4>1. k * W \in Int /\ 2 * M + 1 \in Nat
        BY <1>0
      <4>2. W * (2 * M + 1) <= (k * W) * (2 * M + 1)
        BY <1>0, <3>1, <4>1, MulMono
      <4>3. QED
        BY <1>0, <4>1, <4>2, MulAssoc
    <3>3. (2 * a) * W <= (2 * M + 1) * W
      BY <1>0, MulMono
    <3>4. (2 * a) * W = 2 * GG
      <4>1. (2 * a) * (U * (a * U)) = 2 * ((a * U) * (a * U))
        OBVIOUS
      <4>2. QED
        BY <4>1
    <3>5. (2 * a) * W \in Int /\ (2 * M + 1) * W \in Int /\ (2 * M + 1) * (k * W) \in Int
      BY <1>0
    <3>6. QED
      BY <1>0, <2>4, <3>2, <3>3, <3>4, <3>5
  <2>6. k = 1
    <3>1. SUFFICES ASSUME k >= T PROVE FALSE
      BY <2>1
    \* The quotient has to be large enough for its last place, and the guess with it.
    <3>2. 2 * N <= 2 * P + T * (k * W)
      <4>1. (T * k) * W = T * (k * W) /\ T * (k * W) \in Int
        BY <1>0
      <4>2. QED
        BY <1>0, <2>2, <2>3, <4>1
    <3>3. (2 * M + 1) * (k * W) <= 2 * (GG + c * W) + T * (k * W)
      <4>1. (2 * M + 1) * (k * W) \in Int /\ T * (k * W) \in Int
        BY <1>0
      <4>2. QED
        BY <1>0, <1>1, <1>4, <2>4, <3>2, <4>1
    <3>4. 2 * (GG + c * W) = (2 * a + T) * W
      <4>1. a * W = GG
        <5>1. a * (U * (a * U)) = (a * U) * (a * U)
          OBVIOUS
        <5>2. QED
          BY <5>1
      <4>2. (2 * a + T) * W = 2 * (a * W) + 2 * (c * W)
        BY <1>0
      <4>3. QED
        BY <1>0, <4>1, <4>2
    <3>5. ((2 * M + 1) * k) * W <= (2 * a + T + T * k) * W
      <4>1. ((2 * M + 1) * k) * W = (2 * M + 1) * (k * W) /\ (2 * a + T + T * k) * W = (2 * a + T) * W + T * (k * W)
        BY <1>0
      <4>2. QED
        BY <3>3, <3>4, <4>1
    <3>6. (2 * M + 1) * k <= 2 * a + T + T * k
      <4> DEFINE u == (2 * M + 1) * k  v == 2 * a + T + T * k
      <4>1. u \in Int /\ v \in Int /\ u * W <= v * W
        BY <3>5
      <4>2. W \in Nat \ {0}
        <5>1. 0 * V < a * V
          BY <1>0, Cancel
        <5>2. QED
          BY <1>0, <5>1
      <4> HIDE DEF u, v, W
      <4>3. ~(v * W < u * W)
        BY <4>1, <4>2
      <4>4. ~(v < u)
        BY <4>1, <4>2, <4>3, Cancel
      <4>5. u <= v
        BY <4>1, <4>4
      <4>6. QED
        BY <4>5 DEF u, v
    <3>7. (2 * M + 1 - T) * k <= 2 * M + T
      <4>1. (2 * M + 1 - T) * k = (2 * M + 1) * k - T * k /\ (2 * M + 1) * k \in Int /\ T * k \in Int
        OBVIOUS
      <4>2. QED
        BY <3>6, <4>1
    <3>8. 4 * T <= T * T /\ T * T \in Nat
      BY <1>0, MulMono
    <3>9. 2 * M + 1 - T \in Nat
      BY <3>8
    <3>10. 4 * (2 * M + 1 - T) <= k * (2 * M + 1 - T) /\ k * (2 * M + 1 - T) = (2 * M + 1 - T) * k
      BY <1>0, <3>1, <3>9, MulMono
    <3>11. 4 * (2 * M + 1 - T) <= 2 * M + T
      BY <3>7, <3>9, <3>10
    <3>12. QED
      BY <1>0, <3>8, <3>11
  <2>7. N <= GG + 2 * (c * W)
    <3>1. (T * k) * W = 2 * (c * W)
      BY <1>0, <2>6
    <3>2. N <= P + c * W
      BY <1>0, <1>1, <2>3, <3>1
    <3>3. QED
      BY <1>0, <1>1, <1>4, <3>2
  <2>8. ASSUME a > c PROVE (G - c * U) * (G - c * U) <= N
    <3>1. c * c <= (2 * c) * a
      <4>1. c * c <= a * c /\ a * c = c * a /\ (2 * c) * a = 2 * (c * a) /\ c * a \in Nat /\ c * c \in Nat
        BY <2>8, MulMono
      <4>2. QED
        BY <4>1
    <3>2. (c * c) * V <= ((2 * c) * a) * V
      <4>1. c * c \in Int /\ (2 * c) * a \in Int
        OBVIOUS
      <4>2. QED
        BY <1>0, <3>1, <4>1, MulMono
    <3>3. ((2 * c) * a) * V = 2 * (c * W)
      <4>1. ((2 * c) * a) * V = 2 * (c * (a * V))
        BY <1>0
      <4>2. QED
        BY <1>0, <4>1
    <3>4. QED
      BY <1>0, <1>1, <2>5, <3>2, <3>3
  <2>9. QED
    BY <1>0, <1>1, <2>7, <2>8
<1>8. QED
  BY <1>6, <1>7

\* What RootClose says of a root r of x.
NearRoot(x, r) ==
    LET t    == Room(r)
        a    == r.m * POWERS[t - r.s]
        c    == Ten \div 2
        v(b) == b * b * POWERS[IF x.s > 2 * t THEN x.s - 2 * t ELSE 0]
        n    == x.m * POWERS[IF x.s < 2 * t THEN 2 * t - x.s ELSE 0]
    IN  v(Off(a, SmallerOf(a, c))) <= n /\ n <= v(a + c)

\* A square and a number at the scale of the finer of the two.
LEMMA SquareScale ==
    ASSUME NEW x \in Decimal, NEW t \in 0..MAX_SCALE
    PROVE  LET p == POWERS[IF x.s > 2 * t THEN x.s - 2 * t ELSE 0]
               n == x.m * POWERS[IF x.s < 2 * t THEN 2 * t - x.s ELSE 0]
           IN  /\ p \in Nat /\ n \in Nat
               /\ \E k \in Nat \ {0} : p * k = Last(t) * Last(t) /\ n * k = Wide(x)
<1> DEFINE i == IF x.s > 2 * t THEN x.s - 2 * t ELSE 0
           j == IF x.s < 2 * t THEN 2 * t - x.s ELSE 0
           e == IF x.s > 2 * t THEN 2 * MAX_SCALE - x.s ELSE 2 * MAX_SCALE - 2 * t
           f == MAX_SCALE - t
<1>1. /\ x.m \in Nat /\ x.s \in 0..MAX_SCALE
      /\ MAX_SCALE \in Nat /\ PowLimit \in Nat /\ 2 * MAX_SCALE <= PowLimit
  BY WorthFacts, MathsFacts
<1>2. /\ i \in 0..PowLimit /\ j \in 0..PowLimit /\ e \in 0..PowLimit /\ f \in 0..PowLimit
      /\ i + e = f + f /\ j + e = 2 * MAX_SCALE - x.s /\ i + e <= PowLimit /\ j + e <= PowLimit /\ f + f <= PowLimit
  BY <1>1
<1> HIDE DEF i, j, e, f
<1>3. /\ POWERS[i] \in Nat /\ POWERS[j] \in Nat /\ POWERS[e] \in Nat \ {0}
      /\ POWERS[i] * POWERS[e] = POWERS[f] * POWERS[f]
      /\ POWERS[2 * MAX_SCALE - x.s] = POWERS[j] * POWERS[e]
  <2>1. POWERS[i + e] = POWERS[i] * POWERS[e] /\ POWERS[j + e] = POWERS[j] * POWERS[e] /\ POWERS[f + f] = POWERS[f] * POWERS[f]
    BY <1>2, PowersAdd
  <2>2. QED
    BY <1>2, <2>1, PowersType
<1> DEFINE n == x.m * POWERS[j]
<1>4. n \in Nat /\ n * POWERS[e] = x.m * (POWERS[j] * POWERS[e])
  <2> DEFINE m == x.m  A == POWERS[j]  B == POWERS[e]
  <2>1. m \in Nat /\ A \in Nat /\ B \in Nat
    BY <1>1, <1>3
  <2> HIDE DEF m, A, B
  <2>2. m * A \in Nat /\ (m * A) * B = m * (A * B)
    BY <2>1
  <2>3. QED
    BY <2>2 DEF m, A, B
<1>5. n * POWERS[e] = Wide(x) /\ POWERS[i] * POWERS[e] = Last(t) * Last(t)
  BY <1>3, <1>4 DEF Wide, Last, f
<1> HIDE DEF n
<1>6. \E k \in Nat \ {0} : POWERS[i] * k = Last(t) * Last(t) /\ n * k = Wide(x)
  BY <1>3, <1>5
<1>7. QED
  BY <1>3, <1>4, <1>6 DEF i, j, n

\* Places of larger scales are not larger.
LEMMA LastFalls ==
    ASSUME NEW i \in 0..MAX_SCALE, NEW j \in 0..MAX_SCALE, i <= j
    PROVE  Last(j) <= Last(i)
<1>1. MAX_SCALE - j \in 0..PowLimit /\ MAX_SCALE - i \in 0..PowLimit /\ MAX_SCALE - j <= MAX_SCALE - i
  BY MathsFacts
<1>2. QED
  BY <1>1, PowersMono DEF Last

\* A digit is a decimal, of that many wholes.
LEMMA SmallInteger ==
    ASSUME NEW n \in 0..2
    PROVE  /\ Integer(n) \in Decimal /\ ~Integer(n).neg /\ Integer(n).m = n
           /\ Worth(Integer(n)) = n * Last(0)
<1>1. n \in Mantissa /\ 0 \in 0..MAX_SCALE /\ n \in Nat /\ ~(n < 0)
  BY MathsFacts DEF Mantissa
<1>2. Integer(n) = [neg |-> FALSE, m |-> n, s |-> 0]
  <2>1. (n < 0) = FALSE
    BY <1>1
  <2>2. (IF n < 0 THEN -n ELSE n) = n
    BY <1>1
  <2>3. QED
    BY <2>1, <2>2 DEF Integer
<1>3. QED
  BY <1>1, <1>2 DEF Decimal, Worth, Last

\* The half of a sum, as a rounding of its worth.
LEMMA HalfNear ==
    ASSUME NEW x \in Decimal, ~x.neg, NEW g \in Quotients(x, Integer(2))
    PROVE  /\ g \in Decimal /\ ~g.neg
           /\ -Last(Room(g)) <= 2 * Worth(g) - Worth(x) /\ 2 * Worth(g) - Worth(x) <= Last(Room(g))
<1> DEFINE Z == Last(0)
           G == Worth(g)
           S == Worth(x)
           M == Max96
<1>1. Integer(2) \in Decimal /\ ~Integer(2).neg /\ Worth(Integer(2)) = 2 * Z
  BY SmallInteger
<1>2. Z \in Nat \ {0} /\ S \in Nat /\ Wide(x) = S * Z /\ M \in Nat /\ Ten \in Nat
  <2>1. 0 \in 0..MAX_SCALE /\ MAX_SCALE - 0 = MAX_SCALE
    BY MathsFacts
  <2>2. POWERS[MAX_SCALE] = Z
    BY <2>1 DEF Last
  <2>3. QED
    BY <2>1, <2>2, WorthFacts, MathsFacts
<1>3. g \in Decimal /\ ~g.neg
  BY <1>1, QuotientNear
<1>4. PICK t \in 0..MAX_SCALE, m \in Mantissa :
        /\ Worth(g) = m * Last(t)
        /\ -(Last(t) * Worth(Integer(2))) <= 2 * (Worth(g) * Worth(Integer(2)) - Wide(x))
        /\ 2 * (Worth(g) * Worth(Integer(2)) - Wide(x)) <= Last(t) * Worth(Integer(2))
        /\ t = MAX_SCALE \/ (2 * Max96 + 1) * (Last(t) * Worth(Integer(2))) <= 2 * (Ten * Wide(x))
  BY <1>1, QuotientNear
<1> DEFINE D == Last(t)
<1>5. D \in Nat \ {0} /\ G \in Nat
  BY <1>3, MathsFacts, WorthFacts
<1>6. /\ -(D * (2 * Z)) <= 2 * (G * (2 * Z) - S * Z) /\ 2 * (G * (2 * Z) - S * Z) <= D * (2 * Z)
      /\ t = MAX_SCALE \/ (2 * M + 1) * (D * (2 * Z)) <= 2 * (Ten * (S * Z))
  BY <1>1, <1>2, <1>4
<1> HIDE DEF Z, G, S, M, D
<1> DEFINE C == 2 * Z
           e == 2 * G - S
<1>7. C \in Nat \ {0} /\ e \in Int /\ -D \in Int
  BY <1>2, <1>5
<1>8. -D <= e /\ e <= D
  <2>1. D * (2 * Z) = D * C /\ -(D * (2 * Z)) = (-D) * C /\ 2 * (G * (2 * Z) - S * Z) = e * C
    BY <1>2, <1>5
  <2>2. (-D) * C <= e * C /\ e * C <= D * C /\ (-D) * C \in Int /\ e * C \in Int /\ D * C \in Int
    BY <1>6, <2>1, <1>2, <1>5
  <2> HIDE DEF C, e
  <2>3. ~(e * C < (-D) * C) /\ ~(D * C < e * C)
    BY <2>2
  <2>4. ~(e < -D) /\ ~(D < e)
    BY <1>5, <1>7, <2>3, Cancel
  <2>5. QED
    BY <1>5, <1>7, <2>4
<1>9. t = MAX_SCALE \/ (2 * M + 1) * D <= Ten * S
  <2>1. SUFFICES ASSUME t # MAX_SCALE PROVE (2 * M + 1) * D <= Ten * S
    OBVIOUS
  <2> DEFINE u == (2 * M + 1) * D  v == Ten * S
  <2>2. (2 * M + 1) * (D * (2 * Z)) = u * C /\ 2 * (Ten * (S * Z)) = v * C /\ u \in Int /\ v \in Int
    BY <1>2, <1>5
  <2>3. u * C <= v * C
    BY <1>6, <2>1, <2>2
  <2> HIDE DEF u, v, C
  <2>4. ~(v * C < u * C)
    BY <1>7, <2>2, <2>3
  <2>5. ~(v < u)
    BY <1>7, <2>2, <2>4, Cancel
  <2>6. u <= v
    BY <2>2, <2>5
  <2>7. QED
    BY <2>6 DEF u, v
<1>10. t = Room(g)
  <2>1. S <= 2 * G + D
    BY <1>2, <1>5, <1>8
  <2>2. S \in Nat /\ Worth(g) = m * Last(t) /\ S <= 2 * Worth(g) + Last(t)
        /\ (t = MAX_SCALE \/ (2 * Max96 + 1) * Last(t) <= Ten * S)
    BY <1>2, <1>4, <1>9, <2>1 DEF G, D, M
  <2>3. QED
    BY <1>3, <2>2, HalfPlace
<1>11. QED
  BY <1>3, <1>8, <1>10 DEF G, D, S

\* A guess that does not change is a root.
LEMMA SettledRoot ==
    ASSUME NEW x \in Decimal, ~x.neg, NEW g \in Decimal, ~g.neg, NEW l \in Decimal, ~l.neg,
           Worth(l) = Worth(g), NEW q \in Quotients(x, l), NEW sum \in Sums(l, q),
           g \in Quotients(sum, Integer(2))
    PROVE  NearRoot(x, g)
<1> DEFINE t == Room(g)
           a == g.m * POWERS[t - g.s]
           U == Last(t)
           G == Worth(g)
           Q == Worth(q)
           S == Worth(sum)
           N == Wide(x)
           M == Max96
           c == Ten \div 2
<1>1. l.m # 0 /\ q \in Decimal /\ ~q.neg /\ sum \in Decimal /\ ~sum.neg
  BY QuotientNear, SumNear
<1>2. /\ t \in 0..MAX_SCALE /\ a \in Nat /\ a <= M /\ G = a * U
      /\ M \in Nat /\ c \in Nat /\ c >= 2 /\ Ten \in Nat /\ Ten = 2 * c /\ Ten * Ten <= M
      /\ U \in Nat \ {0} /\ G \in Nat /\ Q \in Nat /\ S \in Nat /\ N \in Nat /\ G # 0
  <2>1. G # 0
    BY <1>1, WorthFacts
  <2>2. QED
    BY <1>1, <2>1, RoomFacts, WorthFacts, MathsFacts
<1>3. -U <= 2 * G - S /\ 2 * G - S <= U
  BY <1>1, HalfNear
<1>4. PICK ts \in 0..MAX_SCALE, ms \in Mantissa :
        /\ S = ms * Last(ts)
        /\ \/ S = G + Q
           \/ /\ -Last(ts) <= 2 * (S - (G + Q))
              /\ 2 * (S - (G + Q)) <= Last(ts)
              /\ (2 * M + 1) * Last(ts) <= 2 * (Ten * (G + Q))
  BY <1>1, SumNear
<1>5. PICK tq \in 0..MAX_SCALE, mq \in Mantissa :
        /\ Q = mq * Last(tq)
        /\ -(Last(tq) * G) <= 2 * (Q * G - N)
        /\ 2 * (Q * G - N) <= Last(tq) * G
        /\ tq = MAX_SCALE \/ (2 * M + 1) * (Last(tq) * G) <= 2 * (Ten * N)
  BY QuotientNear
<1>6. ms \in Nat /\ mq \in Nat /\ mq <= M /\ Last(ts) \in Nat \ {0} /\ Last(tq) \in Nat \ {0}
  BY BaseType, MathsFacts DEF Mantissa
<1>7. \A i \in 0..MAX_SCALE : Last(i) <= U \/ (i # MAX_SCALE /\ \E k \in Nat \ {0} : Last(i) = (Ten * k) * U /\ (k = 1 \/ k >= Ten))
  <2>1. ASSUME NEW i \in 0..MAX_SCALE
        PROVE  Last(i) <= U \/ (i # MAX_SCALE /\ \E k \in Nat \ {0} : Last(i) = (Ten * k) * U /\ (k = 1 \/ k >= Ten))
    <3>1. CASE t <= i
      BY <1>2, <3>1, LastFalls
    <3>2. CASE i < t
      <4>1. i # MAX_SCALE
        BY <1>2, <3>2, MathsFacts
      <4>2. QED
        BY <1>2, <3>2, <4>1, LastRatio
    <3>3. QED
      BY <1>2, <3>1, <3>2, MathsFacts
  <2>2. QED
    BY <2>1
<1> HIDE DEF t, a, U, G, Q, S, N, M, c
<1>8. a \in Nat \ {0}
  BY <1>2
<1>9. \/ -(3 * U) <= 2 * (G - Q) /\ 2 * (G - Q) <= 3 * U
      \/ /\ -(c * U) <= G - Q /\ G - Q <= c * U
         /\ 2 * M + 1 - Ten <= 4 * a
  <2>1. Last(ts) <= U \/ \E k \in Nat \ {0} : Last(ts) = (Ten * k) * U /\ (k = 1 \/ k >= Ten)
    BY <1>7
  <2> DEFINE D == Last(ts)
  <2>2. /\ D \in Nat \ {0} /\ S = ms * D /\ (D <= U \/ \E k \in Nat \ {0} : D = (Ten * k) * U /\ (k = 1 \/ k >= Ten))
        /\ S = G + Q \/ (-D <= 2 * (S - (G + Q)) /\ 2 * (S - (G + Q)) <= D /\ (2 * M + 1) * D <= 2 * (Ten * (G + Q)))
    BY <1>4, <1>6, <2>1
  <2> HIDE DEF D
  <2>3. Averaged(M, c, Ten, a, U, G, Q, S, D, ms)
    BY <1>2, <1>3, <1>6, <2>2 DEF Averaged
  <2>4. QED
    BY <2>3, SumApart
<1>10. N <= (G + c * U) * (G + c * U) /\ (a > c => (G - c * U) * (G - c * U) <= N)
  <2>1. Last(tq) <= U \/ (tq # MAX_SCALE /\ \E k \in Nat \ {0} : Last(tq) = (Ten * k) * U /\ (k = 1 \/ k >= Ten))
    BY <1>7
  <2> DEFINE D == Last(tq)
  <2>2. /\ D \in Nat \ {0} /\ Q = mq * D /\ -(D * G) <= 2 * (Q * G - N) /\ 2 * (Q * G - N) <= D * G
        /\ D <= U \/ ((2 * M + 1) * (D * G) <= 2 * (Ten * N) /\ \E k \in Nat \ {0} : D = (Ten * k) * U /\ (k = 1 \/ k >= Ten))
    BY <1>5, <1>6, <2>1
  <2> HIDE DEF D
  <2>3. Divided(M, c, Ten, a, U, G, Q, N, D, mq)
    BY <1>2, <1>6, <1>8, <1>9, <2>2 DEF Divided
  <2>4. QED
    BY <2>3, SquareNear
<1> DEFINE p == POWERS[IF x.s > 2 * t THEN x.s - 2 * t ELSE 0]
           n == x.m * POWERS[IF x.s < 2 * t THEN 2 * t - x.s ELSE 0]
<1>11. p \in Nat /\ n \in Nat /\ \E k \in Nat \ {0} : p * k = U * U /\ n * k = N
  BY <1>2, SquareScale DEF U, N
<1> HIDE DEF p, n
<1>12. PICK k \in Nat \ {0} : p * k = U * U /\ n * k = N
  BY <1>11
<1>13. ASSUME NEW b \in Nat
       PROVE  b * b * p \in Int /\ (b * b * p) * k = (b * U) * (b * U)
  <2>1. (b * b * p) * k = (b * b) * (p * k) /\ (b * b) * (U * U) = (b * U) * (b * U)
    BY <1>2, <1>11
  <2>2. QED
    BY <1>11, <1>12, <2>1
<1>14. n <= (a + c) * (a + c) * p
  <2> DEFINE b == a + c
             w == b * b * p
  <2>1. b \in Nat /\ b * U = G + c * U
    BY <1>2
  <2> HIDE DEF b
  <2>2. w \in Int /\ w * k = (G + c * U) * (G + c * U)
    BY <1>13, <2>1
  <2> HIDE DEF w
  <2>3. n * k <= w * k
    BY <1>10, <1>12, <2>2
  <2>4. ~(w * k < n * k)
    BY <1>11, <1>12, <2>2, <2>3
  <2>5. ~(w < n)
    BY <1>11, <1>12, <2>2, <2>4, Cancel
  <2>6. n <= w
    BY <1>11, <2>2, <2>5
  <2>7. QED
    BY <2>6 DEF w, b
<1> DEFINE o == Off(a, SmallerOf(a, c))
<1>15. o * o * p <= n
  <2>1. CASE a <= c
    <3>1. o = 0
      BY <1>2, <2>1 DEF Off, SmallerOf
    <3>2. 0 * 0 * p = 0
      BY <1>11
    <3>3. QED
      BY <1>11, <3>1, <3>2
  <2>2. CASE ~(a <= c)
    <3>1. o = a - c /\ o \in Nat /\ a > c
      BY <1>2, <2>2 DEF Off, SmallerOf
    <3>2. o * U = G - c * U
      <4>1. (a - c) * U = a * U - c * U
        BY <1>2
      <4>2. QED
        BY <1>2, <3>1, <4>1
    <3> DEFINE w == o * o * p
    <3> HIDE DEF o
    <3>3. w \in Int /\ w * k = (G - c * U) * (G - c * U)
      BY <1>13, <3>1, <3>2
    <3> HIDE DEF w
    <3>4. w * k <= n * k
      BY <1>10, <1>12, <3>1, <3>3
    <3>5. ~(n * k < w * k)
      BY <1>11, <1>12, <3>3, <3>4
    <3>6. ~(n < w)
      BY <1>11, <1>12, <3>3, <3>5, Cancel
    <3>7. w <= n
      BY <1>11, <3>3, <3>6
    <3>8. QED
      BY <3>7 DEF w
  <2>3. QED
    BY <2>1, <2>2
<1> HIDE DEF o
<1>16. QED
  BY <1>14, <1>15 DEF NearRoot, o, a, t, c, p, n

\* Where each function may be.
Stages(op) ==
    CASE op = "sqrt"  -> {"sqrt", "babylon", "done", "broken"}
      [] op = "log10" -> {"log10", "tens", "series", "done"}
      [] op = "none"  -> {"idle"}
      [] OTHER        -> {"powd", "powi", "squares", "series", "done"}

CallPart ==
    /\ maths \in [op : {"none", "powd", "powi", "sqrt", "log10"}, d : Decimal, n : Decimal]
    /\ mpc \in Stages(maths.op)

\* The guess was averaged from the last one, unless it is the first and differs from it.
RootPart ==
    mpc = "babylon" =>
        /\ ~X.neg
        /\ guess \in Decimal /\ ~guess.neg /\ last \in Decimal /\ ~last.neg
        /\ \/ ~Same(last, guess)
           \/ \E q \in Quotients(X, last) : \E sum \in Sums(last, q) : guess \in Quotients(sum, Integer(2))

\* The zeros taken off are counted, and no more than fit behind the point.
LogPart ==
    /\ mpc = "log10" => tens = 0
    /\ mpc = "tens" =>
        /\ ~X.neg /\ left \in Nat \ {0} /\ tens \in 0..MAX_SCALE
        /\ X.m = left * POWERS[tens]

MathsInv == CallPart /\ RootPart /\ LogPart /\ RootsAndLogarithms

\* Only a positive number has a root to be near.
LEMMA RootFound ==
    ASSUME mpc = "done" /\ maths.op = "sqrt" /\ X.m # 0 /\ ~X.neg => \A r \in reply : NearRoot(X, r)
    PROVE  RootClose
  BY DEF RootClose, NearRoot

\* What may hold of a logarithm.
TenTo(x, e) == e + x.s \in 0..PowLimit /\ x.m = POWERS[e + x.s] /\ ~x.neg

LEMMA LogarithmFound ==
    ASSUME maths.op = "log10" =>
               /\ mpc = "series" => \A e \in -MAX_SCALE..PowLimit : ~TenTo(X, e)
               /\ mpc = "done" /\ reply = {} => X.neg \/ X.m = 0
               /\ mpc = "done" => \A r \in reply : TenTo(X, IF r.neg THEN -r.m ELSE r.m)
    PROVE  LogarithmExact
  BY DEF LogarithmExact, TenTo

\* Decimals of the same value have the same worth.
LEMMA SameWorth ==
    ASSUME NEW x \in Decimal, NEW y \in Decimal, Same(x, y)
    PROVE  Worth(x) = Worth(y)
<1> DEFINE a == x.s  b == y.s  i == MAX_SCALE - x.s  j == MAX_SCALE - y.s  u == x.m  v == y.m
<1>1. u \in Nat /\ v \in Nat /\ a \in 0..MAX_SCALE /\ b \in 0..MAX_SCALE
  BY WorthFacts
<1>2. /\ a \in 0..PowLimit /\ b \in 0..PowLimit /\ i \in 0..PowLimit /\ j \in 0..PowLimit
      /\ a + i = MAX_SCALE /\ b + j = MAX_SCALE /\ MAX_SCALE <= PowLimit /\ MAX_SCALE \in 0..PowLimit
  BY <1>1, MathsFacts
<1>3. u * POWERS[b] = v * POWERS[a]
  BY DEF Same
<1>4. Worth(x) = u * POWERS[i] /\ Worth(y) = v * POWERS[j]
  BY DEF Worth
<1> HIDE DEF a, b, i, j, u, v
<1>5. POWERS[a + i] = POWERS[a] * POWERS[i] /\ POWERS[b + j] = POWERS[b] * POWERS[j]
  BY <1>2, PowersAdd
<1> DEFINE A == POWERS[a]  B == POWERS[b]  I == POWERS[i]  J == POWERS[j]  Z == POWERS[MAX_SCALE]
<1>6. /\ A \in Nat /\ B \in Nat /\ I \in Nat /\ J \in Nat /\ Z \in Nat \ {0}
      /\ Z = A * I /\ Z = B * J /\ u * B = v * A
  BY <1>2, <1>3, <1>5, PowersType
<1> HIDE DEF A, B, I, J, Z
<1>7. (u * I) * Z = (v * J) * Z
  <2>1. (u * I) * (B * J) = ((u * B) * I) * J /\ (v * J) * (A * I) = ((v * A) * I) * J
    BY <1>1, <1>6
  <2>2. QED
    BY <1>6, <2>1
<1>8. u * I = v * J
  <2>1. u * I \in Int /\ v * J \in Int
    BY <1>1, <1>6
  <2>2. QED
    BY <1>6, <1>7, <2>1, Cancel
<1>9. QED
  BY <1>4, <1>8 DEF I, J

\* One more is another number, rounded or not.
LEMMA OneMore ==
    ASSUME NEW g \in Decimal, NEW l \in Sums(g, Integer(1))
    PROVE  l \in Decimal /\ ~l.neg /\ ~Same(l, g)
<1>1. Integer(1) \in Decimal /\ Worth(Integer(1)) = 1 * Last(0)
  BY SmallInteger
<1>2. l \in Decimal /\ ~l.neg
  BY <1>1, SumNear
<1>3. ASSUME Worth(l) = Worth(g) PROVE FALSE
  <2>1. PICK t \in 0..MAX_SCALE, m \in Mantissa :
            \/ Worth(l) = Worth(g) + Worth(Integer(1))
            \/ -Last(t) <= 2 * (Worth(l) - (Worth(g) + Worth(Integer(1))))
    BY <1>1, SumNear
  <2> DEFINE Z == Last(0)  D == Last(t)  G == Worth(g)  L == Worth(l)
  <2>2. 0 \in 0..MAX_SCALE /\ 0 <= t
    BY MathsFacts
  <2>3. Z \in Nat \ {0} /\ D \in Nat /\ D <= Z /\ G \in Nat /\ L = G
    BY <1>3, <2>2, MathsFacts, WorthFacts, LastFalls
  <2>4. L = G + 1 * Z \/ -D <= 2 * (L - (G + 1 * Z))
    BY <1>1, <2>1
  <2> HIDE DEF Z, D, G, L
  <2>5. QED
    BY <2>3, <2>4
<1>4. QED
  BY <1>2, <1>3, SameWorth

-----------------------------------------------------------------------------
\* The powers leave the other functions alone.
LEMMA PowerSteps ==
    ASSUME MathsInv,
           PowdTrivial \/ PowdWhole \/ PowTrivial \/ PowSquare \/ PowStart \/ PowPass \/ PowDone
    PROVE  MathsInv'
<1>1. /\ maths \in [op : {"none", "powd", "powi", "sqrt", "log10"}, d : Decimal, n : Decimal]
      /\ mpc \in Stages(maths.op)
  BY DEF MathsInv, CallPart
<1>2. mpc \in {"powd", "powi", "squares"} /\ mpc' \in {"powd", "powi", "squares", "series", "done"}
  <2>1. CASE PowdTrivial
    BY <2>1 DEF PowdTrivial, Replies
  <2>2. CASE PowdWhole
    BY <2>2 DEF PowdWhole
  <2>3. CASE PowTrivial
    BY <2>3 DEF PowTrivial, Powered, Replies
  <2>4. CASE PowSquare
    BY <2>4 DEF PowSquare, Powered, Replies
  <2>5. CASE PowStart
    BY <2>5 DEF PowStart
  <2>6. CASE PowPass
    BY <2>6 DEF PowPass, Replies
  <2>7. CASE PowDone
    BY <2>7 DEF PowDone, Powered, Replies
  <2>8. QED
    BY <2>1, <2>2, <2>3, <2>4, <2>5, <2>6, <2>7
<1>3. maths.op \in {"powd", "powi"}
  BY <1>1, <1>2 DEF Stages
<1>4. maths'.op = maths.op /\ maths' \in [op : {"none", "powd", "powi", "sqrt", "log10"}, d : Decimal, n : Decimal]
  <2>1. CASE PowdWhole
    <3>1. maths' = [maths EXCEPT !.n = Stripped(maths.n)]
      BY <2>1 DEF PowdWhole
    <3>2. Stripped(maths.n) \in Decimal
      BY <1>1, StrippedWorth
    <3>3. QED
      BY <1>1, <3>1, <3>2
  <2>2. CASE ~PowdWhole
    <3>1. maths' = maths
      BY <2>2 DEF PowdTrivial, PowTrivial, PowSquare, PowStart, PowPass, PowDone
    <3>2. QED
      BY <1>1, <3>1
  <2>3. QED
    BY <2>1, <2>2
<1>5. CallPart'
  BY <1>2, <1>3, <1>4 DEF CallPart, Stages
<1>6. RootPart' /\ LogPart'
  BY <1>2 DEF RootPart, LogPart
<1>7. RootClose' /\ LogarithmExact'
  BY <1>3, <1>4 DEF RootClose, LogarithmExact
<1>8. QED
  BY <1>5, <1>6, <1>7 DEF MathsInv, RootsAndLogarithms

-----------------------------------------------------------------------------
\* What the steps of sqrt have in common.
LEMMA SqrtStage ==
    ASSUME MathsInv, mpc \in {"sqrt", "babylon"}, maths' = maths, mpc' \in {"babylon", "done", "broken"}
    PROVE  CallPart' /\ LogPart' /\ LogarithmExact' /\ X' = X /\ X \in Decimal /\ maths.op = "sqrt"
<1>1. /\ maths \in [op : {"none", "powd", "powi", "sqrt", "log10"}, d : Decimal, n : Decimal]
      /\ mpc \in Stages(maths.op)
  BY DEF MathsInv, CallPart
<1>2. maths.op = "sqrt"
  BY <1>1 DEF Stages
<1>3. CallPart'
  BY <1>1, <1>2 DEF CallPart, Stages
<1>4. LogPart' /\ LogarithmExact'
  BY <1>2 DEF LogPart, LogarithmExact
<1>5. QED
  BY <1>1, <1>2, <1>3, <1>4 DEF X

LEMMA SqrtTrivialStep == ASSUME MathsInv, SqrtTrivial PROVE MathsInv'
<1>1. mpc = "sqrt" /\ (X.neg \/ X.m = 0) /\ maths' = maths /\ mpc' = "done"
  BY DEF SqrtTrivial, Replies
<1>2. CallPart' /\ LogPart' /\ LogarithmExact' /\ X' = X
  BY <1>1, SqrtStage
<1>3. RootPart' /\ RootClose'
  BY <1>1, <1>2 DEF RootPart, RootClose
<1>4. QED
  BY <1>2, <1>3 DEF MathsInv, RootsAndLogarithms

LEMMA SqrtStartStep == ASSUME MathsInv, SqrtStart PROVE MathsInv'
<1>1. mpc = "sqrt" /\ ~X.neg /\ X.m # 0 /\ maths' = maths /\ mpc' = "babylon"
  BY DEF SqrtStart
<1>2. CallPart' /\ LogPart' /\ LogarithmExact' /\ X' = X /\ X \in Decimal
  BY <1>1, SqrtStage
<1>3. PICK h \in Quotients(X, Integer(2)) : guess' = (IF h.m = 0 THEN X ELSE h) /\ last' \in Sums(guess', Integer(1))
  BY DEF SqrtStart
<1>4. h \in Decimal /\ ~h.neg
  BY <1>1, <1>2, HalfNear
<1>5. guess' \in Decimal /\ ~guess'.neg
  BY <1>1, <1>2, <1>3, <1>4
<1>6. last' \in Decimal /\ ~last'.neg /\ ~Same(last', guess')
  BY <1>3, <1>5, OneMore
<1>7. RootPart'
  <2>1. Same(last, guess)' = Same(last', guess')
    BY DEF Same
  <2>2. QED
    BY <1>1, <1>2, <1>5, <1>6, <2>1 DEF RootPart
<1>8. RootClose'
  BY <1>1 DEF RootClose
<1>9. QED
  BY <1>2, <1>7, <1>8 DEF MathsInv, RootsAndLogarithms

LEMMA SqrtPassStep == ASSUME MathsInv, SqrtPass PROVE MathsInv'
<1>1. mpc = "babylon" /\ last' = guess /\ maths' = maths /\ mpc' = "babylon"
  BY DEF SqrtPass
<1>2. CallPart' /\ LogPart' /\ LogarithmExact' /\ X' = X /\ X \in Decimal
  BY <1>1, SqrtStage
<1>3. ~X.neg /\ guess \in Decimal /\ ~guess.neg
  BY <1>1 DEF MathsInv, RootPart
<1>4. PICK q \in Quotients(X, guess) : \E sum \in Sums(guess, q) : guess' \in Quotients(sum, Integer(2))
  BY DEF SqrtPass
<1>5. PICK sum \in Sums(guess, q) : guess' \in Quotients(sum, Integer(2))
  BY <1>4
<1>6. q \in Decimal /\ ~q.neg
  BY <1>2, <1>3, QuotientNear
<1>7. sum \in Decimal /\ ~sum.neg
  BY <1>3, <1>6, SumNear
<1>8. guess' \in Decimal /\ ~guess'.neg
  BY <1>5, <1>7, HalfNear
<1>9. (\E r \in Quotients(X, last) : \E s \in Sums(last, r) : guess \in Quotients(s, Integer(2)))'
  <2>1. \E r \in Quotients(X', last') : \E s \in Sums(last', r) : guess' \in Quotients(s, Integer(2))
    BY <1>1, <1>2, <1>4
  <2>2. QED
    BY <2>1 DEF Quotients, Sums, SumOf, Answers, Fits, Rounded
<1>10. RootPart'
  BY <1>1, <1>2, <1>3, <1>8, <1>9 DEF RootPart
<1>11. RootClose'
  BY <1>1 DEF RootClose
<1>12. QED
  BY <1>2, <1>10, <1>11 DEF MathsInv, RootsAndLogarithms

LEMMA SqrtBreaksStep == ASSUME MathsInv, SqrtBreaks PROVE MathsInv'
<1>1. mpc = "babylon" /\ maths' = maths /\ mpc' = "broken"
  BY DEF SqrtBreaks
<1>2. CallPart' /\ LogPart' /\ LogarithmExact'
  BY <1>1, SqrtStage
<1>3. RootPart' /\ RootClose'
  BY <1>1 DEF RootPart, RootClose
<1>4. QED
  BY <1>2, <1>3 DEF MathsInv, RootsAndLogarithms

LEMMA SqrtDoneStep == ASSUME MathsInv, SqrtDone PROVE MathsInv'
<1>1. mpc = "babylon" /\ Same(last, guess) /\ reply' = {guess} /\ maths' = maths /\ mpc' = "done"
  BY DEF SqrtDone, Replies
<1>2. CallPart' /\ LogPart' /\ LogarithmExact' /\ X' = X /\ X \in Decimal
  BY <1>1, SqrtStage
<1>3. /\ ~X.neg /\ guess \in Decimal /\ ~guess.neg /\ last \in Decimal /\ ~last.neg
      /\ \E q \in Quotients(X, last) : \E sum \in Sums(last, q) : guess \in Quotients(sum, Integer(2))
  BY <1>1 DEF MathsInv, RootPart
<1>4. NearRoot(X, guess)
  <2>1. PICK q \in Quotients(X, last) : \E sum \in Sums(last, q) : guess \in Quotients(sum, Integer(2))
    BY <1>3
  <2>2. PICK sum \in Sums(last, q) : guess \in Quotients(sum, Integer(2))
    BY <2>1
  <2>3. Worth(last) = Worth(guess)
    BY <1>1, <1>3, SameWorth
  <2>4. QED
    BY <1>2, <1>3, <2>2, <2>3, SettledRoot
<1>5. RootClose'
  <2>1. \A r \in reply' : NearRoot(X', r)
    BY <1>1, <1>2, <1>4
  <2>2. QED
    BY <2>1 DEF RootClose, NearRoot
<1>6. RootPart'
  BY <1>1 DEF RootPart
<1>7. QED
  BY <1>2, <1>5, <1>6 DEF MathsInv, RootsAndLogarithms

-----------------------------------------------------------------------------
\* What the steps of checked_log10 have in common.
LEMMA LogStage ==
    ASSUME MathsInv, mpc \in {"log10", "tens"}, maths' = maths, mpc' \in {"tens", "series", "done"}
    PROVE  CallPart' /\ RootPart' /\ RootClose' /\ X' = X /\ X \in Decimal /\ maths.op = "log10"
<1>1. /\ maths \in [op : {"none", "powd", "powi", "sqrt", "log10"}, d : Decimal, n : Decimal]
      /\ mpc \in Stages(maths.op)
  BY DEF MathsInv, CallPart
<1>2. maths.op = "log10"
  BY <1>1 DEF Stages
<1>3. CallPart'
  BY <1>1, <1>2 DEF CallPart, Stages
<1>4. RootPart' /\ RootClose'
  BY <1>2 DEF RootPart, RootClose
<1>5. QED
  BY <1>1, <1>2, <1>3, <1>4 DEF X

\* A whole number, and what it says when it is read.
LEMMA IntegerReads ==
    ASSUME NEW n \in Int
    PROVE  (IF Integer(n).neg THEN -Integer(n).m ELSE Integer(n).m) = n
<1>1. CASE n < 0
  <2>1. Integer(n).neg /\ Integer(n).m = -n
    BY <1>1 DEF Integer
  <2>2. QED
    BY <2>1
<1>2. CASE ~(n < 0)
  <2>1. ~Integer(n).neg /\ Integer(n).m = n
    BY <1>2 DEF Integer
  <2>2. QED
    BY <2>1
<1>3. QED
  BY <1>1, <1>2

LEMMA LogTrivialStep == ASSUME MathsInv, LogTrivial PROVE MathsInv'
<1>1. mpc = "log10" /\ maths' = maths /\ mpc' = "done"
  BY DEF LogTrivial, Replies
<1>2. CallPart' /\ RootPart' /\ RootClose' /\ X' = X /\ X \in Decimal
  BY <1>1, LogStage
<1>3. X.s \in 0..MAX_SCALE /\ X.s \in 0..PowLimit /\ X.m \in Nat /\ POWERS[0] = 1 /\ MAX_SCALE \in Nat /\ PowLimit \in Nat
  BY <1>2, WorthFacts, MathsFacts
<1>4. /\ reply' = {} => X.neg \/ X.m = 0
      /\ \A r \in reply' : TenTo(X, IF r.neg THEN -r.m ELSE r.m)
  <2>1. CASE (X.neg \/ X.m = 0) /\ reply' = {}
    BY <2>1
  <2>2. CASE IsOne(X) /\ reply' = {ZERO}
    <3>1. 0 + X.s = X.s /\ ZERO.m = 0 /\ ~ZERO.neg
      BY <1>3 DEF ZERO
    <3>2. TenTo(X, 0)
      BY <1>3, <2>2, <3>1 DEF IsOne, TenTo
    <3>3. QED
      BY <2>2, <3>1, <3>2
  <2>3. CASE ~X.neg /\ X.s > 0 /\ X.m = 1 /\ reply' = {Integer(-X.s)}
    <3>1. -X.s \in Int /\ (-X.s) + X.s = 0 /\ 0 \in 0..PowLimit
      BY <1>3
    <3>2. TenTo(X, -X.s)
      BY <1>3, <2>3, <3>1 DEF TenTo
    <3>3. (IF Integer(-X.s).neg THEN -Integer(-X.s).m ELSE Integer(-X.s).m) = -X.s
      BY <3>1, IntegerReads
    <3>4. QED
      BY <2>3, <3>2, <3>3
  <2>4. QED
    BY <2>1, <2>2, <2>3 DEF LogTrivial, Replies
<1>5. LogarithmExact'
  BY <1>1, <1>2, <1>4 DEF LogarithmExact, TenTo
<1>6. LogPart'
  BY <1>1 DEF LogPart
<1>7. QED
  BY <1>2, <1>5, <1>6 DEF MathsInv, RootsAndLogarithms

LEMMA LogStartStep == ASSUME MathsInv, LogStart PROVE MathsInv'
<1>1. mpc = "log10" /\ ~X.neg /\ X.m > 1 /\ maths' = maths /\ mpc' = "tens" /\ left' = X.m /\ tens' = tens
  BY DEF LogStart, logVars
<1>2. CallPart' /\ RootPart' /\ RootClose' /\ X' = X /\ X \in Decimal
  BY <1>1, LogStage
<1>3. tens = 0 /\ X.m \in Nat /\ X.m * POWERS[0] = X.m /\ 0 \in 0..MAX_SCALE
  <2>1. tens = 0
    BY <1>1 DEF MathsInv, LogPart
  <2>2. X.m \in Nat /\ POWERS[0] = 1 /\ 0 \in 0..MAX_SCALE
    BY <1>2, WorthFacts, MathsFacts
  <2>3. QED
    BY <2>1, <2>2
<1>4. LogPart'
  BY <1>1, <1>2, <1>3 DEF LogPart
<1>5. LogarithmExact'
  BY <1>1 DEF LogarithmExact
<1>6. QED
  BY <1>2, <1>4, <1>5 DEF MathsInv, RootsAndLogarithms

\* A mantissa is below the power that is left for the scale after the last.
LEMMA PowerBelow ==
    ASSUME NEW j \in 0..PowLimit, POWERS[j] <= Max96
    PROVE  j \in 0..MAX_SCALE
<1>1. MAX_SCALE + 1 \in 0..PowLimit /\ MAX_SCALE \in Nat /\ Max96 \in Nat /\ B3 = Max96 + 1 /\ B3 <= POWERS[MAX_SCALE + 1]
  <2>1. MAX_SCALE + 1 \in 0..PowLimit /\ MAX_SCALE \in Nat
    BY MathsFacts
  <2>2. B3 \in Nat /\ Max96 = B3 - 1 /\ Max96 \in Nat
    BY BaseType
  <2>3. QED
    BY <2>1, <2>2, MathsAssumption
<1>2. SUFFICES ASSUME j >= MAX_SCALE + 1 PROVE FALSE
  BY <1>1
<1>3. POWERS[MAX_SCALE + 1] <= POWERS[j]
  BY <1>1, <1>2, PowersMono
<1>4. POWERS[MAX_SCALE + 1] \in Nat /\ POWERS[j] \in Nat
  BY <1>1, PowersType
<1>5. QED
  BY <1>1, <1>3, <1>4

\* What is left of a power of Ten is 1, or ends in a zero.
LEMMA PowerLeft ==
    ASSUME NEW l \in Nat \ {0}, NEW z \in 0..MAX_SCALE, NEW j \in 0..PowLimit, l * POWERS[z] = POWERS[j]
    PROVE  l = 1 \/ l % Ten = 0
<1>1. z \in 0..PowLimit /\ MAX_SCALE \in Nat /\ PowLimit \in Nat /\ Ten \in Nat /\ Ten >= 4 /\ 1 \in 0..PowLimit /\ POWERS[1] = Ten
  BY MathsFacts
<1> DEFINE Z == POWERS[z]
<1>2. Z \in Nat \ {0}
  BY <1>1, PowersType
<1>3. CASE j = z
  <2>1. l * Z = 1 * Z
    BY <1>2, <1>3
  <2> HIDE DEF Z
  <2>2. QED
    BY <1>2, <2>1, Cancel
<1>4. CASE z < j
  <2> DEFINE i == j - z - 1
  <2>1. i \in 0..PowLimit /\ i + 1 \in 0..PowLimit /\ (i + 1) + z = j /\ (i + 1) + z <= PowLimit /\ i + 1 <= PowLimit
    BY <1>1, <1>4
  <2> HIDE DEF i
  <2>2. POWERS[(i + 1) + z] = POWERS[i + 1] * Z /\ POWERS[i + 1] = POWERS[i] * POWERS[1] /\ POWERS[i] \in Nat
    BY <1>1, <2>1, PowersAdd, PowersType
  <2> DEFINE I == POWERS[i]
  <2>3. l * Z = (I * Ten) * Z /\ I \in Nat
    BY <1>1, <2>1, <2>2
  <2> HIDE DEF Z, I
  <2>4. l = I * Ten
    <3>1. I * Ten \in Int
      BY <1>1, <2>3
    <3>2. QED
      BY <1>2, <2>3, <3>1, Cancel
  <2>5. l % Ten = 0
    <3>1. l = I * Ten + 0 /\ 0 < Ten /\ Ten \in Nat \ {0} /\ 0 \in Nat
      BY <1>1, <2>3, <2>4
    <3>2. QED
      BY <2>3, <3>1, QuotientUnique
  <2>6. QED
    BY <2>5
<1>5. CASE j < z
  <2> DEFINE i == z - j
  <2>1. i \in 0..PowLimit /\ 1 <= i /\ i + j = z /\ i + j <= PowLimit
    BY <1>1, <1>5
  <2> HIDE DEF i
  <2>2. POWERS[i + j] = POWERS[i] * POWERS[j] /\ POWERS[i] \in Nat /\ POWERS[j] \in Nat \ {0} /\ Ten <= POWERS[i]
    BY <1>1, <2>1, PowersAdd, PowersType, PowersMono
  <2> DEFINE I == POWERS[i]  J == POWERS[j]
  <2>3. l * (I * J) = J /\ I \in Nat /\ J \in Nat \ {0} /\ I >= 4
    BY <1>1, <2>1, <2>2
  <2> HIDE DEF I, J
  <2>4. (l * I) * J = 1 * J
    BY <2>3
  <2>5. l * I = 1
    <3>1. l * I \in Int
      BY <2>3
    <3>2. QED
      BY <2>3, <2>4, <3>1, Cancel
  <2>6. 1 * I <= l * I
    BY <2>3, MulMono
  <2>7. QED
    BY <2>3, <2>5, <2>6
<1>6. QED
  BY <1>1, <1>3, <1>4, <1>5

LEMMA LogDigitStep == ASSUME MathsInv, LogDigit PROVE MathsInv'
<1>1. /\ mpc = "tens" /\ left # 1 /\ left' = left \div Ten /\ maths' = maths
      /\ IF left % Ten = 0 THEN tens' = tens + 1 /\ mpc' = mpc ELSE tens' = tens /\ mpc' = "series"
  BY DEF LogDigit
<1>2. CallPart' /\ RootPart' /\ RootClose' /\ X' = X /\ X \in Decimal
  BY <1>1, LogStage
<1>3. ~X.neg /\ left \in Nat \ {0} /\ tens \in 0..MAX_SCALE /\ X.m = left * POWERS[tens]
  BY <1>1 DEF MathsInv, LogPart
<1>4. /\ X.m \in Nat /\ X.m <= Max96 /\ X.s \in 0..MAX_SCALE /\ Max96 \in Nat
      /\ MAX_SCALE \in Nat /\ PowLimit \in Nat /\ 2 * MAX_SCALE <= PowLimit /\ MAX_SCALE >= 2
      /\ Ten \in Nat \ {0} /\ Ten >= 4 /\ POWERS[1] = Ten
  BY <1>2, WorthFacts, MathsFacts
<1>5. CASE left % Ten = 0
  <2> DEFINE l == left \div Ten
             P == POWERS[tens]
  <2>1. mpc' = "tens" /\ tens' = tens + 1 /\ left' = l
    BY <1>1, <1>5
  <2>2. l \in Nat /\ left = l * Ten
    <3>1. l \in Nat /\ left = l * Ten + (left % Ten)
      BY <1>3, <1>4, DivMod
    <3> HIDE DEF l
    <3>2. QED
      BY <1>3, <1>4, <1>5, <3>1
  <2> HIDE DEF l
  <2>3. l # 0
    BY <1>3, <1>4, <2>2
  <2>4. tens \in 0..PowLimit /\ 1 \in 0..PowLimit /\ tens + 1 \in 0..PowLimit /\ tens + 1 <= PowLimit
    BY <1>3, <1>4
  <2>5. POWERS[tens + 1] = P * Ten /\ P \in Nat \ {0}
    BY <1>4, <2>4, PowersAdd, PowersType
  <2>6. X.m = l * POWERS[tens + 1]
    <3> HIDE DEF P
    <3>1. (l * Ten) * P = l * (P * Ten)
      BY <1>4, <2>2, <2>5
    <3>2. QED
      BY <1>3, <2>2, <2>5, <3>1 DEF P
  <2>7. tens + 1 \in 0..MAX_SCALE
    <3>1. 1 * POWERS[tens + 1] <= l * POWERS[tens + 1] /\ POWERS[tens + 1] \in Nat
      BY <2>2, <2>3, <2>4, PowersType, MulMono
    <3>2. POWERS[tens + 1] <= Max96
      BY <1>4, <2>6, <3>1
    <3>3. QED
      BY <2>4, <3>2, PowerBelow
  <2>8. LogPart'
    BY <1>2, <1>3, <2>1, <2>2, <2>3, <2>6, <2>7 DEF LogPart
  <2>9. LogarithmExact'
    BY <2>1 DEF LogarithmExact
  <2>10. QED
    BY <1>2, <2>8, <2>9 DEF MathsInv, RootsAndLogarithms
<1>6. CASE left % Ten # 0
  <2>1. mpc' = "series"
    BY <1>1, <1>6
  <2>2. \A e \in -MAX_SCALE..PowLimit : ~TenTo(X, e)
    <3>1. SUFFICES ASSUME NEW e \in -MAX_SCALE..PowLimit, TenTo(X, e) PROVE FALSE
      OBVIOUS
    <3>2. e + X.s \in 0..PowLimit /\ X.m = POWERS[e + X.s]
      BY <3>1 DEF TenTo
    <3>3. left * POWERS[tens] = POWERS[e + X.s]
      BY <1>3, <3>2
    <3>4. left = 1 \/ left % Ten = 0
      BY <1>3, <3>2, <3>3, PowerLeft
    <3>5. QED
      BY <1>1, <1>6, <3>4
  <2>3. LogPart'
    BY <2>1 DEF LogPart
  <2>4. LogarithmExact'
    BY <1>2, <2>1, <2>2 DEF LogarithmExact, TenTo
  <2>5. QED
    BY <1>2, <2>3, <2>4 DEF MathsInv, RootsAndLogarithms
<1>7. QED
  BY <1>5, <1>6

LEMMA LogDoneStep == ASSUME MathsInv, LogDone PROVE MathsInv'
<1>1. mpc = "tens" /\ left = 1 /\ maths' = maths /\ mpc' = "done" /\ reply' = {Integer(tens - X.s)}
  BY DEF LogDone, Replies
<1>2. CallPart' /\ RootPart' /\ RootClose' /\ X' = X /\ X \in Decimal
  BY <1>1, LogStage
<1>3. ~X.neg /\ tens \in 0..MAX_SCALE /\ X.m = 1 * POWERS[tens]
  BY <1>1 DEF MathsInv, LogPart
<1>4. X.s \in 0..MAX_SCALE /\ MAX_SCALE \in Nat /\ PowLimit \in Nat /\ 2 * MAX_SCALE <= PowLimit
  BY <1>2, WorthFacts, MathsFacts
<1>5. tens - X.s \in Int /\ (tens - X.s) + X.s = tens /\ tens \in 0..PowLimit
  BY <1>3, <1>4
<1>6. POWERS[tens] \in Nat /\ X.m = POWERS[tens]
  BY <1>3, <1>5, PowersType
<1>7. TenTo(X, tens - X.s)
  BY <1>3, <1>5, <1>6 DEF TenTo
<1>8. (IF Integer(tens - X.s).neg THEN -Integer(tens - X.s).m ELSE Integer(tens - X.s).m) = tens - X.s
  BY <1>5, IntegerReads
<1>9. LogarithmExact'
  <2>1. \A r \in reply' : TenTo(X, IF r.neg THEN -r.m ELSE r.m)
    BY <1>1, <1>7, <1>8
  <2>2. reply' # {}
    BY <1>1
  <2>3. QED
    BY <1>1, <1>2, <2>1, <2>2 DEF LogarithmExact, TenTo
<1>10. LogPart'
  BY <1>1 DEF LogPart
<1>11. QED
  BY <1>2, <1>9, <1>10 DEF MathsInv, RootsAndLogarithms

-----------------------------------------------------------------------------
LEMMA MathsStarts == MathsInit => MathsInv
<1>1. SUFFICES ASSUME MathsInit PROVE MathsInv
  OBVIOUS
<1>2. ZERO \in Decimal
  BY ZeroType
<1>3. CASE MathsIdle
  <2>1. maths = [op |-> "none", d |-> ZERO, n |-> ZERO] /\ mpc = "idle"
    BY <1>3 DEF MathsIdle, MathsAt
  <2>2. CallPart
    BY <1>2, <2>1 DEF CallPart, Stages
  <2>3. QED
    BY <2>1, <2>2 DEF MathsInv, RootPart, LogPart, RootsAndLogarithms, RootClose, LogarithmExact
<1>4. ASSUME NEW op \in {"powd", "powi", "sqrt", "log10"}, NEW d \in Decimal, NEW n \in Decimal, MathsStart(op, d, n)
      PROVE  MathsInv
  <2>1. maths = [op |-> op, d |-> d, n |-> n] /\ mpc = op /\ tens = 0
    BY <1>4 DEF MathsStart, MathsAt
  <2>2. CallPart
    BY <2>1 DEF CallPart, Stages
  <2>3. mpc \notin {"babylon", "tens", "done", "series"}
    BY <2>1
  <2>4. QED
    BY <2>1, <2>2, <2>3 DEF MathsInv, RootPart, LogPart, RootsAndLogarithms, RootClose, LogarithmExact
<1>5. QED
  BY <1>1, <1>3, <1>4 DEF MathsInit

LEMMA MathsKept == MathsInv /\ [MathsNext]_mvars => MathsInv'
<1>1. SUFFICES ASSUME MathsInv, [MathsNext]_mvars PROVE MathsInv'
  OBVIOUS
<1>2. CASE UNCHANGED mvars
  <2>1. /\ maths' = maths /\ guess' = guess /\ last' = last /\ left' = left /\ tens' = tens
        /\ reply' = reply /\ mpc' = mpc
    BY <1>2 DEF mvars
  <2>2. X' = X
    BY <2>1 DEF X
  <2>3. CallPart' /\ LogPart'
    BY <1>1, <2>1, <2>2 DEF MathsInv, CallPart, LogPart
  <2>4. RootPart'
    <3>1. Same(last, guess)' <=> Same(last, guess)
      BY <2>1 DEF Same
    <3>2. (\E q \in Quotients(X, last) : \E sum \in Sums(last, q) : guess \in Quotients(sum, Integer(2)))'
            <=> \E q \in Quotients(X, last) : \E sum \in Sums(last, q) : guess \in Quotients(sum, Integer(2))
      BY <2>1, <2>2 DEF Quotients, Sums, SumOf, Answers, Fits, Rounded
    <3>3. RootPart
      BY <1>1 DEF MathsInv
    <3>4. QED
      BY <2>1, <2>2, <3>1, <3>2, <3>3 DEF RootPart
  <2>5. RootClose' /\ LogarithmExact'
    BY <1>1, <2>1, <2>2 DEF MathsInv, RootsAndLogarithms, RootClose, LogarithmExact
  <2>6. QED
    BY <2>3, <2>4, <2>5 DEF MathsInv, RootsAndLogarithms
<1>3. CASE MathsNext
  BY <1>1, <1>3, PowerSteps, SqrtTrivialStep, SqrtStartStep, SqrtPassStep, SqrtBreaksStep, SqrtDoneStep,
     LogTrivialStep, LogStartStep, LogDigitStep, LogDoneStep DEF MathsNext
<1>4. QED
  BY <1>1, <1>2, <1>3

\* Of every call, at every step: the inductive invariant behind RootsAndLogarithms.
THEOREM MathsInvariant == MathsSpec => []MathsInv
<1>1. MathsInit => MathsInv
  BY MathsStarts
<1>2. MathsInv /\ [MathsNext]_mvars => MathsInv'
  BY MathsKept
<1>3. QED
  BY <1>1, <1>2, PTL DEF MathsSpec

\* The roots and logarithms are right, for every decimal.
THEOREM RootsFound == MathsSpec => []RootsAndLogarithms
<1>1. MathsInv => RootsAndLogarithms
  BY DEF MathsInv
<1>2. QED
  BY <1>1, MathsInvariant, PTL
===============================================================================
