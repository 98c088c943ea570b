---------------------------- MODULE Rounding_proofs ----------------------------
(***************************************************************************)
(* The operations of Rounding keep and round numbers as they promise, for  *)
(* every word size, radix and table of powers, every decimal and every     *)
(* scale, number of places or figures.  The argument: whichever loop runs, *)
(* the mantissa in hand is the one given without the digits dropped so far *)
(* (DroppedDigits, or a quotient), so that the last digit, or the part     *)
(* that is reconstructed, stands to one half as the whole tail does; what  *)
(* round_sf scales back up is a rounded number without the zeros that are  *)
(* due (ScalingBack), and no other mantissa follows the strategy.               *)
(***************************************************************************)
EXTENDS Rounding, DecimalLemmas

\* The mantissa of the number a call is about.
Given == call.d.m

\* The calls there are.
RoundCall ==
    /\ call.op \in {"rescale", "trunc", "floor", "ceil", "round_dp", "round_sf", "normalize"}
    /\ call.d \in Decimal /\ call.n \in Nat /\ call.by \in Strategies

SameNumber == m = Given /\ neg = call.d.neg /\ value_scale = call.d.s

\* What the loops of rescale aim at.
Aimed ==
    \/ call.op \in {"rescale", "trunc"} /\ to = call.n
    \/ call.op \in {"floor", "ceil"} /\ to = 0
    \/ /\ call.op = "round_sf" /\ Given # 0 /\ call.n > FiguresOf(Given)
       /\ to = call.d.s + call.n - FiguresOf(Given)

\* What those of round_dp do: round_sf may have moved the point before.
RoundsTo ==
    \/ call.op = "round_dp" /\ exp = 0 /\ to = call.n /\ value_scale = call.d.s
    \/ /\ call.op = "round_sf" /\ Given # 0 /\ call.n > 0 /\ call.n < FiguresOf(Given)
       /\ value_scale = call.d.s + exp
       /\ value_scale - to = FiguresOf(Given) - call.n
       /\ exp > 0 => to = 0

\* j digits of v have been dropped, r the last of them.
DroppedDigits(v, q, r, j) ==
    IF j = 0 THEN q = v /\ r = 0
    ELSE \E tail \in 0..(POWERS[j - 1] - 1) : v = (q * Ten + r) * POWERS[j - 1] + tail

Rescaling == SameNumber /\ digit = 0 /\ exp = 0 /\ Aimed

Dropping ==
    /\ Aimed /\ Given # 0 /\ exp = 0
    /\ neg = call.d.neg /\ value_scale = call.d.s
    /\ to < value_scale /\ k <= value_scale - to
    /\ DroppedDigits(Given, m, digit, value_scale - to - k)

Extending ==
    /\ Aimed /\ Given # 0 /\ exp = 0
    /\ neg = call.d.neg /\ value_scale = call.d.s
    /\ value_scale < to /\ k <= to - value_scale /\ to - value_scale - k <= MAX_SCALE
    /\ working = m /\ m = Given * POWERS[to - value_scale - k]

Stepping ==
    /\ call.op \in {"floor", "ceil"} /\ exp = 0
    /\ neg = call.d.neg /\ value_scale = 0 /\ to = 0 /\ call.d.s > 0
    /\ m = Given \div POWERS[call.d.s]

Placing == RoundsTo /\ m = Given /\ neg = call.d.neg /\ value_scale <= MAX_SCALE

Cutting ==
    /\ RoundsTo /\ Given # 0 /\ neg = call.d.neg /\ value_scale <= MAX_SCALE
    /\ to < value_scale /\ k <= value_scale - to
    /\ m = Given \div POWERS[value_scale - to - k]

Restoring ==
    /\ RoundsTo /\ Given # 0 /\ neg = call.d.neg /\ value_scale <= MAX_SCALE
    /\ to < value_scale /\ k <= value_scale - to
    /\ m = Given \div POWERS[value_scale - to]
    /\ working = m * POWERS[value_scale - to - k]

Figuring == call.op = "round_sf" /\ SameNumber /\ figures = 0 /\ digit = 0 /\ exp = 0

\* What has been counted: the digits of what is left are still to come.
Counting ==
    /\ call.op = "round_sf" /\ SameNumber /\ exp = 0 /\ digit = 0
    /\ Given # 0 /\ call.n > 0
    /\ IF working = 0 THEN figures = FiguresOf(Given)
       ELSE /\ figures <= MAX_SCALE
            /\ POWERS[figures] * working <= Given
            /\ Given < POWERS[figures] * (working + 1)

\* The rounded number, divided by the power still due.
ScalingBack ==
    /\ call.op = "round_sf" /\ Given # 0 /\ call.n > 0
    /\ exp > 0 /\ value_scale = 0 /\ exp + call.d.s + call.n <= FiguresOf(Given)
    /\ \E r \in Mantissa :
          /\ m = r * POWERS[FiguresOf(Given) - call.n - call.d.s - exp]
          /\ neg = (call.d.neg /\ r # 0)
          /\ Follows(call.by, Sign(call.d.neg) * Given, Sign(call.d.neg) * r, POWERS[FiguresOf(Given) - call.n])

Normalizing ==
    /\ call.op = "normalize" /\ exp = 0
    /\ neg = call.d.neg /\ value_scale <= call.d.s
    /\ Given = m * POWERS[call.d.s - value_scale]

\* The inductive invariant.
RoundInv ==
    /\ RoundCall /\ RoundingTypeOK
    /\ pc = "rescale" => Rescaling
    /\ pc = "drop" => Dropping
    /\ pc = "extend" => Extending
    /\ pc = "step" => Stepping
    /\ pc = "round_dp" => Placing
    /\ pc = "cut" => Cutting
    /\ pc = "offset" => Restoring
    /\ pc = "round_sf" => Figuring
    /\ pc = "count" => Counting
    /\ pc = "back" => ScalingBack
    /\ pc = "normalize" => Normalizing
    /\ RoundsAsAsked /\ ValueKept /\ SfOverflows

-----------------------------------------------------------------------------
(***************************************************************************)
(* The strategies by the distance e of a multiple r * p from the magnitude *)
(* v of the number; g is its sign.                                         *)
(***************************************************************************)
Lands(by, g, e, r, p) ==
    CASE by = "MidpointNearestEven"  -> -p <= 2 * e /\ 2 * e <= p /\ (2 * e = p \/ 2 * e = -p => r % 2 = 0)
      [] by = "MidpointTowardZero"   -> -p <= 2 * e /\ 2 * e < p
      [] by = "MidpointAwayFromZero" -> -p < 2 * e /\ 2 * e <= p
      [] by = "AwayFromZero"         -> 0 <= e /\ e < p
      [] by = "ToPositiveInfinity"   -> IF g = 1 THEN 0 <= e /\ e < p ELSE -p < e /\ e <= 0
      [] by = "ToNegativeInfinity"   -> IF g = 1 THEN -p < e /\ e <= 0 ELSE 0 <= e /\ e < p
      [] by = "ToZero"               -> -p < e /\ e <= 0

LEMMA SignType == ASSUME NEW n PROVE Sign(n) \in {-1, 1}
  BY DEF Sign

\* A strategy looks at the magnitude, but for the two that name an infinity.
LEMMA FollowsLands ==
    ASSUME NEW by \in Strategies, NEW g \in {-1, 1}, NEW v \in Nat, NEW r \in Nat, NEW p \in Nat \ {0}
    PROVE  Follows(by, g * v, g * r, p) <=> Lands(by, g, r * p - v, r, p)
<1> DEFINE t == r * p
<1>1. t \in Nat
  OBVIOUS
<1>2. (g * r) * p = g * t /\ g * t \in Int /\ g * v \in Int
  <2>1. CASE g = 1
    BY <1>1, <2>1
  <2>2. CASE g = -1
    <3>1. ((-1) * r) * p = (-1) * (r * p)
      BY MulAssoc
    <3>2. QED
      BY <1>1, <2>2, <3>1
  <2>3. QED
    BY <2>1, <2>2
<1>3. (g * r) % 2 = 0 <=> r % 2 = 0
  <2>1. CASE g = 1
    BY <2>1
  <2>2. CASE g = -1
    <3>1. (g * r) = -r
      BY <2>2
    <3>2. (-r) % 2 = 0 <=> r % 2 = 0
      OBVIOUS
    <3>3. QED
      BY <3>1, <3>2
  <2>3. QED
    BY <2>1, <2>2
<1> DEFINE e == t - v
<1>4. e \in Int
  BY <1>1
<1> DEFINE odd == (g * r) % 2
<1> DEFINE a == g * t
<1> DEFINE b == g * v
<1>5. /\ a \in Int /\ b \in Int
      /\ Abs(a) = t /\ Abs(b) = v
      /\ a - b = g * e
      /\ Abs(a - b) = IF e < 0 THEN -e ELSE e
      /\ (a >= b <=> IF g = 1 THEN e >= 0 ELSE e <= 0)
      /\ (a <= b <=> IF g = 1 THEN e <= 0 ELSE e >= 0)
  <2>1. CASE g = 1
    BY <1>1, <2>1 DEF Abs
  <2>2. CASE g = -1
    BY <1>1, <2>2 DEF Abs
  <2>3. QED
    BY <2>1, <2>2
<1>6. Follows(by, b, g * r, p) <=>
          LET near   == 2 * Abs(a - b) <= p
              beside == Abs(a - b) < p
              tie    == 2 * Abs(a - b) = p
          IN  CASE by = "MidpointNearestEven"  -> near /\ (tie => odd = 0)
                [] by = "MidpointTowardZero"   -> near /\ (tie => Abs(a) <= Abs(b))
                [] by = "MidpointAwayFromZero" -> near /\ (tie => Abs(a) >= Abs(b))
                [] by = "AwayFromZero"         -> beside /\ Abs(a) >= Abs(b)
                [] by = "ToPositiveInfinity"   -> beside /\ a >= b
                [] by = "ToNegativeInfinity"   -> beside /\ a <= b
                [] by = "ToZero"               -> beside /\ Abs(a) <= Abs(b)
  BY <1>2, Zenon DEF Follows
<1>7. r * p - v = e
  OBVIOUS
<1>8. Follows(by, b, g * r, p) <=> Follows(by, g * v, g * r, p)
  OBVIOUS
<1> HIDE DEF t, e, odd, a, b
<1>9. odd = 0 <=> r % 2 = 0
  BY <1>3 DEF odd
<1> DEFINE w == Abs(a - b)
<1>10. w = (IF e < 0 THEN -e ELSE e)
  BY <1>5
<1> HIDE DEF w
<1>11. Follows(by, b, g * r, p) <=> Lands(by, g, e, r, p)
  <2>1. e = t - v
    BY DEF e
  <2>2. CASE by = "MidpointNearestEven"
    BY <1>1, <1>4, <1>5, <1>6, <1>9, <1>10, <2>1, <2>2 DEF Lands, w
  <2>3. CASE by = "MidpointTowardZero"
    BY <1>1, <1>4, <1>5, <1>6, <1>10, <2>1, <2>3 DEF Lands, w
  <2>4. CASE by = "MidpointAwayFromZero"
    BY <1>1, <1>4, <1>5, <1>6, <1>10, <2>1, <2>4 DEF Lands, w
  <2>5. CASE by = "AwayFromZero"
    BY <1>1, <1>4, <1>5, <1>6, <1>10, <2>1, <2>5 DEF Lands, w
  <2>6. CASE by = "ToPositiveInfinity"
    BY <1>1, <1>4, <1>5, <1>6, <1>10, <2>1, <2>6 DEF Lands, w
  <2>7. CASE by = "ToNegativeInfinity"
    BY <1>1, <1>4, <1>5, <1>6, <1>10, <2>1, <2>7 DEF Lands, w
  <2>8. CASE by = "ToZero"
    BY <1>1, <1>4, <1>5, <1>6, <1>10, <2>1, <2>8 DEF Lands, w
  <2>9. QED
    BY <2>2, <2>3, <2>4, <2>5, <2>6, <2>7, <2>8 DEF Strategies
<1>12. QED
  BY <1>7, <1>8, <1>11

\* The match of round_dp: rest was cut off, half is one half of the last place.
StepsAway(by, g, rest, half, q) ==
    CASE by = "MidpointNearestEven"  -> rest > half \/ (rest = half /\ q % 2 = 1)
      [] by = "MidpointTowardZero"   -> rest > half
      [] by = "MidpointAwayFromZero" -> rest >= half
      [] by = "AwayFromZero"         -> rest # 0
      [] by = "ToPositiveInfinity"   -> g = 1 /\ rest # 0
      [] by = "ToNegativeInfinity"   -> g = -1 /\ rest # 0
      [] by = "ToZero"               -> FALSE

\* It follows the strategy.
LEMMA StepsRight ==
    ASSUME NEW by \in Strategies, NEW g \in {-1, 1}, NEW q \in Nat,
           NEW half \in Nat \ {0}, NEW rest \in 0..(2 * half - 1)
    PROVE  /\ StepsAway(by, g, rest, half, q) => Lands(by, g, 2 * half - rest, q + 1, 2 * half)
           /\ ~StepsAway(by, g, rest, half, q) => Lands(by, g, -rest, q, 2 * half)
<1>1. (q % 2 = 0 \/ q % 2 = 1) /\ (q % 2 = 1 => (q + 1) % 2 = 0)
  OBVIOUS
<1>2. CASE by = "MidpointNearestEven"
  BY <1>1, <1>2 DEF StepsAway, Lands
<1>3. CASE by = "MidpointTowardZero"
  BY <1>3 DEF StepsAway, Lands
<1>4. CASE by = "MidpointAwayFromZero"
  BY <1>4 DEF StepsAway, Lands
<1>5. CASE by = "AwayFromZero"
  BY <1>5 DEF StepsAway, Lands
<1>6. CASE by = "ToPositiveInfinity"
  BY <1>6 DEF StepsAway, Lands
<1>7. CASE by = "ToNegativeInfinity"
  BY <1>7 DEF StepsAway, Lands
<1>8. CASE by = "ToZero"
  BY <1>8 DEF StepsAway, Lands
<1>9. QED
  BY <1>2, <1>3, <1>4, <1>5, <1>6, <1>7, <1>8 DEF Strategies

\* A number rounded down to q or up, in the terms of the strategies.
LEMMA StepsFollow ==
    ASSUME NEW by \in Strategies, NEW g \in {-1, 1}, NEW q \in Nat, NEW v \in Nat,
           NEW half \in Nat \ {0}, NEW rest \in 0..(2 * half - 1), NEW p \in Nat \ {0},
           p = 2 * half, v = q * p + rest
    PROVE  /\ StepsAway(by, g, rest, half, q) => Follows(by, g * v, g * (q + 1), p)
           /\ ~StepsAway(by, g, rest, half, q) => Follows(by, g * v, g * q, p)
<1>1. (q + 1) * p = q * p + 1 * p /\ q * p \in Int
  BY Distribute
<1>2. (q + 1) * p - v = p - rest /\ q * p - v = -rest
  BY <1>1
<1>3. q + 1 \in Nat
  OBVIOUS
<1>4. /\ Follows(by, g * v, g * (q + 1), p) <=> Lands(by, g, p - rest, q + 1, p)
      /\ Follows(by, g * v, g * q, p) <=> Lands(by, g, -rest, q, p)
  BY <1>2, <1>3, FollowsLands
<1>5. QED
  BY <1>4, StepsRight

\* No two multiples follow a strategy.
LEMMA FollowsOnce ==
    ASSUME NEW by \in Strategies, NEW g \in {-1, 1}, NEW v \in Nat, NEW p \in Nat \ {0},
           NEW r \in Nat, NEW s \in Nat,
           Follows(by, g * v, g * r, p), Follows(by, g * v, g * s, p)
    PROVE  r = s
<1>1. ASSUME NEW a \in Nat, NEW b \in Nat, a < b,
             Lands(by, g, a * p - v, a, p), Lands(by, g, b * p - v, b, p)
      PROVE  FALSE
  <2> DEFINE e == a * p - v
  <2> DEFINE f == b * p - v
  <2>1. e \in Int /\ f \in Int /\ Lands(by, g, e, a, p) /\ Lands(by, g, f, b, p)
    BY <1>1
  <2>2. e + p <= f
    <3>1. (a + 1) * p <= b * p /\ (a + 1) * p = a * p + 1 * p /\ a * p \in Int /\ b * p \in Int
      BY <1>1, MulMono, Distribute
    <3>2. QED
      BY <3>1
  <2>3. a + 2 <= b => e + 2 * p <= f
    <3>1. a + 2 <= b => (a + 2) * p <= b * p
      BY MulMono
    <3>2. (a + 2) * p = a * p + 2 * p /\ a * p \in Int /\ b * p \in Int
      BY Distribute
    <3>3. QED
      BY <3>1, <3>2
  <2>4. a % 2 = 0 /\ b % 2 = 0 => a + 2 <= b
    BY <1>1
  <2> HIDE DEF e, f
  <2>5. CASE by = "MidpointNearestEven"
    BY <2>1, <2>2, <2>3, <2>4, <2>5 DEF Lands
  <2>6. CASE by = "MidpointTowardZero"
    BY <2>1, <2>2, <2>6 DEF Lands
  <2>7. CASE by = "MidpointAwayFromZero"
    BY <2>1, <2>2, <2>7 DEF Lands
  <2>8. CASE by = "AwayFromZero"
    BY <2>1, <2>2, <2>8 DEF Lands
  <2>9. CASE by = "ToPositiveInfinity"
    BY <2>1, <2>2, <2>9 DEF Lands
  <2>10. CASE by = "ToNegativeInfinity"
    BY <2>1, <2>2, <2>10 DEF Lands
  <2>11. CASE by = "ToZero"
    BY <2>1, <2>2, <2>11 DEF Lands
  <2>12. QED
    BY <2>5, <2>6, <2>7, <2>8, <2>9, <2>10, <2>11 DEF Strategies
<1>2. Lands(by, g, r * p - v, r, p) /\ Lands(by, g, s * p - v, s, p)
  BY FollowsLands
<1>3. QED
  BY <1>1, <1>2

\* Zero stays zero.
LEMMA ZeroFollows ==
    ASSUME NEW by \in Strategies, NEW g \in {-1, 1}, NEW p \in Nat \ {0}, NEW z \in Nat, z = 0
    PROVE  Follows(by, g * z, g * z, p)
<1>1. z * p - z = z /\ z % 2 = 0 /\ 2 * z = 0 /\ p > 0 /\ -p < 0
  OBVIOUS
<1>2. Lands(by, g, z, z, p)
  <2>1. CASE by = "MidpointNearestEven"
    BY <1>1, <2>1 DEF Lands
  <2>2. CASE by = "MidpointTowardZero"
    BY <1>1, <2>2 DEF Lands
  <2>3. CASE by = "MidpointAwayFromZero"
    BY <1>1, <2>3 DEF Lands
  <2>4. CASE by = "AwayFromZero"
    BY <1>1, <2>4 DEF Lands
  <2>5. CASE by = "ToPositiveInfinity"
    BY <1>1, <2>5 DEF Lands
  <2>6. CASE by = "ToNegativeInfinity"
    BY <1>1, <2>6 DEF Lands
  <2>7. CASE by = "ToZero"
    BY <1>1, <2>7 DEF Lands
  <2>8. QED
    BY <2>1, <2>2, <2>3, <2>4, <2>5, <2>6, <2>7 DEF Strategies
<1>3. Follows(by, g * z, g * z, p) <=> Lands(by, g, z * p - z, z, p)
  BY FollowsLands
<1>4. QED
  BY <1>1, <1>2, <1>3

-----------------------------------------------------------------------------
(***************************************************************************)
(* Digits.                                                                 *)
(***************************************************************************)
\* The powers grow by at least a factor of two.
LEMMA PowersNext ==
    ASSUME NEW i \in 0..PowLimit, i + 1 <= PowLimit
    PROVE  /\ i + 1 \in 0..PowLimit
           /\ POWERS[i + 1] = POWERS[i] * Ten
           /\ POWERS[i] < POWERS[i + 1]
           /\ 2 * POWERS[i] <= POWERS[i + 1]
<1>1. i + 1 \in 0..PowLimit /\ 1 \in 0..PowLimit /\ PowLimit \in Nat
  BY ScaleAssumption
<1>2. POWERS[i + 1] = POWERS[i] * Ten
  BY <1>1, PowersAdd, PowersAssumption
<1>3. POWERS[i] \in Nat /\ POWERS[i] >= 1 /\ Ten \in Nat /\ Ten >= 2
  BY PowersType, BaseAssumption
<1>4. 2 * POWERS[i] <= Ten * POWERS[i] /\ Ten * POWERS[i] = POWERS[i] * Ten
  BY <1>3, MulMono, MulAssoc
<1>5. POWERS[i + 1] \in Int
  BY <1>1, PowersType
<1>6. QED
  BY <1>1, <1>2, <1>3, <1>4, <1>5

\* A mantissa has a number of digits, and at most one more than the maximal scale.
LEMMA FiguresExist ==
    ASSUME NEW v \in Mantissa
    PROVE  /\ FiguresOf(v) \in 0..(MAX_SCALE + 1)
           /\ v < POWERS[FiguresOf(v)]
           /\ FiguresOf(v) > 0 => POWERS[FiguresOf(v) - 1] <= v
           /\ v # 0 => FiguresOf(v) > 0
<1> DEFINE T == {f \in 0..PowLimit : v < POWERS[f]}
<1>1. v \in Nat /\ v < B3 /\ PowLimit \in Nat /\ MAX_SCALE \in Nat /\ MAX_SCALE + 1 \in 0..PowLimit
  BY BaseType, ScaleAssumption, FiguresAssumption DEF Mantissa
<1>2. MAX_SCALE + 1 \in T
  BY <1>1, PowersType, BaseType, FiguresAssumption
<1>3. T \subseteq Nat
  BY <1>1
<1>4. PICK f \in T : \A j \in T : f <= j
  BY <1>2, <1>3, LeastOf
<1>5. f > 0 => POWERS[f - 1] <= v
  <2>1. SUFFICES ASSUME f > 0 PROVE POWERS[f - 1] <= v
    OBVIOUS
  <2>2. f - 1 \in 0..PowLimit /\ ~(f <= f - 1)
    BY <1>1, <1>3, <2>1
  <2>3. ~(v < POWERS[f - 1])
    BY <1>4, <2>2
  <2>4. QED
    BY <1>1, <2>2, <2>3, PowersType
<1> DEFINE F(g) == v < POWERS[g] /\ (g > 0 => POWERS[g - 1] <= v)
<1>6. \E g \in 0..PowLimit : F(g)
  BY <1>4, <1>5
<1>7. FiguresOf(v) \in 0..PowLimit /\ F(FiguresOf(v))
  BY <1>6 DEF FiguresOf
<1> DEFINE g == FiguresOf(v)
<1>8. g \in 0..PowLimit /\ v < POWERS[g] /\ (g > 0 => POWERS[g - 1] <= v)
  BY <1>7
<1> HIDE DEF g, F
<1>9. g <= MAX_SCALE + 1
  <2>1. SUFFICES ASSUME MAX_SCALE + 1 <= g - 1, g > 0 PROVE FALSE
    BY <1>1, <1>8
  <2>2. g - 1 \in 0..PowLimit
    BY <1>1, <1>8, <2>1
  <2>3. POWERS[MAX_SCALE + 1] <= POWERS[g - 1]
    BY <1>1, <2>1, <2>2, PowersMono
  <2>4. POWERS[MAX_SCALE + 1] \in Nat /\ POWERS[g - 1] \in Nat /\ B3 <= POWERS[MAX_SCALE + 1] /\ B3 \in Nat
    BY <1>1, <2>2, PowersType, FiguresAssumption, BaseType
  <2>5. QED
    BY <1>1, <1>8, <2>1, <2>3, <2>4
<1>10. v # 0 => g > 0
  BY <1>1, <1>8, PowersAssumption
<1>11. QED
  BY <1>8, <1>9, <1>10, <1>1 DEF g

\* There is no other number of digits.
LEMMA FiguresUnique ==
    ASSUME NEW v \in Mantissa, NEW f \in 1..PowLimit, v < POWERS[f], POWERS[f - 1] <= v
    PROVE  FiguresOf(v) = f
<1> DEFINE g == FiguresOf(v)
<1>1. g \in 0..(MAX_SCALE + 1) /\ v < POWERS[g] /\ (g > 0 => POWERS[g - 1] <= v)
  BY FiguresExist
<1> HIDE DEF g
<1>2. v \in Nat /\ PowLimit \in Nat /\ MAX_SCALE \in Nat /\ g \in 0..PowLimit
  BY <1>1, ScaleAssumption, FiguresAssumption, BaseType DEF Mantissa
<1>3. ASSUME NEW a \in 0..PowLimit, NEW b \in 1..PowLimit, a < b, v < POWERS[a], POWERS[b - 1] <= v
      PROVE  FALSE
  <2>1. b - 1 \in 0..PowLimit /\ a <= b - 1
    BY <1>2, <1>3
  <2>2. POWERS[a] <= POWERS[b - 1]
    BY <1>3, <2>1, PowersMono
  <2>3. POWERS[a] \in Nat /\ POWERS[b - 1] \in Nat
    BY <2>1, PowersType
  <2>4. QED
    BY <1>2, <1>3, <2>2, <2>3
<1>4. ~(g < f)
  BY <1>1, <1>2, <1>3
<1>5. ~(f < g)
  <2>1. SUFFICES ASSUME f < g PROVE FALSE
    OBVIOUS
  <2>2. g \in 1..PowLimit /\ f \in 0..PowLimit
    BY <1>2, <2>1
  <2>3. QED
    BY <1>1, <1>3, <2>1, <2>2
<1>6. QED
  BY <1>2, <1>4, <1>5 DEF g

-----------------------------------------------------------------------------
(***************************************************************************)
(* Dropping digits, one at a time or by chunks.                            *)
(***************************************************************************)
\* The digits dropped are less than a unit, and their last one tells whether
\* they are a half of it.
LEMMA DroppedRest ==
    ASSUME NEW v \in Nat, NEW q \in Nat, NEW r \in 0..(Ten - 1), NEW j \in 0..PowLimit,
           DroppedDigits(v, q, r, j)
    PROVE  \E rest \in 0..(POWERS[j] - 1) :
               /\ v = q * POWERS[j] + rest
               /\ j > 0 => (2 * rest >= POWERS[j] <=> r >= Ten \div 2)
<1>1. CASE j = 0
  <2>1. POWERS[j] = 1 /\ q = v
    BY <1>1, PowersAssumption DEF DroppedDigits
  <2>2. 0 \in 0..(POWERS[j] - 1) /\ v = q * POWERS[j] + 0
    BY <2>1
  <2>3. QED
    BY <1>1, <2>2
<1>2. CASE j > 0
  <2> DEFINE a == POWERS[j - 1]
  <2>1. j - 1 \in 0..PowLimit /\ (j - 1) + 1 = j /\ j <= PowLimit
    BY <1>2, ScaleAssumption
  <2>2. a \in Nat /\ a >= 1 /\ POWERS[j] = a * Ten
    <3>1. \A i \in 0..PowLimit : i + 1 <= PowLimit => POWERS[i + 1] = POWERS[i] * Ten
      BY PowersNext
    <3>2. QED
      BY <2>1, <3>1, PowersType
  <2>3. PICK tail \in 0..(a - 1) : v = (q * Ten + r) * a + tail
    BY <1>2 DEF DroppedDigits
  <2> HIDE DEF a
  <2> DEFINE h == Ten \div 2
  <2> DEFINE rest == r * a + tail
  <2>4. h \in Nat /\ Ten = 2 * h /\ Ten \in Nat
    BY BaseAssumption
  <2>5. r * a \in Nat /\ rest \in Nat
    BY <2>2, <2>3, <2>4
  <2>6. v = q * POWERS[j] + rest
    <3>1. (q * Ten + r) * a = (q * Ten) * a + r * a /\ (q * Ten) * a = q * (Ten * a)
          /\ Ten * a = a * Ten /\ q * (a * Ten) \in Int
      BY <2>2, <2>4, Distribute, MulAssoc
    <3>2. QED
      BY <2>2, <2>3, <2>5, <3>1
  <2>7. rest < POWERS[j]
    <3>1. (r + 1) * a <= Ten * a /\ (r + 1) * a = r * a + 1 * a /\ Ten * a = a * Ten /\ Ten * a \in Int
      BY <2>2, <2>4, MulMono, Distribute, MulAssoc
    <3>2. QED
      BY <2>2, <2>3, <2>5, <3>1
  <2>8. h * a \in Nat /\ POWERS[j] = 2 * (h * a)
    <3>1. (2 * h) * a = 2 * (h * a) /\ Ten * a = a * Ten
      BY <2>2, <2>4, MulAssoc
    <3>2. QED
      BY <2>2, <2>4, <3>1
  <2> HIDE DEF h
  <2>9. r >= h => 2 * rest >= POWERS[j]
    <3>1. r >= h => h * a <= r * a
      BY <2>2, <2>4, MulMono
    <3>2. QED
      BY <2>3, <2>5, <2>8, <3>1
  <2>10. r < h => 2 * rest < POWERS[j]
    <3>1. r < h => (r + 1) * a <= h * a
      BY <2>2, <2>4, MulMono
    <3>2. (r + 1) * a = r * a + 1 * a
      BY <2>2, Distribute
    <3>3. QED
      BY <2>2, <2>3, <2>5, <2>8, <3>1, <3>2
  <2>11. rest \in 0..(POWERS[j] - 1) /\ (2 * rest >= POWERS[j] <=> r >= Ten \div 2)
    <3>1. POWERS[j] \in Nat
      BY PowersType
    <3>2. 2 * rest >= POWERS[j] <=> r >= h
      BY <2>4, <2>5, <2>9, <2>10, <3>1
    <3>3. QED
      BY <2>5, <2>7, <3>1, <3>2 DEF h
  <2>12. QED
    BY <2>6, <2>11
<1>3. QED
  BY <1>1, <1>2

\* One more digit is dropped.
LEMMA DropOne ==
    ASSUME NEW v \in Nat, NEW q \in Nat, NEW r \in 0..(Ten - 1), NEW j \in 0..PowLimit,
           DroppedDigits(v, q, r, j)
    PROVE  DroppedDigits(v, q \div Ten, q % Ten, j + 1)
<1>1. PICK rest \in 0..(POWERS[j] - 1) : v = q * POWERS[j] + rest
  BY DroppedRest
<1>2. Ten \in Nat \ {0} /\ j + 1 # 0 /\ (j + 1) - 1 = j
  BY BaseAssumption
<1>3. q = (q \div Ten) * Ten + (q % Ten)
  BY <1>2, DivMod
<1>4. v = ((q \div Ten) * Ten + (q % Ten)) * POWERS[(j + 1) - 1] + rest
  BY <1>1, <1>2, <1>3
<1>5. rest \in 0..(POWERS[(j + 1) - 1] - 1)
  BY <1>1, <1>2
<1>6. QED
  BY <1>2, <1>4, <1>5 DEF DroppedDigits

-----------------------------------------------------------------------------
(***************************************************************************)
(* What an operation is asked to give up, and how.                         *)
(***************************************************************************)
\* What there is to know of a call.
LEMMA CallFacts ==
    ASSUME RoundCall
    PROVE  /\ Given \in Mantissa /\ Given \in Nat /\ Given < B3
           /\ call.d.s \in 0..MAX_SCALE /\ call.d.s \in 0..PowLimit
           /\ call.d.neg \in BOOLEAN /\ call.n \in Nat /\ call.by \in Strategies
           /\ Sign(call.d.neg) \in {-1, 1}
           /\ MAX_SCALE \in Nat /\ PowLimit \in Nat /\ MAX_SCALE + 1 \in 0..PowLimit
<1>1. call.d \in Decimal /\ call.n \in Nat /\ call.by \in Strategies
  BY DEF RoundCall
<1>2. Given \in Mantissa /\ call.d.s \in 0..MAX_SCALE /\ call.d.neg \in BOOLEAN
  BY <1>1 DEF Decimal, Given
<1>3. MAX_SCALE \in Nat /\ PowLimit \in Nat /\ MAX_SCALE + 1 \in 0..PowLimit
  BY ScaleAssumption, FiguresAssumption
<1>4. Given \in Nat /\ Given < B3
  BY <1>2, BaseType DEF Mantissa
<1>5. call.d.s \in 0..PowLimit
  BY <1>2, <1>3
<1>6. QED
  BY <1>1, <1>2, <1>3, <1>4, <1>5, SignType

\* The digits of each operation and its strategy.
LEMMA SurplusOf ==
    ASSUME RoundCall
    PROVE  /\ call.op \in {"rescale", "trunc", "round_dp"} =>
                  Surplus = IF call.d.s > call.n THEN call.d.s - call.n ELSE 0
           /\ call.op \in {"floor", "ceil"} => Surplus = call.d.s
           /\ call.op = "round_sf" =>
                  Surplus = IF Given # 0 /\ FiguresOf(Given) > call.n THEN FiguresOf(Given) - call.n ELSE 0
           /\ call.op = "normalize" => Surplus = 0
<1>1. CASE call.op \in {"rescale", "trunc", "round_dp"}
  BY <1>1 DEF Surplus
<1>2. CASE call.op \in {"floor", "ceil"}
  BY <1>2 DEF Surplus
<1>3. CASE call.op = "round_sf"
  BY <1>3 DEF Surplus, Given
<1>4. CASE call.op = "normalize"
  BY <1>4 DEF Surplus
<1>5. QED
  BY <1>1, <1>2, <1>3, <1>4 DEF RoundCall

LEMMA StrategyOf ==
    ASSUME RoundCall
    PROVE  /\ Strategy \in Strategies
           /\ call.op = "rescale" => Strategy = "MidpointAwayFromZero"
           /\ call.op = "trunc" => Strategy = "ToZero"
           /\ call.op = "floor" => Strategy = "ToNegativeInfinity"
           /\ call.op = "ceil" => Strategy = "ToPositiveInfinity"
           /\ call.op \in {"round_dp", "round_sf"} => Strategy = call.by
  BY DEF RoundCall, Strategy, Strategies

LEMMA SurplusType ==
    ASSUME RoundCall
    PROVE  Surplus \in 0..(MAX_SCALE + 1) /\ Surplus \in 0..PowLimit
<1>1. /\ call.d.s \in 0..MAX_SCALE /\ call.n \in Nat /\ MAX_SCALE \in Nat
      /\ PowLimit \in Nat /\ MAX_SCALE + 1 \in 0..PowLimit
  BY CallFacts
<1>2. FiguresOf(Given) \in 0..(MAX_SCALE + 1)
  BY CallFacts, FiguresExist
<1>3. Surplus \in 0..(MAX_SCALE + 1)
  <2>1. CASE call.op \in {"rescale", "trunc", "round_dp"}
    BY <1>1, <2>1, SurplusOf
  <2>2. CASE call.op \in {"floor", "ceil"}
    BY <1>1, <2>2, SurplusOf
  <2>3. CASE call.op = "round_sf"
    BY <1>1, <1>2, <2>3, SurplusOf
  <2>4. CASE call.op = "normalize"
    BY <1>1, <2>4, SurplusOf
  <2>5. QED
    BY <2>1, <2>2, <2>3, <2>4 DEF RoundCall
<1>4. QED
  BY <1>1, <1>3

-----------------------------------------------------------------------------
(***************************************************************************)
(* How a call goes on and how it ends.                                     *)
(***************************************************************************)
\* Nothing is promised of a call that has not returned.
LEMMA NotEnded ==
    ASSUME pc' \notin {"done", "none"}
    PROVE  RoundsAsAsked' /\ ValueKept' /\ SfOverflows'
  BY DEF RoundsAsAsked, ValueKept, SfOverflows

\* The call stays the same.
LEMMA SameCall ==
    ASSUME call' = call
    PROVE  /\ RoundCall' = RoundCall /\ Given' = Given
           /\ Surplus' = Surplus /\ Strategy' = Strategy /\ Rescales' = Rescales
  BY DEF RoundCall, Given, Surplus, Strategy, Rescales

\* A call returns r, in units of the last place asked for.
LEMMA EndsRounded ==
    ASSUME RoundCall, call' = call, pc' = "done", RoundingTypeOK',
           Surplus > 0, value_scale' <= call.d.s,
           NEW r \in Nat,
           m' * POWERS[call.d.s - value_scale'] = r * POWERS[Surplus],
           r = 0 \/ neg' = call.d.neg,
           Follows(Strategy, Sign(call.d.neg) * Given, Sign(call.d.neg) * r, POWERS[Surplus])
    PROVE  RoundInv'
<1> DEFINE unit == POWERS[Surplus]
<1> DEFINE t == m' * POWERS[call.d.s - value_scale']
<1>1. unit \in Nat \ {0}
  BY SurplusType, PowersType
<1>2. t % unit = 0 /\ t \div unit = r
  <2>1. 0 \in Nat /\ 0 < unit /\ r * unit + 0 = r * unit
    BY <1>1
  <2>2. t = r * unit /\ r * unit \in Nat
    BY <1>1
  <2>3. t \in Nat /\ t = r * unit + 0
    BY <2>1, <2>2
  <2> HIDE DEF t, unit
  <2>4. QED
    BY <1>1, <2>1, <2>3, QuotientUnique
<1>3. Sign(neg') * r = Sign(call.d.neg) * r
  <2>1. Sign(neg') \in {-1, 1} /\ Sign(call.d.neg) \in {-1, 1}
    BY SignType
  <2>2. CASE r = 0
    BY <2>1, <2>2
  <2>3. CASE neg' = call.d.neg
    BY <2>3
  <2>4. QED
    BY <2>2, <2>3
<1>4. Follows(Strategy, Sign(call.d.neg) * call.d.m, Sign(neg') * (t \div unit), unit)
  BY <1>2, <1>3 DEF Given
<1> HIDE DEF t, unit
<1>5. RoundsAsAsked'
  <2>1. Surplus' = Surplus /\ Strategy' = Strategy
    BY SameCall
  <2>2. t = m' * POWERS[call'.d.s - value_scale'] /\ unit = POWERS[Surplus']
    BY <2>1 DEF t, unit
  <2>3. t % unit = 0 /\ Follows(Strategy', Sign(call'.d.neg) * call'.d.m, Sign(neg') * (t \div unit), unit)
    BY <1>2, <1>4, <2>1
  <2>4. QED
    BY <2>2, <2>3 DEF RoundsAsAsked
<1>6. ValueKept'
  BY SameCall, SurplusType DEF ValueKept
<1>7. SfOverflows'
  BY DEF SfOverflows
<1>8. QED
  BY <1>5, <1>6, <1>7, SameCall DEF RoundInv

\* A call returns the value it was given.
LEMMA EndsKept ==
    ASSUME RoundCall, call' = call, pc' = "done", RoundingTypeOK', Surplus = 0,
           IF value_scale' >= call.d.s
           THEN m' = Given * POWERS[IF m' = 0 THEN 0 ELSE value_scale' - call.d.s]
           ELSE m' * POWERS[call.d.s - value_scale'] = Given,
           m' # 0 => neg' = call.d.neg,
           Rescales /\ m' # 0 /\ value_scale' < to' => m' * Ten > Max96,
           call.op = "normalize" => value_scale' = 0 \/ m' % Ten # 0
    PROVE  RoundInv'
<1>1. RoundsAsAsked'
  BY SameCall DEF RoundsAsAsked
<1>2. ValueKept'
  <2>1. Rescales' /\ m' # 0 /\ value_scale' < SmallerOf(to', MAX_SCALE) => m' * Ten > Max96
    <3>1. value_scale' \in Nat /\ to' \in Nat /\ MAX_SCALE \in Nat
      BY ScaleAssumption DEF RoundingTypeOK
    <3>2. value_scale' < SmallerOf(to', MAX_SCALE) => value_scale' < to'
      BY <3>1 DEF SmallerOf
    <3>3. QED
      BY <3>2, SameCall
  <2>2. QED
    BY <2>1, SameCall DEF ValueKept, Given
<1>3. SfOverflows'
  BY DEF SfOverflows
<1>4. QED
  BY <1>1, <1>2, <1>3, SameCall DEF RoundInv

-----------------------------------------------------------------------------
(***************************************************************************)
(* The loops of rescale.                                                   *)
(***************************************************************************)
\* What the loops aim at is the place asked for.
LEMMA AimedSurplus ==
    ASSUME RoundCall, Aimed, to \in Nat
    PROVE  /\ to < call.d.s => call.op # "round_sf" /\ Surplus = call.d.s - to
           /\ to >= call.d.s => Surplus = 0
           /\ call.op \in {"rescale", "trunc", "floor", "ceil", "round_sf"}
           /\ call.op \in {"floor", "ceil"} => to = 0
<1>1. call.d.s \in Nat /\ call.n \in Nat
  BY CallFacts
<1>2. FiguresOf(Given) \in Nat
  BY CallFacts, FiguresExist
<1>3. CASE call.op \in {"rescale", "trunc"}
  <2>1. to = call.n
    BY <1>3 DEF Aimed
  <2>2. Surplus = IF call.d.s > call.n THEN call.d.s - call.n ELSE 0
    BY <1>3, SurplusOf
  <2>3. QED
    BY <1>1, <1>3, <2>1, <2>2
<1>4. CASE call.op \in {"floor", "ceil"}
  <2>1. to = 0
    BY <1>4 DEF Aimed
  <2>2. Surplus = call.d.s
    BY <1>4, SurplusOf
  <2>3. QED
    BY <1>1, <1>4, <2>1, <2>2
<1>5. CASE call.op = "round_sf"
  <2>1. to = call.d.s + call.n - FiguresOf(Given) /\ call.n > FiguresOf(Given)
    BY <1>5 DEF Aimed
  <2>2. Surplus = 0
    BY <1>1, <1>2, <1>5, <2>1, SurplusOf
  <2>3. QED
    BY <1>1, <1>2, <1>5, <2>1, <2>2
<1>6. QED
  BY <1>3, <1>4, <1>5 DEF Aimed

LEMMA RescaleSameInv == RoundInv /\ RescaleSame => RoundInv'
<1> SUFFICES ASSUME RoundInv, RescaleSame PROVE RoundInv'
  OBVIOUS
<1>1. /\ pc = "rescale" /\ value_scale = to /\ pc' = "done"
      /\ UNCHANGED <<call, m, neg, value_scale, to, k, working, digit, figures, exp>>
  BY DEF RescaleSame
<1>2. RoundCall /\ RoundingTypeOK /\ Rescaling
  BY <1>1 DEF RoundInv
<1>3. RoundingTypeOK'
  BY <1>1, <1>2 DEF RoundingTypeOK
<1>4. to \in Nat /\ value_scale = call.d.s /\ m = Given /\ neg = call.d.neg /\ Aimed
  BY <1>2 DEF Rescaling, SameNumber, RoundingTypeOK
<1>5. Surplus = 0 /\ call.op # "normalize"
  BY <1>1, <1>2, <1>4, AimedSurplus
<1>6. Given \in Nat /\ POWERS[0] = 1 /\ value_scale' - call.d.s = 0 /\ value_scale' >= call.d.s
  BY <1>1, <1>2, <1>4, CallFacts, PowersAssumption
<1>7. m' = Given * POWERS[IF m' = 0 THEN 0 ELSE value_scale' - call.d.s]
  BY <1>1, <1>4, <1>6
<1>8. ~(value_scale' < to')
  BY <1>1, <1>4
<1>9. QED
  BY <1>1, <1>2, <1>3, <1>4, <1>5, <1>6, <1>7, <1>8, EndsKept

LEMMA RescaleZeroInv == RoundInv /\ RescaleZero => RoundInv'
<1> SUFFICES ASSUME RoundInv, RescaleZero PROVE RoundInv'
  OBVIOUS
<1>1. /\ pc = "rescale" /\ value_scale # to /\ m = 0
      /\ value_scale' = SmallerOf(to, MAX_SCALE)
      /\ pc' = IF call.op \in {"floor", "ceil"} THEN "step" ELSE "done"
      /\ UNCHANGED <<call, m, neg, to, k, working, digit, figures, exp>>
  BY DEF RescaleZero, AfterLoops
<1>2. RoundCall /\ RoundingTypeOK /\ Rescaling
  BY <1>1 DEF RoundInv
<1>3. /\ to \in Nat /\ value_scale = call.d.s /\ m = Given /\ neg = call.d.neg /\ Aimed
      /\ exp = 0 /\ Given = 0 /\ call.d.s \in 0..MAX_SCALE /\ MAX_SCALE \in Nat
  BY <1>1, <1>2, CallFacts DEF Rescaling, SameNumber, RoundingTypeOK
<1>4. RoundingTypeOK'
  BY <1>1, <1>2, <1>3 DEF RoundingTypeOK, SmallerOf
<1>5. CASE call.op \in {"floor", "ceil"}
  <2>1. pc' = "step" /\ to = 0 /\ value_scale' = 0 /\ call.d.s > 0
    BY <1>1, <1>2, <1>3, <1>5, AimedSurplus DEF SmallerOf
  <2>2. 0 = 0 \div POWERS[call.d.s]
    <3>1. POWERS[call.d.s] \in Nat \ {0}
      BY <1>2, CallFacts, PowersType
    <3>2. QED
      BY <3>1
  <2>3. Stepping'
    BY <1>1, <1>3, <1>5, <2>1, <2>2 DEF Stepping, Given
  <2>4. QED
    BY <1>1, <1>2, <1>4, <2>1, <2>3, SameCall, NotEnded DEF RoundInv
<1>6. CASE call.op \notin {"floor", "ceil"} /\ to < call.d.s
  <2>1. pc' = "done" /\ value_scale' = to /\ Surplus = call.d.s - to /\ Surplus > 0 /\ call' = call /\ m' = 0
        /\ neg' = call.d.neg
    BY <1>1, <1>2, <1>3, <1>6, AimedSurplus DEF SmallerOf
  <2>2. Follows(Strategy, Sign(call.d.neg) * Given, Sign(call.d.neg) * 0, POWERS[Surplus])
    <3>1. POWERS[Surplus] \in Nat \ {0} /\ Strategy \in Strategies /\ Sign(call.d.neg) \in {-1, 1} /\ Given \in Nat
      BY <1>2, SurplusType, PowersType, StrategyOf, SignType, CallFacts
    <3>2. Follows(Strategy, Sign(call.d.neg) * Given, Sign(call.d.neg) * Given, POWERS[Surplus])
      BY <1>3, <3>1, ZeroFollows
    <3>3. QED
      BY <1>3, <3>2
  <2>3. m' * POWERS[call.d.s - value_scale'] = 0 * POWERS[Surplus] /\ value_scale' <= call.d.s /\ 0 \in Nat
    BY <1>3, <1>6, <2>1
  <2>4. QED
    BY <1>2, <1>4, <2>1, <2>2, <2>3, EndsRounded
<1>7. CASE call.op \notin {"floor", "ceil"} /\ to >= call.d.s
  <2>1. /\ pc' = "done" /\ Surplus = 0 /\ value_scale' >= call.d.s /\ call' = call /\ m' = 0
        /\ call.op # "normalize"
    BY <1>1, <1>2, <1>3, <1>7, AimedSurplus DEF SmallerOf
  <2>2. m' = Given * POWERS[IF m' = 0 THEN 0 ELSE value_scale' - call.d.s]
    BY <1>3, <2>1, PowersAssumption
  <2>3. QED
    BY <1>2, <1>4, <2>1, <2>2, EndsKept
<1>8. QED
  BY <1>3, <1>5, <1>6, <1>7

LEMMA RescaleDownInv == RoundInv /\ RescaleDown => RoundInv'
<1> SUFFICES ASSUME RoundInv, RescaleDown PROVE RoundInv'
  OBVIOUS
<1>1. /\ pc = "rescale" /\ value_scale > to /\ m # 0
      /\ k' = value_scale - to /\ digit' = 0 /\ pc' = "drop"
      /\ UNCHANGED <<call, m, neg, value_scale, to, working, figures, exp>>
  BY DEF RescaleDown
<1>2. RoundCall /\ RoundingTypeOK /\ Rescaling
  BY <1>1 DEF RoundInv
<1>3. /\ to \in Nat /\ value_scale \in Nat
      /\ value_scale = call.d.s /\ m = Given /\ neg = call.d.neg /\ Aimed /\ exp = 0
  BY <1>2 DEF Rescaling, SameNumber, RoundingTypeOK
<1>4. RoundingTypeOK'
  BY <1>1, <1>2, <1>3, BaseAssumption DEF RoundingTypeOK
<1>5. value_scale' - to' - k' = 0
  BY <1>1, <1>3
<1>6. Aimed' /\ Given' = Given
  BY <1>1, <1>3 DEF Aimed, Given
<1>7. DroppedDigits(Given, m, 0, 0)
  BY <1>3 DEF DroppedDigits
<1>8. Dropping'
  <2>1. DroppedDigits(Given', m', digit', value_scale' - to' - k')
    BY <1>1, <1>5, <1>6, <1>7
  <2>2. k' <= value_scale' - to'
    BY <1>1, <1>3
  <2>3. QED
    BY <1>1, <1>3, <1>6, <2>1, <2>2 DEF Dropping
<1>9. QED
  BY <1>1, <1>2, <1>4, <1>8, SameCall, NotEnded DEF RoundInv

\* What the loop that drops digits works with.
LEMMA DropFacts ==
    ASSUME RoundCall, RoundingTypeOK, Dropping
    PROVE  /\ to \in Nat /\ k \in Nat /\ value_scale \in Nat /\ m \in Nat /\ m \in Mantissa /\ digit \in 0..(Ten - 1)
           /\ Given \in Nat /\ Given \in Mantissa
           /\ value_scale = call.d.s /\ to < value_scale /\ k <= value_scale - to
           /\ value_scale - to - k \in 0..PowLimit /\ value_scale - to \in 1..PowLimit
           /\ value_scale \in 0..MAX_SCALE
           /\ neg = call.d.neg /\ exp = 0 /\ Aimed
           /\ Surplus = call.d.s - to
           /\ call.op \in {"rescale", "trunc", "floor", "ceil"}
           /\ call.op \in {"floor", "ceil"} => to = 0
<1>1. /\ to \in Nat /\ k \in Nat /\ value_scale \in Nat /\ m \in Mantissa /\ digit \in 0..(Ten - 1)
  BY DEF RoundingTypeOK
<1>2. /\ value_scale = call.d.s /\ to < value_scale /\ k <= value_scale - to
      /\ neg = call.d.neg /\ exp = 0 /\ Aimed
  BY DEF Dropping
<1>3. call.d.s \in 0..MAX_SCALE /\ call.d.s \in 0..PowLimit /\ PowLimit \in Nat /\ Given \in Nat /\ Given \in Mantissa
  BY CallFacts
<1>4. m \in Nat
  BY <1>1, BaseType DEF Mantissa
<1>5. value_scale - to - k \in 0..PowLimit /\ value_scale - to \in 1..PowLimit
  BY <1>1, <1>2, <1>3
<1>6. QED
  BY <1>1, <1>2, <1>3, <1>4, <1>5, AimedSurplus

LEMMA DropDigitInv == RoundInv /\ DropDigit => RoundInv'
<1> SUFFICES ASSUME RoundInv, DropDigit PROVE RoundInv'
  OBVIOUS
<1>1. /\ pc = "drop" /\ k > 0 /\ m # 0 /\ pc' = "drop"
      /\ k' = k - 1 /\ m' = m \div Ten /\ digit' = m % Ten
      /\ UNCHANGED <<call, neg, value_scale, to, working, figures, exp>>
  BY DEF DropDigit
<1>2. RoundCall /\ RoundingTypeOK /\ Dropping
  BY <1>1 DEF RoundInv
<1> DEFINE j == value_scale - to - k
<1>3. /\ to \in Nat /\ k \in Nat /\ value_scale \in Nat /\ m \in Nat /\ m \in Mantissa /\ digit \in 0..(Ten - 1)
      /\ Given \in Nat /\ j \in 0..PowLimit /\ k <= value_scale - to
  BY <1>2, DropFacts
<1>4. DroppedDigits(Given, m, digit, j) /\ Given # 0 /\ Aimed
  BY <1>2 DEF Dropping
<1>5. value_scale' - to' - k' = j + 1
  BY <1>1, <1>3
<1> HIDE DEF j
<1>6. DroppedDigits(Given, m', digit', j + 1)
  BY <1>1, <1>3, <1>4, DropOne
<1>7. Aimed' /\ Given' = Given
  BY <1>1, <1>4 DEF Aimed, Given
<1>8. Dropping'
  <2>1. DroppedDigits(Given', m', digit', value_scale' - to' - k')
    BY <1>5, <1>6, <1>7
  <2>2. k' <= value_scale' - to'
    BY <1>1, <1>3
  <2>3. QED
    BY <1>1, <1>2, <1>7, <2>1, <2>2 DEF Dropping
<1>9. RoundingTypeOK'
  <2>1. Ten \in Nat /\ Ten > 1
    BY BaseAssumption
  <2>2. m' \in Nat /\ m' <= m /\ digit' \in 0..(Ten - 1)
    BY <1>1, <1>3, <2>1
  <2>3. m' \in Mantissa
    BY <1>3, <2>2, BaseType DEF Mantissa
  <2>4. QED
    BY <1>1, <1>2, <1>3, <2>2, <2>3 DEF RoundingTypeOK
<1>10. QED
  BY <1>1, <1>2, <1>8, <1>9, SameCall, NotEnded DEF RoundInv

\* A mantissa without some of its digits can be rounded up.
LEMMA RoundedUpFits ==
    ASSUME NEW v \in Mantissa, NEW q \in Nat, NEW p \in Nat, p >= 2, q * p <= v
    PROVE  q \in Mantissa /\ q + 1 \in Mantissa
<1>1. v \in Nat /\ v <= Max96 /\ Max96 \in Nat /\ Max96 >= 7
  BY BaseType DEF Mantissa
<1>2. 2 * q <= p * q /\ p * q = q * p /\ q * p \in Int
  BY MulMono, MulAssoc
<1>3. QED
  BY <1>1, <1>2 DEF Mantissa

\* A power that drops digits is even and at least two.
LEMMA EvenPower ==
    ASSUME NEW i \in 1..PowLimit
    PROVE  /\ POWERS[i] \in Nat /\ POWERS[i] >= 2
           /\ POWERS[i] \div 2 \in Nat \ {0} /\ POWERS[i] = 2 * (POWERS[i] \div 2)
<1>1. i \in 0..PowLimit /\ i >= 1
  BY ScaleAssumption
<1>2. POWERS[i] \in Nat /\ POWERS[i] >= 1 /\ POWERS[i] % 2 = 0
  BY <1>1, PowersType
<1>3. QED
  BY <1>2

\* rescale and trunc return what is left of the digits, rescale rounded.
LEMMA DroppedEnds ==
    ASSUME RoundCall, call' = call, pc' = "done", RoundingTypeOK',
           call.op \in {"rescale", "trunc"},
           Surplus > 0, value_scale' \in Nat, value_scale' = call.d.s - Surplus, neg' = call.d.neg,
           NEW q \in Nat, NEW rest \in 0..(POWERS[Surplus] - 1),
           Given = q * POWERS[Surplus] + rest,
           m' = IF call.op = "rescale" /\ 2 * rest >= POWERS[Surplus] THEN q + 1 ELSE q
    PROVE  RoundInv'
<1> DEFINE p == POWERS[Surplus]
<1> DEFINE half == p \div 2
<1>1. call.d.s \in Nat /\ Surplus \in 1..PowLimit /\ Strategy \in Strategies
      /\ Sign(call.d.neg) \in {-1, 1} /\ Given \in Nat
  BY CallFacts, SurplusType, StrategyOf
<1>2. p \in Nat \ {0} /\ half \in Nat \ {0} /\ p = 2 * half
  BY <1>1, EvenPower
<1>3. rest \in 0..(2 * half - 1) /\ Given = q * p + rest
  BY <1>2
<1> DEFINE g == Sign(call.d.neg)
<1>4. StepsAway(Strategy, g, rest, half, q) <=> (call.op = "rescale" /\ 2 * rest >= p)
  <2>1. CASE call.op = "rescale"
    <3>1. Strategy = "MidpointAwayFromZero"
      BY <2>1, StrategyOf
    <3>2. StepsAway(Strategy, g, rest, half, q) <=> rest >= half
      BY <3>1 DEF StepsAway
    <3> HIDE DEF p, half, g
    <3>3. rest >= half <=> 2 * rest >= p
      BY <1>2, <1>3
    <3>4. QED
      BY <2>1, <3>2, <3>3
  <2>2. CASE call.op = "trunc"
    <3>1. Strategy = "ToZero"
      BY <2>2, StrategyOf
    <3>2. QED
      BY <2>2, <3>1 DEF StepsAway
  <2>3. QED
    BY <2>1, <2>2
<1>5. g \in {-1, 1}
  BY <1>1
<1> HIDE DEF half, g
<1>6. m' \in Nat /\ Follows(Strategy, g * Given, g * m', p)
  <2>1. /\ StepsAway(Strategy, g, rest, half, q) => Follows(Strategy, g * Given, g * (q + 1), p)
        /\ ~StepsAway(Strategy, g, rest, half, q) => Follows(Strategy, g * Given, g * q, p)
    BY <1>1, <1>2, <1>3, <1>5, StepsFollow
  <2>2. QED
    BY <1>4, <2>1
<1>7. call.d.s - value_scale' = Surplus /\ value_scale' <= call.d.s
  BY <1>1
<1>8. QED
  BY <1>6, <1>7, EndsRounded DEF g

LEMMA DropZeroInv == RoundInv /\ DropZero => RoundInv'
<1> SUFFICES ASSUME RoundInv, DropZero PROVE RoundInv'
  OBVIOUS
<1>1. /\ pc = "drop" /\ k > 0 /\ m = 0 /\ value_scale' = to
      /\ pc' = IF call.op \in {"floor", "ceil"} THEN "step" ELSE "done"
      /\ UNCHANGED <<call, m, neg, to, k, working, digit, figures, exp>>
  BY DEF DropZero, AfterLoops
<1>2. RoundCall /\ RoundingTypeOK /\ Dropping
  BY <1>1 DEF RoundInv
<1> DEFINE j == value_scale - to - k
<1> DEFINE p == POWERS[Surplus]
<1>3. /\ to \in Nat /\ k \in Nat /\ value_scale \in Nat /\ m \in Nat /\ digit \in 0..(Ten - 1)
      /\ Given \in Nat /\ j \in 0..PowLimit /\ k <= value_scale - to /\ value_scale = call.d.s
      /\ to < value_scale /\ Surplus = value_scale - to /\ Surplus \in 1..PowLimit /\ neg = call.d.neg /\ exp = 0
      /\ call.op \in {"rescale", "trunc", "floor", "ceil"} /\ (call.op \in {"floor", "ceil"} => to = 0)
  BY <1>2, DropFacts
<1>4. RoundingTypeOK'
  BY <1>1, <1>2, <1>3 DEF RoundingTypeOK
<1>5. 2 * Given < p /\ p \in Nat
  <2>1. DroppedDigits(Given, m, digit, j)
    BY <1>2 DEF Dropping
  <2>2. j + 1 <= Surplus /\ j + 1 \in 0..PowLimit /\ j + 1 <= PowLimit /\ Surplus \in 0..PowLimit
    BY <1>1, <1>3, ScaleAssumption
  <2> HIDE DEF j
  <2>3. PICK rest \in 0..(POWERS[j] - 1) : Given = m * POWERS[j] + rest
    <3>1. Given \in Nat /\ m \in Nat /\ digit \in 0..(Ten - 1) /\ j \in 0..PowLimit
      BY <1>3
    <3>2. \E rest \in 0..(POWERS[j] - 1) :
              /\ Given = m * POWERS[j] + rest
              /\ j > 0 => (2 * rest >= POWERS[j] <=> digit >= Ten \div 2)
      BY <2>1, <3>1, DroppedRest
    <3>3. QED
      BY <3>2
  <2>4. POWERS[j] \in Nat /\ POWERS[Surplus] \in Nat /\ POWERS[j + 1] \in Nat
    BY <1>3, <2>2, PowersType
  <2>5. Given < POWERS[j]
    BY <1>1, <2>3, <2>4
  <2>6. 2 * POWERS[j] <= POWERS[j + 1] /\ POWERS[j + 1] <= POWERS[Surplus]
    BY <1>3, <2>2, PowersNext, PowersMono
  <2>7. QED
    BY <1>3, <2>4, <2>5, <2>6
<1>6. Given \in 0..(p - 1) /\ Given = 0 * p + Given /\ ~(2 * Given >= p)
  BY <1>3, <1>5
<1>7. CASE call.op \in {"floor", "ceil"}
  <2>1. 0 = Given \div POWERS[call.d.s]
    <3>1. Surplus = call.d.s /\ p \in Nat \ {0} /\ Given < p /\ 0 \in Nat
      BY <1>3, <1>5, <1>7
    <3> HIDE DEF p
    <3>2. Given \div p = 0
      BY <1>3, <1>6, <3>1, QuotientUnique
    <3>3. QED
      BY <3>1, <3>2 DEF p
  <2>2. pc' = "step" /\ Stepping'
    BY <1>1, <1>3, <1>7, <2>1 DEF Stepping, Given
  <2>3. QED
    BY <1>1, <1>2, <1>4, <2>2, SameCall, NotEnded DEF RoundInv
<1>8. CASE call.op \in {"rescale", "trunc"}
  <2>1. pc' = "done" /\ call' = call /\ neg' = call.d.neg /\ value_scale' \in Nat
        /\ value_scale' = call.d.s - Surplus /\ Surplus > 0 /\ 0 \in Nat
    BY <1>1, <1>3, <1>8
  <2>2. m' = IF call.op = "rescale" /\ 2 * Given >= p THEN 0 + 1 ELSE 0
    BY <1>1, <1>6
  <2>3. \A q \in Nat : \A rest \in 0..(POWERS[Surplus] - 1) :
            /\ Given = q * POWERS[Surplus] + rest
            /\ m' = (IF call.op = "rescale" /\ 2 * rest >= POWERS[Surplus] THEN q + 1 ELSE q)
            => RoundInv'
    BY <1>2, <1>4, <1>8, <2>1, DroppedEnds
  <2>4. QED
    BY <1>6, <2>1, <2>2, <2>3
<1>9. QED
  BY <1>3, <1>7, <1>8

LEMMA DropRoundInv == RoundInv /\ DropRound => RoundInv'
<1> SUFFICES ASSUME RoundInv, DropRound PROVE RoundInv'
  OBVIOUS
<1>1. /\ pc = "drop" /\ k = 0 /\ value_scale' = to
      /\ m' = IF Rounds /\ digit >= Ten \div 2 THEN m + 1 ELSE m
      /\ pc' = IF call.op \in {"floor", "ceil"} THEN "step" ELSE "done"
      /\ UNCHANGED <<call, neg, to, k, working, digit, figures, exp>>
  BY DEF DropRound, AfterLoops
<1>2. RoundCall /\ RoundingTypeOK /\ Dropping
  BY <1>1 DEF RoundInv
<1> DEFINE p == POWERS[Surplus]
<1>3. /\ to \in Nat /\ value_scale \in Nat /\ m \in Nat /\ digit \in 0..(Ten - 1)
      /\ Given \in Nat /\ Given \in Mantissa /\ value_scale = call.d.s /\ to < value_scale
      /\ Surplus = value_scale - to /\ Surplus \in 1..PowLimit /\ Surplus \in 0..PowLimit
      /\ neg = call.d.neg /\ exp = 0
      /\ call.op \in {"rescale", "trunc", "floor", "ceil"} /\ (call.op \in {"floor", "ceil"} => to = 0)
  BY <1>2, DropFacts, ScaleAssumption
<1>4. value_scale - to - k = Surplus
  BY <1>1, <1>3
<1>5. DroppedDigits(Given, m, digit, Surplus)
  BY <1>2, <1>4 DEF Dropping
<1>6. PICK rest \in 0..(p - 1) : Given = m * p + rest /\ (2 * rest >= p <=> digit >= Ten \div 2)
  <2>1. Given \in Nat /\ m \in Nat /\ digit \in 0..(Ten - 1) /\ Surplus \in 0..PowLimit
    BY <1>3
  <2>2. \E rest \in 0..(POWERS[Surplus] - 1) :
            /\ Given = m * POWERS[Surplus] + rest
            /\ Surplus > 0 => (2 * rest >= POWERS[Surplus] <=> digit >= Ten \div 2)
    BY <1>5, <2>1, DroppedRest
  <2>3. Surplus > 0
    BY <1>3
  <2>4. QED
    BY <2>2, <2>3
<1>7. p \in Nat /\ p >= 2 /\ m * p <= Given
  <2>1. p \in Nat /\ p >= 2
    BY <1>3, EvenPower
  <2> HIDE DEF p
  <2>2. m * p \in Nat
    BY <1>3, <2>1
  <2>3. QED
    BY <1>6, <2>1, <2>2
<1>8. m \in Mantissa /\ m + 1 \in Mantissa
  BY <1>3, <1>7, RoundedUpFits
<1>9. RoundingTypeOK'
  BY <1>1, <1>2, <1>3, <1>8 DEF RoundingTypeOK
<1>10. Rounds <=> call.op = "rescale"
  BY <1>3 DEF Rounds
<1>11. CASE call.op \in {"floor", "ceil"}
  <2>1. m = Given \div POWERS[call.d.s]
    <3>1. p \in Nat \ {0} /\ rest \in Nat /\ rest < p
      BY <1>7
    <3>2. Surplus = call.d.s
      BY <1>3, <1>11
    <3> HIDE DEF p
    <3>3. Given \div p = m
      BY <1>3, <1>6, <3>1, QuotientUnique
    <3>4. QED
      BY <3>2, <3>3 DEF p
  <2>2. pc' = "step" /\ m' = m /\ value_scale' = 0 /\ call.d.s > 0
    BY <1>1, <1>3, <1>10, <1>11
  <2>3. Stepping'
    BY <1>1, <1>3, <1>11, <2>1, <2>2 DEF Stepping, Given
  <2>4. QED
    BY <1>1, <1>2, <1>9, <2>2, <2>3, SameCall, NotEnded DEF RoundInv
<1>12. CASE call.op \in {"rescale", "trunc"}
  <2>1. pc' = "done" /\ call' = call /\ neg' = call.d.neg /\ value_scale' \in Nat
        /\ value_scale' = call.d.s - Surplus /\ Surplus > 0
    BY <1>1, <1>3, <1>12
  <2>2. m' = IF call.op = "rescale" /\ 2 * rest >= p THEN m + 1 ELSE m
    BY <1>1, <1>6, <1>10
  <2>3. QED
    BY <1>2, <1>3, <1>6, <1>9, <1>12, <2>1, <2>2, DroppedEnds
<1>13. QED
  BY <1>3, <1>11, <1>12

LEMMA RescaleUpInv == RoundInv /\ RescaleUp => RoundInv'
<1> SUFFICES ASSUME RoundInv, RescaleUp PROVE RoundInv'
  OBVIOUS
<1>1. /\ pc = "rescale" /\ value_scale < to /\ m # 0
      /\ k' = to - value_scale /\ working' = m /\ pc' = "extend"
      /\ UNCHANGED <<call, m, neg, value_scale, to, digit, figures, exp>>
  BY DEF RescaleUp
<1>2. RoundCall /\ RoundingTypeOK /\ Rescaling
  BY <1>1 DEF RoundInv
<1>3. /\ to \in Nat /\ value_scale \in Nat /\ MAX_SCALE \in Nat /\ Given \in Nat /\ POWERS[0] = 1
      /\ value_scale = call.d.s /\ m = Given /\ neg = call.d.neg /\ Aimed /\ exp = 0
  BY <1>2, CallFacts, PowersAssumption DEF Rescaling, SameNumber, RoundingTypeOK
<1>4. RoundingTypeOK'
  BY <1>1, <1>2, <1>3 DEF RoundingTypeOK
<1>5. to' - value_scale' - k' = 0
  BY <1>1, <1>3
<1>6. Aimed' /\ Given' = Given
  BY <1>1, <1>3 DEF Aimed, Given
<1>7. m' = Given' * POWERS[to' - value_scale' - k']
  BY <1>1, <1>3, <1>5, <1>6
<1>8. k' <= to' - value_scale' /\ to' - value_scale' - k' <= MAX_SCALE
  BY <1>1, <1>3
<1>9. Extending'
  BY <1>1, <1>3, <1>6, <1>7, <1>8 DEF Extending
<1>10. QED
  BY <1>1, <1>2, <1>4, <1>9, SameCall, NotEnded DEF RoundInv

\* What the loop that adds digits works with.
LEMMA ExtendFacts ==
    ASSUME RoundCall, RoundingTypeOK, Extending
    PROVE  /\ to \in Nat /\ k \in Nat /\ value_scale \in Nat /\ m \in Nat /\ m \in Mantissa
           /\ working = m /\ Given \in Nat /\ Given # 0
           /\ value_scale = call.d.s /\ value_scale < to /\ k <= to - value_scale
           /\ to - value_scale - k \in 0..MAX_SCALE /\ to - value_scale - k \in 0..PowLimit
           /\ m = Given * POWERS[to - value_scale - k]
           /\ neg = call.d.neg /\ exp = 0 /\ Aimed
           /\ Surplus = 0
           /\ call.op \in {"rescale", "trunc", "round_sf"}
<1>1. /\ to \in Nat /\ k \in Nat /\ value_scale \in Nat /\ m \in Mantissa
  BY DEF RoundingTypeOK
<1>2. /\ value_scale = call.d.s /\ value_scale < to /\ k <= to - value_scale /\ to - value_scale - k <= MAX_SCALE
      /\ working = m /\ m = Given * POWERS[to - value_scale - k] /\ Given # 0
      /\ neg = call.d.neg /\ exp = 0 /\ Aimed
  BY DEF Extending
<1>3. MAX_SCALE \in Nat /\ PowLimit \in Nat /\ MAX_SCALE <= PowLimit /\ Given \in Nat
  BY CallFacts
<1>4. m \in Nat
  BY <1>1, BaseType DEF Mantissa
<1>5. to - value_scale - k \in 0..MAX_SCALE /\ to - value_scale - k \in 0..PowLimit
  BY <1>1, <1>2, <1>3
<1>6. Surplus = 0 /\ call.op \in {"rescale", "trunc", "round_sf"}
  BY <1>1, <1>2, AimedSurplus
<1>7. QED
  BY <1>1, <1>2, <1>3, <1>4, <1>5, <1>6

LEMMA ExtendDigitInv == RoundInv /\ ExtendDigit => RoundInv'
<1> SUFFICES ASSUME RoundInv, ExtendDigit PROVE RoundInv'
  OBVIOUS
<1>1. /\ pc = "extend" /\ k > 0 /\ working * Ten <= Max96 /\ pc' = "extend"
      /\ working' = working * Ten /\ m' = working * Ten /\ k' = k - 1
      /\ UNCHANGED <<call, neg, value_scale, to, digit, figures, exp>>
  BY DEF ExtendDigit
<1>2. RoundCall /\ RoundingTypeOK /\ Extending
  BY <1>1 DEF RoundInv
<1> DEFINE j == to - value_scale - k
<1>3. /\ to \in Nat /\ k \in Nat /\ value_scale \in Nat /\ m \in Nat /\ working = m
      /\ Given \in Nat /\ Given # 0 /\ k <= to - value_scale
      /\ j \in 0..MAX_SCALE /\ j \in 0..PowLimit /\ m = Given * POWERS[j]
  BY <1>2, ExtendFacts
<1>4. MAX_SCALE \in Nat /\ PowLimit \in Nat /\ MAX_SCALE + 1 \in 0..PowLimit /\ Ten \in Nat
  BY <1>2, CallFacts, BaseAssumption
<1>5. to' - value_scale' - k' = j + 1 /\ k' <= to' - value_scale' /\ k' \in Nat
  BY <1>1, <1>3
<1> HIDE DEF j
<1>6. j + 1 \in 0..PowLimit /\ j + 1 <= PowLimit /\ POWERS[j + 1] \in Nat /\ POWERS[j] \in Nat
  BY <1>3, <1>4, PowersType
<1>7. m' = Given * POWERS[j + 1] /\ m' \in Nat
  <2>1. POWERS[j + 1] = POWERS[j] * Ten
    BY <1>3, <1>6, PowersNext
  <2>2. (Given * POWERS[j]) * Ten = Given * (POWERS[j] * Ten)
    BY <1>3, <1>4, <1>6, MulAssoc
  <2>3. QED
    BY <1>1, <1>3, <1>4, <1>6, <2>1, <2>2
<1>8. m' \in Mantissa
  BY <1>1, <1>7 DEF Mantissa
<1>9. j + 1 <= MAX_SCALE
  <2>1. SUFFICES ASSUME j + 1 = MAX_SCALE + 1 PROVE FALSE
    BY <1>3, <1>4
  <2>2. 1 * POWERS[j + 1] <= Given * POWERS[j + 1]
    BY <1>3, <1>6, MulMono
  <2>3. B3 <= POWERS[j + 1] /\ B3 \in Nat /\ Max96 = B3 - 1
    BY <2>1, FiguresAssumption, BaseType
  <2>4. m' <= Max96
    BY <1>1
  <2>5. QED
    BY <1>6, <1>7, <2>2, <2>3, <2>4
<1>10. Aimed' /\ Given' = Given
  BY <1>1, <1>2 DEF Aimed, Given, Extending
<1>11. Extending'
  <2>1. m' = Given' * POWERS[to' - value_scale' - k']
    BY <1>5, <1>7, <1>10
  <2>2. to' - value_scale' - k' <= MAX_SCALE
    BY <1>5, <1>9
  <2>3. QED
    BY <1>1, <1>2, <1>5, <1>10, <2>1, <2>2 DEF Extending
<1>12. RoundingTypeOK'
  BY <1>1, <1>2, <1>3, <1>5, <1>8 DEF RoundingTypeOK
<1>13. QED
  BY <1>1, <1>2, <1>11, <1>12, SameCall, NotEnded DEF RoundInv

LEMMA ExtendStopInv == RoundInv /\ ExtendStop => RoundInv'
<1> SUFFICES ASSUME RoundInv, ExtendStop PROVE RoundInv'
  OBVIOUS
<1>1. /\ pc = "extend" /\ (k = 0 \/ working * Ten > Max96)
      /\ value_scale' = to - k /\ pc' = IF call.op \in {"floor", "ceil"} THEN "step" ELSE "done"
      /\ UNCHANGED <<call, m, neg, to, k, working, digit, figures, exp>>
  BY DEF ExtendStop, AfterLoops
<1>2. RoundCall /\ RoundingTypeOK /\ Extending
  BY <1>1 DEF RoundInv
<1>3. /\ to \in Nat /\ k \in Nat /\ value_scale \in Nat /\ m \in Nat /\ working = m
      /\ Given \in Nat /\ Given # 0 /\ k <= to - value_scale /\ value_scale = call.d.s
      /\ to - value_scale - k \in 0..PowLimit /\ m = Given * POWERS[to - value_scale - k]
      /\ neg = call.d.neg /\ Surplus = 0 /\ call.op \in {"rescale", "trunc", "round_sf"}
  BY <1>2, ExtendFacts
<1>4. pc' = "done" /\ value_scale' \in Nat /\ value_scale' >= call.d.s
      /\ value_scale' - call.d.s = to - value_scale - k
  BY <1>1, <1>3
<1>5. RoundingTypeOK'
  BY <1>1, <1>2, <1>4 DEF RoundingTypeOK
<1>6. m # 0
  <2> DEFINE p == POWERS[to - value_scale - k]
  <2>1. p \in Nat /\ p >= 1
    BY <1>3, PowersType
  <2> HIDE DEF p
  <2>2. 1 * p <= Given * p
    BY <1>3, <2>1, MulMono
  <2>3. m = Given * p
    BY <1>3 DEF p
  <2>4. QED
    BY <1>3, <2>1, <2>2, <2>3
<1>7. m' = Given * POWERS[IF m' = 0 THEN 0 ELSE value_scale' - call.d.s]
  BY <1>1, <1>3, <1>4, <1>6
<1>8. value_scale' < to' => m' * Ten > Max96
  BY <1>1, <1>3
<1>9. QED
  BY <1>1, <1>2, <1>3, <1>4, <1>5, <1>7, <1>8, EndsKept

LEMMA StepInv == RoundInv /\ Step => RoundInv'
<1> SUFFICES ASSUME RoundInv, Step PROVE RoundInv'
  OBVIOUS
<1>1. /\ pc = "step" /\ pc' = "done"
      /\ m' = IF call.d.m % POWERS[call.d.s] # 0 /\ neg = (call.op = "floor") THEN m + 1 ELSE m
      /\ UNCHANGED <<call, neg, value_scale, to, k, working, digit, figures, exp>>
  BY DEF Step, HasFraction
<1>2. RoundCall /\ RoundingTypeOK /\ Stepping
  BY <1>1 DEF RoundInv
<1>3. /\ call.op \in {"floor", "ceil"} /\ neg = call.d.neg /\ value_scale = 0 /\ call.d.s > 0
      /\ m = Given \div POWERS[call.d.s]
  BY <1>2 DEF Stepping
<1>4. /\ Given \in Mantissa /\ Given \in Nat /\ call.d.s \in 0..PowLimit /\ PowLimit \in Nat
      /\ Sign(call.d.neg) \in {-1, 1} /\ Surplus = call.d.s /\ call.d.neg \in BOOLEAN /\ Strategy \in Strategies
  BY <1>2, <1>3, CallFacts, SurplusOf, StrategyOf
<1> DEFINE p == POWERS[call.d.s]
<1> DEFINE half == p \div 2
<1> DEFINE rest == Given % p
<1> DEFINE g == Sign(call.d.neg)
<1>5. call.d.s \in 1..PowLimit
  BY <1>3, <1>4
<1>6. p \in Nat \ {0} /\ p >= 2 /\ half \in Nat \ {0} /\ p = 2 * half
  BY <1>5, EvenPower
<1>7. m \in Nat /\ rest \in Nat /\ rest < p /\ Given = m * p + rest
  BY <1>3, <1>4, <1>6, DivMod
<1>8. m' = IF rest # 0 /\ neg = (call.op = "floor") THEN m + 1 ELSE m
  BY <1>1 DEF Given
<1>9. g \in {-1, 1} /\ (g = -1 <=> call.d.neg)
  BY DEF Sign
<1> HIDE DEF half, rest, g
<1>10. StepsAway(Strategy, g, rest, half, m) <=> rest # 0 /\ neg = (call.op = "floor")
  <2>1. CASE call.op = "floor"
    <3>1. Strategy = "ToNegativeInfinity"
      BY <1>2, <2>1, StrategyOf
    <3>2. StepsAway(Strategy, g, rest, half, m) <=> g = -1 /\ rest # 0
      BY <3>1 DEF StepsAway
    <3>3. neg = (call.op = "floor") <=> call.d.neg
      BY <1>3, <1>4, <2>1
    <3>4. QED
      BY <1>9, <3>2, <3>3
  <2>2. CASE call.op = "ceil"
    <3>1. Strategy = "ToPositiveInfinity"
      BY <1>2, <2>2, StrategyOf
    <3>2. StepsAway(Strategy, g, rest, half, m) <=> g = 1 /\ rest # 0
      BY <3>1 DEF StepsAway
    <3>3. neg = (call.op = "floor") <=> ~call.d.neg
      BY <1>3, <1>4, <2>2
    <3>4. QED
      BY <1>9, <3>2, <3>3
  <2>3. QED
    BY <1>3, <2>1, <2>2
<1>11. m' \in Nat /\ Follows(Strategy, g * Given, g * m', p)
  <2>1. rest \in 0..(2 * half - 1)
    BY <1>6, <1>7
  <2> HIDE DEF p
  <2>2. /\ StepsAway(Strategy, g, rest, half, m) => Follows(Strategy, g * Given, g * (m + 1), p)
        /\ ~StepsAway(Strategy, g, rest, half, m) => Follows(Strategy, g * Given, g * m, p)
    BY <1>4, <1>6, <1>7, <1>9, <2>1, StepsFollow
  <2>3. QED
    BY <1>7, <1>8, <1>10, <2>2
<1>12. m' \in Mantissa
  <2> HIDE DEF p
  <2>1. m * p \in Nat
    BY <1>6, <1>7
  <2>2. m * p <= Given
    BY <1>7, <2>1
  <2>3. m \in Mantissa /\ m + 1 \in Mantissa
    BY <1>4, <1>6, <1>7, <2>2, RoundedUpFits
  <2>4. QED
    BY <1>8, <2>3
<1>13. RoundingTypeOK'
  BY <1>1, <1>2, <1>12 DEF RoundingTypeOK
<1>14. /\ call.d.s - value_scale' = Surplus /\ value_scale' <= call.d.s /\ Surplus > 0
       /\ call' = call /\ neg' = call.d.neg
  BY <1>1, <1>3, <1>4
<1>15. Follows(Strategy, Sign(call.d.neg) * Given, Sign(call.d.neg) * m', POWERS[Surplus])
  BY <1>4, <1>11 DEF g
<1>16. QED
  BY <1>1, <1>2, <1>11, <1>13, <1>14, <1>15, EndsRounded

-----------------------------------------------------------------------------
(***************************************************************************)
(* The loops of round_dp.                                                  *)
(***************************************************************************)
\* What they aim at is the place asked for.
LEMMA PlaceSurplus ==
    ASSUME RoundCall, RoundingTypeOK, RoundsTo, value_scale <= MAX_SCALE
    PROVE  /\ to \in Nat /\ value_scale \in Nat /\ exp \in Nat /\ m \in Nat /\ k \in Nat
           /\ Given \in Nat /\ Given \in Mantissa /\ call.d.s \in Nat /\ call.n \in Nat /\ PowLimit \in Nat
           /\ call.op \in {"round_dp", "round_sf"} /\ Strategy = call.by
           /\ call.op = "round_dp" => exp = 0 /\ to = call.n
           /\ call.op = "round_sf" => /\ to < value_scale /\ Given # 0 /\ call.n > 0
                                      /\ Surplus = FiguresOf(Given) - call.n
                                      /\ FiguresOf(Given) \in Nat /\ call.n < FiguresOf(Given)
           /\ value_scale = call.d.s + exp
           /\ exp > 0 => to = 0 /\ call.op = "round_sf"
           /\ to < value_scale => Surplus = value_scale - to /\ Surplus \in 1..PowLimit /\ Surplus \in 0..PowLimit
           /\ value_scale <= to => Surplus = 0
<1>1. to \in Nat /\ value_scale \in Nat /\ exp \in Nat /\ m \in Mantissa /\ k \in Nat
  BY ScaleAssumption DEF RoundingTypeOK
<1>2. m \in Nat
  BY <1>1, BaseType DEF Mantissa
<1>3. /\ call.d.s \in Nat /\ call.n \in Nat /\ PowLimit \in Nat /\ MAX_SCALE \in Nat /\ MAX_SCALE <= PowLimit
      /\ Given \in Mantissa /\ Given \in Nat
  BY CallFacts
<1>4. FiguresOf(Given) \in Nat
  BY <1>3, FiguresExist
<1>5. CASE call.op = "round_dp"
  <2>1. exp = 0 /\ to = call.n /\ value_scale = call.d.s
    BY <1>5 DEF RoundsTo
  <2>2. Surplus = IF call.d.s > call.n THEN call.d.s - call.n ELSE 0
    BY <1>5, SurplusOf
  <2>3. Strategy = call.by
    BY <1>5, StrategyOf
  <2>4. QED
    BY <1>1, <1>2, <1>3, <1>5, <2>1, <2>2, <2>3
<1>6. CASE call.op = "round_sf"
  <2>1. /\ Given # 0 /\ call.n > 0 /\ call.n < FiguresOf(Given)
        /\ value_scale = call.d.s + exp /\ value_scale - to = FiguresOf(Given) - call.n
        /\ exp > 0 => to = 0
    BY <1>6 DEF RoundsTo
  <2>2. Surplus = FiguresOf(Given) - call.n
    BY <1>3, <1>4, <1>6, <2>1, SurplusOf
  <2>3. Strategy = call.by
    BY <1>6, StrategyOf
  <2>4. QED
    BY <1>1, <1>2, <1>3, <1>4, <1>6, <2>1, <2>2, <2>3
<1>7. QED
  BY <1>5, <1>6 DEF RoundsTo

LEMMA RoundDpKeepsInv == RoundInv /\ RoundDpKeeps => RoundInv'
<1> SUFFICES ASSUME RoundInv, RoundDpKeeps PROVE RoundInv'
  OBVIOUS
<1>1. /\ pc = "round_dp" /\ value_scale <= to
      /\ pc' = IF exp > 0 THEN "back" ELSE "done"
      /\ UNCHANGED <<call, m, neg, value_scale, to, k, working, digit, figures, exp>>
  BY DEF RoundDpKeeps, AfterRound
<1>2. RoundCall /\ RoundingTypeOK /\ Placing
  BY <1>1 DEF RoundInv
<1>3. RoundsTo /\ m = Given /\ neg = call.d.neg /\ value_scale <= MAX_SCALE
  BY <1>2 DEF Placing
<1>4. /\ to \in Nat /\ value_scale \in Nat /\ exp = 0 /\ Given \in Nat /\ call.d.s \in Nat
      /\ call.op = "round_dp" /\ value_scale = call.d.s /\ Surplus = 0
  BY <1>1, <1>2, <1>3, PlaceSurplus
<1>5. pc' = "done" /\ RoundingTypeOK'
  BY <1>1, <1>2, <1>4 DEF RoundingTypeOK
<1>6. value_scale' >= call.d.s /\ value_scale' - call.d.s = 0 /\ POWERS[0] = 1
  BY <1>1, <1>4, PowersAssumption
<1>7. m' = Given * POWERS[IF m' = 0 THEN 0 ELSE value_scale' - call.d.s]
  BY <1>1, <1>3, <1>4, <1>6
<1>8. ~Rescales
  BY <1>4 DEF Rescales
<1>9. QED
  BY <1>1, <1>2, <1>3, <1>4, <1>5, <1>6, <1>7, <1>8, EndsKept

LEMMA RoundDpZeroInv == RoundInv /\ RoundDpZero => RoundInv'
<1> SUFFICES ASSUME RoundInv, RoundDpZero PROVE RoundInv'
  OBVIOUS
<1>1. /\ pc = "round_dp" /\ value_scale > to /\ m = 0 /\ value_scale' = to
      /\ pc' = IF exp > 0 THEN "back" ELSE "done"
      /\ UNCHANGED <<call, m, neg, to, k, working, digit, figures, exp>>
  BY DEF RoundDpZero, AfterRound
<1>2. RoundCall /\ RoundingTypeOK /\ Placing
  BY <1>1 DEF RoundInv
<1>3. RoundsTo /\ m = Given /\ neg = call.d.neg /\ value_scale <= MAX_SCALE
  BY <1>2 DEF Placing
<1>4. /\ to \in Nat /\ value_scale \in Nat /\ exp \in Nat /\ call.d.s \in Nat
      /\ call.op \in {"round_dp", "round_sf"} /\ (call.op = "round_sf" => Given # 0)
      /\ (exp > 0 => call.op = "round_sf") /\ value_scale = call.d.s + exp
      /\ Surplus = value_scale - to /\ Surplus \in 1..PowLimit /\ Surplus \in 0..PowLimit
  BY <1>1, <1>2, <1>3, PlaceSurplus
<1>5. exp = 0 /\ pc' = "done" /\ RoundingTypeOK'
  BY <1>1, <1>2, <1>3, <1>4 DEF RoundingTypeOK
<1>6. Follows(Strategy, Sign(call.d.neg) * Given, Sign(call.d.neg) * 0, POWERS[Surplus])
  <2>1. POWERS[Surplus] \in Nat \ {0} /\ Strategy \in Strategies /\ Sign(call.d.neg) \in {-1, 1} /\ Given \in Nat
    BY <1>2, SurplusType, PowersType, StrategyOf, SignType, CallFacts
  <2>2. Follows(Strategy, Sign(call.d.neg) * Given, Sign(call.d.neg) * Given, POWERS[Surplus])
    BY <1>1, <1>3, <2>1, ZeroFollows
  <2>3. QED
    BY <1>1, <1>3, <2>2
<1>7. /\ m' * POWERS[call.d.s - value_scale'] = 0 * POWERS[Surplus] /\ value_scale' <= call.d.s
      /\ 0 \in Nat /\ Surplus > 0 /\ call' = call
  BY <1>1, <1>4, <1>5
<1>8. QED
  BY <1>2, <1>5, <1>6, <1>7, EndsRounded

LEMMA RoundDpStartInv == RoundInv /\ RoundDpStart => RoundInv'
<1> SUFFICES ASSUME RoundInv, RoundDpStart PROVE RoundInv'
  OBVIOUS
<1>1. /\ pc = "round_dp" /\ value_scale > to /\ m # 0
      /\ k' = value_scale - to /\ pc' = "cut"
      /\ UNCHANGED <<call, m, neg, value_scale, to, working, digit, figures, exp>>
  BY DEF RoundDpStart
<1>2. RoundCall /\ RoundingTypeOK /\ Placing
  BY <1>1 DEF RoundInv
<1>3. RoundsTo /\ m = Given /\ neg = call.d.neg /\ value_scale <= MAX_SCALE
  BY <1>2 DEF Placing
<1>4. to \in Nat /\ value_scale \in Nat /\ Given \in Nat
  BY <1>2, <1>3, PlaceSurplus
<1>5. RoundingTypeOK'
  BY <1>1, <1>2, <1>4 DEF RoundingTypeOK
<1>6. value_scale' - to' - k' = 0 /\ k' <= value_scale' - to'
  BY <1>1, <1>4
<1>7. Given \div 1 = Given /\ POWERS[0] = 1
  BY <1>4, PowersAssumption
<1>8. RoundsTo' /\ Given' = Given
  BY <1>1, <1>3 DEF RoundsTo, Given
<1>9. Cutting'
  BY <1>1, <1>3, <1>6, <1>7, <1>8 DEF Cutting
<1>10. QED
  BY <1>1, <1>2, <1>5, <1>9, SameCall, NotEnded DEF RoundInv

\* A chunk of the digits still to drop or to add.
LEMMA ChunkOf ==
    ASSUME NEW i \in 1..PowLimit, NEW n \in 1..i
    PROVE  /\ Chunk(n) \in 1..n /\ Chunk(n) \in 0..PowLimit
           /\ i - n \in 0..PowLimit /\ (i - n) + Chunk(n) <= PowLimit
           /\ i - (n - Chunk(n)) = (i - n) + Chunk(n)
           /\ n - Chunk(n) \in Nat
<1>1. n \in 1..PowLimit /\ PowLimit \in Nat
  BY ScaleAssumption
<1>2. Chunk(n) \in 1..PowLimit /\ Chunk(n) <= n
  BY <1>1, ChunkType
<1>3. QED
  BY <1>1, <1>2

LEMMA CutChunkInv == RoundInv /\ CutChunk => RoundInv'
<1> SUFFICES ASSUME RoundInv, CutChunk PROVE RoundInv'
  OBVIOUS
<1> DEFINE c == Chunk(k)
<1> DEFINE i == value_scale - to
<1> DEFINE j == value_scale - to - k
<1>1. /\ pc = "cut" /\ k > 0 /\ pc' = "cut"
      /\ m' = m \div POWERS[c] /\ k' = k - c
      /\ UNCHANGED <<call, neg, value_scale, to, working, digit, figures, exp>>
  BY DEF CutChunk
<1>2. RoundCall /\ RoundingTypeOK /\ Cutting
  BY <1>1 DEF RoundInv
<1>3. /\ RoundsTo /\ Given # 0 /\ neg = call.d.neg /\ value_scale <= MAX_SCALE
      /\ to < value_scale /\ k <= i /\ m = Given \div POWERS[j]
  BY <1>2 DEF Cutting
<1>4. /\ to \in Nat /\ value_scale \in Nat /\ Given \in Nat /\ m \in Nat /\ k \in Nat
      /\ i \in 1..PowLimit
  BY <1>2, <1>3, PlaceSurplus
<1>5. k \in 1..i /\ j = i - k
  BY <1>1, <1>3, <1>4
<1> HIDE DEF c, i, j
<1>6. /\ c \in 1..k /\ c \in 0..PowLimit /\ j \in 0..PowLimit /\ j + c <= PowLimit
      /\ i - (k - c) = j + c /\ k - c \in Nat
  BY <1>4, <1>5, ChunkOf DEF c
<1>7. m' = Given \div POWERS[j + c]
  BY <1>1, <1>3, <1>4, <1>6, QuotientTwice
<1>8. value_scale' - to' - k' = j + c /\ k' <= value_scale' - to' /\ k' \in Nat
  <2>1. value_scale' - to' = i
    BY <1>1 DEF i
  <2>2. QED
    BY <1>1, <1>4, <1>5, <1>6, <2>1
<1>9. m' \in Mantissa
  <2>1. POWERS[c] \in Nat /\ POWERS[c] >= 1
    BY <1>6, PowersType
  <2>2. m' \in Nat /\ m' <= m
    BY <1>1, <1>4, <2>1
  <2>3. m \in Mantissa
    BY <1>2 DEF RoundingTypeOK
  <2>4. QED
    BY <1>4, <2>2, <2>3, BaseType DEF Mantissa
<1>10. RoundingTypeOK'
  BY <1>1, <1>2, <1>8, <1>9 DEF RoundingTypeOK
<1>11. RoundsTo' /\ Given' = Given
  BY <1>1, <1>3 DEF RoundsTo, Given
<1>12. m' = Given' \div POWERS[value_scale' - to' - k']
  BY <1>7, <1>8, <1>11
<1>13. Cutting'
  BY <1>1, <1>3, <1>8, <1>11, <1>12 DEF Cutting
<1>14. QED
  BY <1>1, <1>2, <1>10, <1>13, SameCall, NotEnded DEF RoundInv

LEMMA CutDoneInv == RoundInv /\ CutDone => RoundInv'
<1> SUFFICES ASSUME RoundInv, CutDone PROVE RoundInv'
  OBVIOUS
<1>1. /\ pc = "cut" /\ k = 0 /\ pc' = "offset"
      /\ k' = value_scale - to /\ working' = m
      /\ UNCHANGED <<call, m, neg, value_scale, to, digit, figures, exp>>
  BY DEF CutDone
<1>2. RoundCall /\ RoundingTypeOK /\ Cutting
  BY <1>1 DEF RoundInv
<1>3. /\ RoundsTo /\ Given # 0 /\ neg = call.d.neg /\ value_scale <= MAX_SCALE
      /\ to < value_scale /\ m = Given \div POWERS[value_scale - to - k]
  BY <1>2 DEF Cutting
<1>4. /\ to \in Nat /\ value_scale \in Nat /\ m \in Nat
  BY <1>2, <1>3, PlaceSurplus
<1>5. value_scale - to - k = value_scale - to /\ value_scale' - to' - k' = 0 /\ k' <= value_scale' - to'
      /\ k' \in Nat
  BY <1>1, <1>3, <1>4
<1>6. RoundingTypeOK'
  BY <1>1, <1>2, <1>5 DEF RoundingTypeOK
<1>7. RoundsTo' /\ Given' = Given
  BY <1>1, <1>3 DEF RoundsTo, Given
<1>8. m' = Given' \div POWERS[value_scale' - to']
  BY <1>1, <1>3, <1>5, <1>7
<1>9. working' = m' * POWERS[value_scale' - to' - k']
  BY <1>1, <1>4, <1>5, PowersAssumption
<1>10. Restoring'
  BY <1>1, <1>3, <1>5, <1>7, <1>8, <1>9 DEF Restoring
<1>11. QED
  BY <1>1, <1>2, <1>6, <1>10, SameCall, NotEnded DEF RoundInv


\* Scaling back up gives no more than the number given: nothing overflows.
LEMMA OffsetChunkInv == RoundInv /\ OffsetChunk => RoundInv'
<1> SUFFICES ASSUME RoundInv, OffsetChunk PROVE RoundInv'
  OBVIOUS
<1> DEFINE c == Chunk(k)
<1> DEFINE i == value_scale - to
<1> DEFINE j == value_scale - to - k
<1>1. /\ pc = "offset" /\ k > 0 /\ pc' = "offset"
      /\ working' = (working * POWERS[c]) % B3 /\ k' = k - c
      /\ UNCHANGED <<call, m, neg, value_scale, to, digit, figures, exp>>
  BY DEF OffsetChunk
<1>2. RoundCall /\ RoundingTypeOK /\ Restoring
  BY <1>1 DEF RoundInv
<1>3. /\ RoundsTo /\ Given # 0 /\ neg = call.d.neg /\ value_scale <= MAX_SCALE
      /\ to < value_scale /\ k <= i /\ m = Given \div POWERS[i] /\ working = m * POWERS[j]
  BY <1>2 DEF Restoring
<1>4. /\ to \in Nat /\ value_scale \in Nat /\ Given \in Nat /\ Given \in Mantissa /\ m \in Nat /\ k \in Nat
      /\ i \in 1..PowLimit /\ i \in 0..PowLimit /\ PowLimit \in Nat
  BY <1>2, <1>3, PlaceSurplus
<1>5. k \in 1..i /\ j = i - k
  BY <1>1, <1>3, <1>4
<1> HIDE DEF c, i, j
<1>6. /\ c \in 1..k /\ c \in 0..PowLimit /\ j \in 0..PowLimit /\ j + c <= PowLimit
      /\ i - (k - c) = j + c /\ k - c \in Nat
  BY <1>4, <1>5, ChunkOf DEF c
<1>7. /\ j + c \in 0..PowLimit /\ j + c <= i
      /\ POWERS[j + c] = POWERS[j] * POWERS[c]
      /\ POWERS[j] \in Nat /\ POWERS[c] \in Nat /\ POWERS[j + c] \in Nat /\ POWERS[i] \in Nat
      /\ POWERS[i] \in Nat \ {0} /\ POWERS[j + c] <= POWERS[i]
  <2>1. j + c \in 0..PowLimit /\ j + c <= i
    BY <1>4, <1>5, <1>6
  <2>2. QED
    BY <1>4, <1>6, <2>1, PowersAdd, PowersType, PowersMono
<1>8. working * POWERS[c] = m * POWERS[j + c]
  BY <1>3, <1>4, <1>7, MulAssoc
<1>9. m * POWERS[j + c] \in Nat /\ m * POWERS[j + c] <= Given
  <2>1. POWERS[j + c] * m <= POWERS[i] * m /\ POWERS[j + c] * m = m * POWERS[j + c]
        /\ POWERS[i] * m = m * POWERS[i] /\ m * POWERS[i] \in Nat /\ m * POWERS[j + c] \in Nat
    BY <1>4, <1>7, MulMono, MulAssoc
  <2>2. m * POWERS[i] <= Given
    <3>1. Given = m * POWERS[i] + (Given % POWERS[i]) /\ Given % POWERS[i] \in Nat
      BY <1>3, <1>4, <1>7, DivMod
    <3>2. QED
      BY <2>1, <3>1
  <2>3. QED
    BY <1>4, <2>1, <2>2
<1>10. working' = m * POWERS[j + c] /\ working' \in Mantissa
  <2> DEFINE t == m * POWERS[j + c]
  <2>1. t \in Nat /\ t <= Given /\ Given <= Max96 /\ Max96 = B3 - 1 /\ B3 \in Nat /\ working' = t % B3
    BY <1>1, <1>4, <1>8, <1>9, BaseType DEF Mantissa
  <2> HIDE DEF t
  <2>2. t \in Mantissa /\ t % B3 = t
    BY <1>4, <2>1 DEF Mantissa
  <2>3. QED
    BY <2>1, <2>2 DEF t
<1>11. value_scale' - to' - k' = j + c /\ value_scale' - to' = i /\ k' <= value_scale' - to' /\ k' \in Nat
  <2>1. value_scale' - to' = i
    BY <1>1 DEF i
  <2>2. QED
    BY <1>1, <1>4, <1>5, <1>6, <2>1
<1>12. RoundingTypeOK'
  BY <1>1, <1>2, <1>10, <1>11 DEF RoundingTypeOK
<1>13. RoundsTo' /\ Given' = Given
  BY <1>1, <1>3 DEF RoundsTo, Given
<1>14. m' = Given' \div POWERS[value_scale' - to'] /\ working' = m' * POWERS[value_scale' - to' - k']
  BY <1>1, <1>3, <1>10, <1>11, <1>13
<1>15. Restoring'
  BY <1>1, <1>3, <1>11, <1>13, <1>14 DEF Restoring
<1>16. QED
  BY <1>1, <1>2, <1>12, <1>15, SameCall, NotEnded DEF RoundInv


\* The part that is reconstructed is the tail, and `cap` one half of the place.
LEMMA RestoredPart ==
    ASSUME RoundCall, RoundingTypeOK, Restoring, k = 0
    PROVE  LET p == POWERS[value_scale - to]
           IN  /\ Given = m * p + Portion /\ p = 2 * Cap
               /\ Portion \in 0..(2 * Cap - 1) /\ Cap \in Nat \ {0}
<1>1. /\ RoundsTo /\ value_scale <= MAX_SCALE
      /\ to < value_scale /\ m = Given \div POWERS[value_scale - to] /\ working = m * POWERS[value_scale - to - k]
  BY DEF Restoring
<1>2. /\ to \in Nat /\ value_scale \in Nat /\ Given \in Nat /\ m \in Nat
      /\ value_scale - to \in 1..PowLimit /\ value_scale - to \in 0..PowLimit /\ PowLimit \in Nat
  BY <1>1, PlaceSurplus
<1> DEFINE i == value_scale - to
<1> DEFINE p == POWERS[i]
<1> DEFINE h == Ten \div 2
<1> DEFINE a == POWERS[i - 1]
<1>3. i - 1 \in 0..PowLimit /\ (i - 1) + 1 = i /\ i <= PowLimit
  BY <1>2
<1>4. p \in Nat \ {0} /\ h \in Nat /\ h >= 1 /\ Ten = 2 * h /\ a \in Nat /\ a >= 1 /\ p = a * Ten
  <2>1. \A n \in 0..PowLimit : n + 1 <= PowLimit => POWERS[n + 1] = POWERS[n] * Ten
    BY PowersNext
  <2>2. p = a * Ten
    BY <1>3, <2>1
  <2>3. h \in Nat /\ h >= 1 /\ Ten = 2 * h
    BY BaseAssumption
  <2>4. p \in Nat \ {0} /\ a \in Nat /\ a >= 1
    BY <1>2, <1>3, PowersType
  <2>5. QED
    BY <2>2, <2>3, <2>4
<1>5. working = m * p /\ m = Given \div p
  BY <1>1, <1>2
<1>6. Portion = Given - working /\ Cap = h * a
  BY DEF Portion, Cap, Given
<1> HIDE DEF p, h, a, i
<1>7. Given = m * p + (Given % p) /\ Given % p \in Nat /\ Given % p < p /\ m * p \in Nat
  <2>1. Given = m * p + (Given % p) /\ Given % p \in Nat /\ Given % p < p
    BY <1>2, <1>4, <1>5, DivMod
  <2>2. QED
    BY <1>2, <1>4, <2>1
<1>8. Portion = Given % p
  BY <1>2, <1>5, <1>6, <1>7
<1>9. p = 2 * (h * a) /\ h * a \in Nat /\ h * a >= 1
  <2>1. a * (2 * h) = (2 * h) * a /\ (2 * h) * a = 2 * (h * a) /\ h * a \in Int
    BY <1>4, MulAssoc
  <2>2. 1 * a <= h * a
    BY <1>4, MulMono
  <2>3. QED
    BY <1>4, <2>1, <2>2
<1>10. Given = m * p + Portion /\ p = 2 * Cap /\ Portion \in 0..(2 * Cap - 1) /\ Cap \in Nat \ {0}
  BY <1>4, <1>6, <1>7, <1>8, <1>9
<1>11. QED
  BY <1>10 DEF p, i

LEMMA RoundDpInv == RoundInv /\ RoundDp => RoundInv'
<1> SUFFICES ASSUME RoundInv, RoundDp PROVE RoundInv'
  OBVIOUS
<1> DEFINE g == Sign(call.d.neg)
<1> DEFINE p == POWERS[Surplus]
<1>1. /\ pc = "offset" /\ k = 0
      /\ m' = IF Away(call.by) THEN m + 1 ELSE m
      /\ neg' = (neg /\ m' # 0)
      /\ value_scale' = to /\ pc' = IF exp > 0 THEN "back" ELSE "done"
      /\ UNCHANGED <<call, to, k, working, digit, figures, exp>>
  BY DEF RoundDp, AfterRound
<1>2. RoundCall /\ RoundingTypeOK /\ Restoring
  BY <1>1 DEF RoundInv
<1>3. RoundsTo /\ Given # 0 /\ neg = call.d.neg /\ value_scale <= MAX_SCALE /\ to < value_scale
  BY <1>2 DEF Restoring
<1>4. /\ to \in Nat /\ value_scale \in Nat /\ exp \in Nat /\ m \in Nat /\ Given \in Nat /\ Given \in Mantissa
      /\ call.d.s \in Nat /\ call.n \in Nat /\ PowLimit \in Nat /\ call.op \in {"round_dp", "round_sf"}
      /\ Strategy = call.by
      /\ (call.op = "round_sf" => call.n > 0 /\ Surplus = FiguresOf(Given) - call.n /\ FiguresOf(Given) \in Nat)
      /\ value_scale = call.d.s + exp /\ (exp > 0 => to = 0 /\ call.op = "round_sf")
      /\ Surplus = value_scale - to /\ Surplus \in 1..PowLimit /\ Surplus \in 0..PowLimit
  BY <1>2, <1>3, PlaceSurplus
<1>5. Given = m * p + Portion /\ p = 2 * Cap /\ Portion \in 0..(2 * Cap - 1) /\ Cap \in Nat \ {0}
  BY <1>1, <1>2, <1>4, RestoredPart
<1>6. call.by \in Strategies /\ g \in {-1, 1} /\ call.d.neg \in BOOLEAN /\ p \in Nat \ {0} /\ p >= 2
  BY <1>2, <1>4, CallFacts, PowersType, EvenPower
<1>7. Away(call.by) <=> StepsAway(call.by, g, Portion, Cap, m)
  <2>1. (neg <=> g = -1) /\ (~neg <=> g = 1)
    BY <1>3, <1>6 DEF Sign
  <2> HIDE DEF g
  <2>2. CASE call.by = "MidpointNearestEven"
    BY <2>2 DEF Away, StepsAway
  <2>3. CASE call.by = "MidpointTowardZero"
    BY <2>3 DEF Away, StepsAway
  <2>4. CASE call.by = "MidpointAwayFromZero"
    BY <2>4 DEF Away, StepsAway
  <2>5. CASE call.by = "AwayFromZero"
    BY <2>5 DEF Away, StepsAway
  <2>6. CASE call.by = "ToPositiveInfinity"
    BY <2>1, <2>6 DEF Away, StepsAway
  <2>7. CASE call.by = "ToNegativeInfinity"
    BY <2>1, <2>7 DEF Away, StepsAway
  <2>8. CASE call.by = "ToZero"
    BY <2>8 DEF Away, StepsAway
  <2>9. QED
    BY <1>6, <2>2, <2>3, <2>4, <2>5, <2>6, <2>7, <2>8 DEF Strategies
<1>8. m' \in Nat /\ Follows(call.by, g * Given, g * m', p)
  <2> HIDE DEF p, g
  <2>1. /\ StepsAway(call.by, g, Portion, Cap, m) => Follows(call.by, g * Given, g * (m + 1), p)
        /\ ~StepsAway(call.by, g, Portion, Cap, m) => Follows(call.by, g * Given, g * m, p)
    BY <1>4, <1>5, <1>6, StepsFollow
  <2>2. QED
    BY <1>1, <1>4, <1>7, <2>1
<1>9. m' \in Mantissa
  <2> HIDE DEF p
  <2>1. m * p \in Nat /\ m * p <= Given
    <3>1. m * p \in Nat /\ Portion \in Nat
      BY <1>4, <1>5, <1>6
    <3>2. QED
      BY <1>5, <3>1
  <2>2. m \in Mantissa /\ m + 1 \in Mantissa
    BY <1>4, <1>6, <2>1, RoundedUpFits
  <2>3. QED
    BY <1>1, <2>2
<1>10. RoundingTypeOK'
  BY <1>1, <1>2, <1>3, <1>4, <1>6, <1>9 DEF RoundingTypeOK
<1>11. CASE exp = 0
  <2>1. /\ pc' = "done" /\ call' = call /\ Surplus > 0 /\ value_scale' <= call.d.s
        /\ call.d.s - value_scale' = Surplus /\ (m' = 0 \/ neg' = call.d.neg)
    <3>1. m' = 0 \/ neg' = call.d.neg
      BY <1>1, <1>3, <1>6, Zenon
    <3>2. QED
      BY <1>1, <1>3, <1>4, <1>11, <3>1
  <2>2. Follows(Strategy, Sign(call.d.neg) * Given, Sign(call.d.neg) * m', POWERS[Surplus])
    BY <1>4, <1>8
  <2>3. m' * POWERS[call.d.s - value_scale'] = m' * POWERS[Surplus]
    BY <2>1
  <2>4. QED
    BY <1>2, <1>8, <1>10, <2>1, <2>2, <2>3, EndsRounded
<1>12. CASE exp > 0
  <2>1. /\ to = 0 /\ call.op = "round_sf" /\ call.n > 0 /\ FiguresOf(Given) \in Nat
        /\ Surplus = FiguresOf(Given) - call.n /\ Surplus = call.d.s + exp
    BY <1>4, <1>12
  <2>2. pc' = "back" /\ value_scale' = 0
    BY <1>1, <1>12, <2>1
  <2>3. FiguresOf(Given) - call.n - call.d.s - exp = 0 /\ exp + call.d.s + call.n <= FiguresOf(Given)
    BY <1>4, <2>1
  <2>4. m' = m' * POWERS[FiguresOf(Given) - call.n - call.d.s - exp]
    BY <1>8, <2>3, PowersAssumption
  <2>5. neg' = (call.d.neg /\ m' # 0)
    BY <1>1, <1>3
  <2>6. Follows(call.by, Sign(call.d.neg) * Given, Sign(call.d.neg) * m', POWERS[FiguresOf(Given) - call.n])
    BY <1>8, <2>1
  <2>7. ScalingBack'
    BY <1>1, <1>3, <1>9, <1>12, <2>1, <2>2, <2>3, <2>4, <2>5, <2>6 DEF ScalingBack, Given
  <2>8. QED
    BY <1>1, <1>2, <1>10, <2>2, <2>7, SameCall, NotEnded DEF RoundInv
<1>13. QED
  BY <1>4, <1>11, <1>12


-----------------------------------------------------------------------------
(***************************************************************************)
(* round_sf: counting the figures, and what follows.                       *)
(***************************************************************************)
LEMMA SfZeroInv == RoundInv /\ SfZero => RoundInv'
<1> SUFFICES ASSUME RoundInv, SfZero PROVE RoundInv'
  OBVIOUS
<1>1. /\ pc = "round_sf" /\ (m = 0 \/ call.n = 0)
      /\ m' = 0 /\ neg' = FALSE /\ value_scale' = 0 /\ pc' = "done"
      /\ UNCHANGED <<call, to, k, working, digit, figures, exp>>
  BY DEF SfZero
<1>2. RoundCall /\ RoundingTypeOK /\ call.op = "round_sf" /\ m = Given
  BY <1>1 DEF RoundInv, Figuring, SameNumber
<1>3. Given \in Mantissa /\ Given \in Nat /\ call.n \in Nat /\ call.d.s \in Nat /\ call.d.s \in 0..PowLimit
  BY <1>2, CallFacts
<1>4. FiguresOf(Given) \in Nat /\ (Given # 0 => FiguresOf(Given) > 0)
  BY <1>3, FiguresExist
<1>5. Surplus = IF Given # 0 /\ FiguresOf(Given) > call.n THEN FiguresOf(Given) - call.n ELSE 0
  BY <1>2, SurplusOf
<1>6. RoundingTypeOK'
  <2>1. m' \in Mantissa
    BY <1>1, BaseType DEF Mantissa
  <2>2. QED
    BY <1>1, <1>2, <2>1 DEF RoundingTypeOK
<1>7. CASE Given = 0
  <2>1. Surplus = 0
    BY <1>5, <1>7
  <2>2. POWERS[0] = 1 /\ POWERS[call.d.s] \in Nat
    BY <1>3, PowersType, PowersAssumption
  <2>3. IF value_scale' >= call.d.s
        THEN m' = Given * POWERS[IF m' = 0 THEN 0 ELSE value_scale' - call.d.s]
        ELSE m' * POWERS[call.d.s - value_scale'] = Given
    <3>1. value_scale' >= call.d.s => m' = Given * POWERS[IF m' = 0 THEN 0 ELSE value_scale' - call.d.s]
      BY <1>1, <1>7, <2>2
    <3>2. call.d.s - value_scale' = call.d.s
      BY <1>1, <1>3
    <3>3. m' * POWERS[call.d.s - value_scale'] = Given
      BY <1>1, <1>7, <2>2, <3>2
    <3>4. QED
      BY <3>1, <3>3
  <2>4. QED
    BY <1>1, <1>2, <1>6, <2>1, <2>3, EndsKept
<1>8. CASE Given # 0
  <2>1. call.n = 0 /\ Surplus > 0
    BY <1>1, <1>2, <1>4, <1>5, <1>8
  <2>2. RoundsAsAsked'
    BY <1>1, <1>2, <2>1 DEF RoundsAsAsked
  <2>3. ValueKept'
    <3>1. Surplus' # 0
      BY <1>1, <1>3, <1>4, <1>5, <2>1, SameCall
    <3>2. QED
      BY <3>1 DEF ValueKept
  <2>4. SfOverflows'
    BY <1>1 DEF SfOverflows
  <2>5. QED
    BY <1>1, <1>2, <1>6, <2>2, <2>3, <2>4, SameCall DEF RoundInv
<1>9. QED
  BY <1>7, <1>8

LEMMA SfStartInv == RoundInv /\ SfStart => RoundInv'
<1> SUFFICES ASSUME RoundInv, SfStart PROVE RoundInv'
  OBVIOUS
<1>1. /\ pc = "round_sf" /\ m # 0 /\ call.n # 0
      /\ working' = m /\ pc' = "count"
      /\ UNCHANGED <<call, m, neg, value_scale, to, k, digit, figures, exp>>
  BY DEF SfStart
<1>2. RoundCall /\ RoundingTypeOK /\ Figuring
  BY <1>1 DEF RoundInv
<1>3. call.op = "round_sf" /\ SameNumber /\ m = Given /\ figures = 0 /\ digit = 0 /\ exp = 0
  BY <1>2 DEF Figuring, SameNumber
<1>4. Given \in Nat /\ call.n \in Nat /\ MAX_SCALE \in Nat
  BY <1>2, CallFacts
<1>5. SameNumber' /\ Given' = Given
  BY <1>1, <1>3 DEF SameNumber, Given
<1>6. RoundingTypeOK'
  BY <1>1, <1>2 DEF RoundingTypeOK
<1>7. /\ figures' <= MAX_SCALE /\ POWERS[figures'] * working' <= Given
      /\ Given < POWERS[figures'] * (working' + 1)
  BY <1>1, <1>3, <1>4, PowersAssumption
<1>8. call'.op = "round_sf" /\ call'.n > 0 /\ exp' = 0 /\ digit' = 0 /\ Given # 0 /\ working' # 0
  BY <1>1, <1>3, <1>4
<1>9. Counting'
  BY <1>5, <1>7, <1>8 DEF Counting
<1>10. QED
  BY <1>1, <1>2, <1>6, <1>9, SameCall, NotEnded DEF RoundInv

\* One figure more: what is left still has the figures to come.
LEMMA CountOne ==
    ASSUME NEW v \in Mantissa, NEW w \in Nat, NEW f \in 0..MAX_SCALE,
           POWERS[f] * w <= v, v < POWERS[f] * (w + 1)
    PROVE  LET left == w \div Ten
           IN  /\ f + 1 \in 0..PowLimit /\ left \in Nat
               /\ POWERS[f + 1] * left <= v /\ v < POWERS[f + 1] * (left + 1)
               /\ left > 0 => f + 1 <= MAX_SCALE
<1> DEFINE left == w \div Ten
<1> DEFINE r == w % Ten
<1> DEFINE a == POWERS[f]
<1> DEFINE b == POWERS[f + 1]
<1>1. f \in 0..PowLimit /\ f + 1 <= PowLimit /\ f + 1 \in 0..PowLimit /\ MAX_SCALE \in Nat
      /\ MAX_SCALE + 1 \in 0..PowLimit /\ Ten \in Nat \ {0} /\ v \in Nat /\ v < B3 /\ B3 \in Nat
  BY ScaleAssumption, FiguresAssumption, BaseAssumption, BaseType DEF Mantissa
<1>2. a \in Nat /\ b \in Nat /\ b = a * Ten
  BY <1>1, PowersNext, PowersType
<1>3. left \in Nat /\ r \in Nat /\ r < Ten /\ w = left * Ten + r
  BY <1>1, DivMod
<1>4. b <= v => f + 1 <= MAX_SCALE
  <2>1. SUFFICES ASSUME b <= v, MAX_SCALE + 1 <= f + 1 PROVE FALSE
    BY <1>1
  <2>2. POWERS[MAX_SCALE + 1] <= b
    BY <1>1, <2>1, PowersMono
  <2>3. B3 <= POWERS[MAX_SCALE + 1] /\ POWERS[MAX_SCALE + 1] \in Nat
    BY <1>1, FiguresAssumption, PowersType
  <2>4. QED
    BY <1>1, <1>2, <2>1, <2>2, <2>3
<1>5. a * w <= v /\ v < a * (w + 1)
  OBVIOUS
<1> HIDE DEF left, r, a, b
<1>6. b * left <= v
  <2>1. b * left = a * (Ten * left) /\ Ten * left = left * Ten
    BY <1>1, <1>2, <1>3, MulAssoc
  <2>2. left * Ten \in Int /\ left * Ten <= w
    BY <1>1, <1>3
  <2>3. (left * Ten) * a <= w * a /\ (left * Ten) * a = a * (left * Ten) /\ w * a = a * w
        /\ a * (left * Ten) \in Int /\ a * w \in Int
    BY <1>2, <2>2, MulMono, MulAssoc
  <2>4. QED
    BY <1>1, <1>5, <2>1, <2>3
<1>7. v < b * (left + 1)
  <2>1. b * (left + 1) = a * (Ten * (left + 1)) /\ Ten * (left + 1) = (left + 1) * Ten
    BY <1>1, <1>2, <1>3, MulAssoc
  <2>2. (left + 1) * Ten \in Int /\ w + 1 <= (left + 1) * Ten
    BY <1>1, <1>3
  <2>3. (w + 1) * a <= ((left + 1) * Ten) * a /\ ((left + 1) * Ten) * a = a * ((left + 1) * Ten)
        /\ (w + 1) * a = a * (w + 1) /\ a * ((left + 1) * Ten) \in Int /\ a * (w + 1) \in Int
    BY <1>2, <2>2, MulMono, MulAssoc
  <2>4. QED
    BY <1>1, <1>5, <2>1, <2>3
<1>8. left > 0 => b <= v
  <2>1. left > 0 => 1 * b <= left * b
    BY <1>2, <1>3, MulMono
  <2>2. left * b = b * left /\ b * left \in Int
    BY <1>2, <1>3, MulAssoc
  <2>3. QED
    BY <1>1, <1>2, <1>6, <2>1, <2>2
<1>9. f + 1 \in 0..PowLimit /\ left \in Nat /\ b * left <= v /\ v < b * (left + 1) /\ (left > 0 => f + 1 <= MAX_SCALE)
  BY <1>1, <1>3, <1>4, <1>6, <1>7, <1>8
<1>10. QED
  BY <1>9 DEF b, left

LEMMA CountDigitInv == RoundInv /\ CountDigit => RoundInv'
<1> SUFFICES ASSUME RoundInv, CountDigit PROVE RoundInv'
  OBVIOUS
<1> DEFINE left == working \div Ten
<1>1. /\ pc = "count" /\ working # 0 /\ pc' = "count"
      /\ IF left = 1
         THEN figures' = figures + 2 /\ working' = 0
         ELSE figures' = figures + 1 /\ working' = left
      /\ UNCHANGED <<call, m, neg, value_scale, to, k, digit, exp>>
  BY DEF CountDigit
<1>2. RoundCall /\ RoundingTypeOK /\ Counting
  BY <1>1 DEF RoundInv
<1>3. /\ call.op = "round_sf" /\ SameNumber /\ exp = 0 /\ digit = 0 /\ Given # 0 /\ call.n > 0
      /\ figures <= MAX_SCALE /\ POWERS[figures] * working <= Given /\ Given < POWERS[figures] * (working + 1)
  BY <1>1, <1>2 DEF Counting
<1>4. /\ Given \in Mantissa /\ Given \in Nat /\ MAX_SCALE \in Nat /\ working \in Mantissa /\ working \in Nat
      /\ figures \in 0..MAX_SCALE /\ working >= 1 /\ Max96 \in Nat
      /\ PowLimit \in Nat /\ MAX_SCALE + 1 \in 0..PowLimit
  BY <1>1, <1>2, <1>3, CallFacts, BaseType DEF RoundingTypeOK, Mantissa
<1>5. /\ figures + 1 \in 0..PowLimit /\ left \in Nat
      /\ POWERS[figures + 1] * left <= Given /\ Given < POWERS[figures + 1] * (left + 1)
      /\ left > 0 => figures + 1 <= MAX_SCALE
  BY <1>3, <1>4, CountOne
<1>6. left <= working
  BY <1>4, BaseAssumption
<1> HIDE DEF left
<1>7. POWERS[figures] \in Nat /\ POWERS[figures + 1] \in Nat /\ figures \in 0..PowLimit
  <2>1. figures \in 0..PowLimit
    BY <1>4
  <2>2. QED
    BY <1>5, <2>1, PowersType
<1>8. SameNumber' /\ Given' = Given
  BY <1>1, <1>3 DEF SameNumber, Given
<1>9. call'.op = "round_sf" /\ call'.n > 0 /\ exp' = 0 /\ digit' = 0
  BY <1>1, <1>3
<1>10. CASE left = 0
  <2>1. Given < POWERS[figures + 1]
    BY <1>5, <1>7, <1>10
  <2>2. POWERS[figures] <= Given
    <3>1. 1 * POWERS[figures] <= working * POWERS[figures]
      BY <1>4, <1>7, MulMono
    <3>2. working * POWERS[figures] = POWERS[figures] * working /\ POWERS[figures] * working \in Int
      BY <1>4, <1>7, MulAssoc
    <3>3. QED
      BY <1>3, <1>4, <1>7, <3>1, <3>2
  <2>3. FiguresOf(Given) = figures + 1
    <3>1. figures + 1 \in 1..PowLimit /\ (figures + 1) - 1 = figures
      BY <1>4, <1>5
    <3>2. POWERS[(figures + 1) - 1] <= Given
      BY <2>2, <3>1
    <3>3. QED
      BY <1>4, <2>1, <3>1, <3>2, FiguresUnique
  <2>4. working' = 0 /\ figures' = FiguresOf(Given') /\ figures' \in 0..(MAX_SCALE + 1)
    BY <1>1, <1>4, <1>8, <1>10, <2>3
  <2>5. Counting'
    BY <1>3, <1>8, <1>9, <2>4 DEF Counting
  <2>6. RoundingTypeOK'
    <3>1. working' \in Mantissa
      BY <2>4, BaseType DEF Mantissa
    <3>2. QED
      BY <1>1, <1>2, <2>4, <3>1 DEF RoundingTypeOK
  <2>7. QED
    BY <1>1, <1>2, <2>5, <2>6, SameCall, NotEnded DEF RoundInv
<1>11. CASE left = 1
  <2>1. figures + 1 <= MAX_SCALE /\ POWERS[figures + 1] <= Given /\ Given < 2 * POWERS[figures + 1]
    BY <1>4, <1>5, <1>7, <1>11
  <2>2. figures + 2 \in 1..PowLimit /\ (figures + 2) - 1 = figures + 1 /\ (figures + 1) + 1 = figures + 2
        /\ figures + 2 <= PowLimit
    BY <1>4, <2>1
  <2>3. 2 * POWERS[figures + 1] <= POWERS[figures + 2] /\ POWERS[figures + 2] \in Nat
    <3>1. \A i \in 0..PowLimit : i + 1 <= PowLimit => 2 * POWERS[i] <= POWERS[i + 1]
      BY PowersNext
    <3>2. figures + 2 \in 0..PowLimit
      BY <2>2
    <3>3. QED
      BY <1>5, <2>2, <3>1, <3>2, PowersType
  <2>4. FiguresOf(Given) = figures + 2
    <3>1. Given < POWERS[figures + 2] /\ POWERS[(figures + 2) - 1] <= Given
      BY <1>4, <1>7, <2>1, <2>2, <2>3
    <3>2. QED
      BY <1>4, <2>2, <3>1, FiguresUnique
  <2>5. working' = 0 /\ figures' = FiguresOf(Given') /\ figures' \in 0..(MAX_SCALE + 1)
    BY <1>1, <1>4, <1>8, <1>11, <2>1, <2>4
  <2>6. Counting'
    BY <1>3, <1>8, <1>9, <2>5 DEF Counting
  <2>7. RoundingTypeOK'
    <3>1. working' \in Mantissa
      BY <2>5, BaseType DEF Mantissa
    <3>2. QED
      BY <1>1, <1>2, <2>5, <3>1 DEF RoundingTypeOK
  <2>8. QED
    BY <1>1, <1>2, <2>6, <2>7, SameCall, NotEnded DEF RoundInv
<1>12. CASE left > 1
  <2>1. working' = left /\ figures' = figures + 1 /\ working' # 0 /\ figures' <= MAX_SCALE
    BY <1>1, <1>5, <1>12
  <2>2. POWERS[figures'] * working' <= Given /\ Given < POWERS[figures'] * (working' + 1)
    BY <1>5, <2>1
  <2>3. Counting'
    BY <1>3, <1>8, <1>9, <2>1, <2>2 DEF Counting
  <2>4. RoundingTypeOK'
    <3>1. working' \in Mantissa
      BY <1>4, <1>5, <1>6, <2>1 DEF Mantissa
    <3>2. figures' \in 0..(MAX_SCALE + 1)
      BY <1>4, <2>1
    <3>3. QED
      BY <1>1, <1>2, <3>1, <3>2 DEF RoundingTypeOK
  <2>5. QED
    BY <1>1, <1>2, <2>3, <2>4, SameCall, NotEnded DEF RoundInv
<1>13. QED
  BY <1>5, <1>10, <1>11, <1>12


\* Once the figures are counted.
LEMMA CountedFacts ==
    ASSUME RoundCall, RoundingTypeOK, Counting, working = 0
    PROVE  /\ call.op = "round_sf" /\ SameNumber /\ m = Given /\ neg = call.d.neg /\ value_scale = call.d.s
           /\ exp = 0 /\ digit = 0 /\ Given # 0 /\ call.n > 0 /\ call.n \in Nat
           /\ figures = FiguresOf(Given) /\ figures \in Nat /\ figures <= MAX_SCALE + 1
           /\ Given \in Nat /\ MAX_SCALE \in Nat /\ value_scale \in Nat /\ value_scale <= MAX_SCALE
           /\ Surplus = IF figures > call.n THEN figures - call.n ELSE 0
<1>1. /\ call.op = "round_sf" /\ SameNumber /\ m = Given /\ neg = call.d.neg /\ value_scale = call.d.s
      /\ exp = 0 /\ digit = 0 /\ Given # 0 /\ call.n > 0 /\ figures = FiguresOf(Given)
  BY DEF Counting, SameNumber
<1>2. Given \in Mantissa /\ Given \in Nat /\ MAX_SCALE \in Nat /\ call.n \in Nat
      /\ call.d.s \in Nat /\ call.d.s <= MAX_SCALE
  BY CallFacts
<1>3. figures \in Nat /\ figures <= MAX_SCALE + 1
  BY <1>1, <1>2, FiguresExist
<1>4. Surplus = IF figures > call.n THEN figures - call.n ELSE 0
  BY <1>1, SurplusOf
<1>5. QED
  BY <1>1, <1>2, <1>3, <1>4

LEMMA SfMoreInv == RoundInv /\ SfMore => RoundInv'
<1> SUFFICES ASSUME RoundInv, SfMore PROVE RoundInv'
  OBVIOUS
<1>1. /\ pc = "count" /\ working = 0 /\ call.n > figures
      /\ to' = value_scale + call.n - figures /\ pc' = "rescale"
      /\ UNCHANGED <<call, m, neg, value_scale, k, working, digit, figures, exp>>
  BY DEF SfMore
<1>2. RoundCall /\ RoundingTypeOK /\ Counting
  BY <1>1 DEF RoundInv
<1>3. /\ call.op = "round_sf" /\ SameNumber /\ value_scale = call.d.s /\ exp = 0 /\ digit = 0 /\ Given # 0
      /\ call.n \in Nat /\ figures = FiguresOf(Given) /\ figures \in Nat /\ value_scale \in Nat
  BY <1>1, <1>2, CountedFacts
<1>4. RoundingTypeOK'
  <2>1. to' \in Nat
    BY <1>1, <1>3
  <2>2. QED
    BY <1>1, <1>2, <2>1 DEF RoundingTypeOK
<1>5. SameNumber' /\ Given' = Given
  BY <1>1, <1>3 DEF SameNumber, Given
<1>6. Aimed'
  <2>1. /\ call'.op = "round_sf" /\ Given' # 0 /\ call'.n > FiguresOf(Given')
        /\ to' = call'.d.s + call'.n - FiguresOf(Given')
    BY <1>1, <1>3, <1>5
  <2>2. QED
    BY <2>1 DEF Aimed
<1>7. Rescaling'
  BY <1>1, <1>3, <1>5, <1>6 DEF Rescaling
<1>8. QED
  BY <1>1, <1>2, <1>4, <1>7, SameCall, NotEnded DEF RoundInv

LEMMA SfSameInv == RoundInv /\ SfSame => RoundInv'
<1> SUFFICES ASSUME RoundInv, SfSame PROVE RoundInv'
  OBVIOUS
<1>1. /\ pc = "count" /\ working = 0 /\ call.n = figures /\ pc' = "done"
      /\ UNCHANGED <<call, m, neg, value_scale, to, k, working, digit, figures, exp>>
  BY DEF SfSame
<1>2. RoundCall /\ RoundingTypeOK /\ Counting
  BY <1>1 DEF RoundInv
<1>3. /\ call.op = "round_sf" /\ m = Given /\ neg = call.d.neg /\ value_scale = call.d.s
      /\ figures = FiguresOf(Given) /\ figures \in Nat /\ value_scale \in Nat /\ Given \in Nat /\ Surplus = 0
  BY <1>1, <1>2, CountedFacts
<1>4. RoundingTypeOK'
  BY <1>1, <1>2 DEF RoundingTypeOK
<1>5. value_scale' >= call.d.s /\ value_scale' - call.d.s = 0 /\ POWERS[0] = 1
  BY <1>1, <1>3, PowersAssumption
<1>6. m' = Given * POWERS[IF m' = 0 THEN 0 ELSE value_scale' - call.d.s]
  BY <1>1, <1>3, <1>5
<1>7. ~Rescales
  <2>1. ~(FiguresOf(Given) < call.n)
    BY <1>1, <1>3
  <2>2. QED
    BY <1>3, <2>1 DEF Rescales, Given
<1>8. QED
  BY <1>1, <1>2, <1>3, <1>4, <1>5, <1>6, <1>7, EndsKept

LEMMA SfFractionInv == RoundInv /\ SfFraction => RoundInv'
<1> SUFFICES ASSUME RoundInv, SfFraction PROVE RoundInv'
  OBVIOUS
<1>1. /\ pc = "count" /\ working = 0 /\ call.n < figures /\ figures - call.n <= value_scale
      /\ to' = value_scale - (figures - call.n) /\ pc' = "round_dp"
      /\ UNCHANGED <<call, m, neg, value_scale, k, working, digit, figures, exp>>
  BY DEF SfFraction
<1>2. RoundCall /\ RoundingTypeOK /\ Counting
  BY <1>1 DEF RoundInv
<1>3. /\ call.op = "round_sf" /\ m = Given /\ neg = call.d.neg /\ value_scale = call.d.s
      /\ exp = 0 /\ Given # 0 /\ call.n > 0 /\ call.n \in Nat
      /\ figures = FiguresOf(Given) /\ figures \in Nat /\ value_scale \in Nat /\ value_scale <= MAX_SCALE
  BY <1>1, <1>2, CountedFacts
<1>4. to' \in Nat /\ value_scale' - to' = figures - call.n /\ value_scale' = call'.d.s + exp' /\ exp' = 0
  BY <1>1, <1>3
<1>5. RoundingTypeOK'
  BY <1>1, <1>2, <1>4 DEF RoundingTypeOK
<1>6. Given' = Given
  BY <1>1 DEF Given
<1>7. RoundsTo'
  <2>1. /\ call'.op = "round_sf" /\ Given' # 0 /\ call'.n > 0 /\ call'.n < FiguresOf(Given')
        /\ value_scale' - to' = FiguresOf(Given') - call'.n /\ (exp' > 0 => to' = 0)
    BY <1>1, <1>3, <1>4, <1>6
  <2>2. QED
    BY <1>4, <2>1 DEF RoundsTo
<1>8. Placing'
  BY <1>1, <1>3, <1>6, <1>7 DEF Placing
<1>9. QED
  BY <1>1, <1>2, <1>5, <1>8, SameCall, NotEnded DEF RoundInv

\* The scale of the quotient does not exceed the maximal one.
LEMMA SfIntegralInv == RoundInv /\ SfIntegral => RoundInv'
<1> SUFFICES ASSUME RoundInv, SfIntegral PROVE RoundInv'
  OBVIOUS
<1>1. /\ pc = "count" /\ working = 0 /\ figures - call.n > value_scale
      /\ exp' = figures - call.n - value_scale /\ value_scale' = figures - call.n
      /\ to' = 0 /\ pc' = "round_dp"
      /\ UNCHANGED <<call, m, neg, k, working, digit, figures>>
  BY DEF SfIntegral
<1>2. RoundCall /\ RoundingTypeOK /\ Counting
  BY <1>1 DEF RoundInv
<1>3. /\ call.op = "round_sf" /\ m = Given /\ neg = call.d.neg /\ value_scale = call.d.s
      /\ Given # 0 /\ call.n > 0 /\ call.n \in Nat /\ MAX_SCALE \in Nat
      /\ figures = FiguresOf(Given) /\ figures \in Nat /\ figures <= MAX_SCALE + 1 /\ value_scale \in Nat
  BY <1>1, <1>2, CountedFacts
<1>4. /\ value_scale' \in Nat /\ value_scale' <= MAX_SCALE /\ exp' \in 0..MAX_SCALE /\ to' \in Nat
      /\ value_scale' = call.d.s + exp' /\ value_scale' - to' = figures - call.n /\ call.n < figures
  BY <1>1, <1>3
<1>5. RoundingTypeOK'
  BY <1>1, <1>2, <1>4 DEF RoundingTypeOK
<1>6. Given' = Given
  BY <1>1 DEF Given
<1>7. RoundsTo'
  <2>1. /\ call'.op = "round_sf" /\ Given' # 0 /\ call'.n > 0 /\ call'.n < FiguresOf(Given')
        /\ value_scale' = call'.d.s + exp'
        /\ value_scale' - to' = FiguresOf(Given') - call'.n /\ (exp' > 0 => to' = 0)
    BY <1>1, <1>3, <1>4, <1>6
  <2>2. QED
    BY <2>1 DEF RoundsTo
<1>8. Placing'
  BY <1>1, <1>3, <1>4, <1>6, <1>7 DEF Placing
<1>9. QED
  BY <1>1, <1>2, <1>5, <1>8, SameCall, NotEnded DEF RoundInv


\* A power that overflows leaves no answer: the number rounded is the only one
\* that follows the strategy.
LEMMA ScaleBackInv == RoundInv /\ ScaleBack => RoundInv'
<1> SUFFICES ASSUME RoundInv, ScaleBack PROVE RoundInv'
  OBVIOUS
<1> DEFINE some == SmallerOf(exp, MAX_I64_SCALE)
<1> DEFINE p == m * POWERS[some]
<1> DEFINE u == FiguresOf(Given) - call.n
<1> DEFINE g == Sign(call.d.neg)
<1>1. /\ pc = "back"
      /\ IF p > Max96
         THEN pc' = "none" /\ UNCHANGED <<m, exp>>
         ELSE m' = p /\ exp' = exp - some /\ pc' = IF exp = some THEN "done" ELSE "back"
      /\ UNCHANGED <<call, neg, value_scale, to, k, working, digit, figures>>
  BY DEF ScaleBack
<1>2. RoundCall /\ RoundingTypeOK /\ ScalingBack
  BY <1>1 DEF RoundInv
<1>3. /\ call.op = "round_sf" /\ Given # 0 /\ call.n > 0
      /\ exp > 0 /\ value_scale = 0 /\ exp + call.d.s + call.n <= FiguresOf(Given)
  BY <1>2 DEF ScalingBack
<1>4. PICK r \in Mantissa :
          /\ m = r * POWERS[u - call.d.s - exp] /\ neg = (call.d.neg /\ r # 0)
          /\ Follows(call.by, g * Given, g * r, POWERS[u])
  <2>1. u - call.d.s - exp = FiguresOf(Given) - call.n - call.d.s - exp
    OBVIOUS
  <2>2. QED
    BY <1>2 DEF ScalingBack
<1>5. /\ Given \in Mantissa /\ Given \in Nat /\ call.n \in Nat /\ call.d.s \in Nat /\ call.d.neg \in BOOLEAN
      /\ g \in {-1, 1} /\ MAX_SCALE \in Nat /\ PowLimit \in Nat /\ MAX_SCALE + 1 \in 0..PowLimit
      /\ call.by \in Strategies
  BY <1>2, CallFacts
<1>6. FiguresOf(Given) \in Nat /\ FiguresOf(Given) <= MAX_SCALE + 1
  BY <1>5, FiguresExist
<1>7. exp \in Nat /\ m \in Nat /\ m \in Mantissa /\ r \in Nat /\ exp <= MAX_SCALE
  BY <1>2, <1>5, BaseType DEF RoundingTypeOK, Mantissa
<1>8. some \in Nat /\ some <= exp /\ some > 0
  BY <1>3, <1>7, ScaleAssumption DEF SmallerOf
<1>9. Surplus = u /\ Strategy = call.by /\ u \in Nat /\ u > 0 /\ u \in 0..PowLimit
  <2>1. Surplus = IF Given # 0 /\ FiguresOf(Given) > call.n THEN FiguresOf(Given) - call.n ELSE 0
    BY <1>2, <1>3, SurplusOf
  <2>2. Strategy = call.by
    BY <1>2, <1>3, StrategyOf
  <2>3. QED
    BY <1>3, <1>5, <1>6, <1>7, <2>1, <2>2
<1>10. exp + call.d.s <= u
  BY <1>3, <1>5, <1>6, <1>7
<1> HIDE DEF some, p, u, g
<1> DEFINE i == u - call.d.s - exp
<1>11. /\ i \in 0..PowLimit /\ some \in 0..PowLimit /\ i + some \in 0..PowLimit /\ i + some <= PowLimit
       /\ u - call.d.s \in 0..PowLimit /\ i + some <= u - call.d.s /\ call.d.s \in 0..PowLimit
       /\ (u - call.d.s) + call.d.s = u /\ i + some = u - call.d.s - (exp - some)
  BY <1>5, <1>7, <1>8, <1>9, <1>10
<1>12. POWERS[i] \in Nat /\ POWERS[some] \in Nat /\ POWERS[i + some] \in Nat /\ POWERS[u - call.d.s] \in Nat
       /\ POWERS[u - call.d.s] >= 1 /\ POWERS[call.d.s] \in Nat /\ POWERS[u] \in Nat \ {0}
  BY <1>9, <1>11, PowersType
<1>13. p = r * POWERS[i + some]
  <2>1. POWERS[i + some] = POWERS[i] * POWERS[some]
    BY <1>11, PowersAdd
  <2>2. m = r * POWERS[i]
    BY <1>4
  <2>3. QED
    BY <1>7, <1>12, <2>1, <2>2, MulAssoc DEF p
<1> HIDE DEF i
<1>14. p \in Nat
  BY <1>7, <1>12, <1>13
<1>15. CASE p > Max96
  <2>1. pc' = "none" /\ m' = m /\ exp' = exp /\ call' = call
    BY <1>1, <1>15
  <2>2. RoundingTypeOK'
    BY <1>1, <1>2, <2>1 DEF RoundingTypeOK
  <2>3. ASSUME NEW t \in 0..(Max96 \div POWERS[u - call.d.s]), Follows(call.by, g * Given, g * t, POWERS[u])
        PROVE  FALSE
    <3>1. Max96 \in Nat /\ Max96 \div POWERS[u - call.d.s] \in Nat /\ t \in Nat
      BY <1>12, BaseType
    <3>2. t = r
      BY <1>4, <1>5, <1>7, <1>12, <2>3, <3>1, FollowsOnce
    <3>3. t * POWERS[u - call.d.s] <= Max96
      <4> DEFINE d == POWERS[u - call.d.s]
      <4> DEFINE q == Max96 \div d
      <4>1. d \in Nat \ {0} /\ t <= q
        BY <1>12, <3>1
      <4>2. q \in Nat /\ Max96 = q * d + (Max96 % d) /\ Max96 % d \in Nat
        BY <3>1, <4>1, DivMod
      <4> HIDE DEF d, q
      <4>3. t * d <= q * d /\ q * d \in Nat /\ t * d \in Nat
        BY <3>1, <4>1, <4>2, MulMono
      <4>4. t * d <= Max96
        BY <3>1, <4>2, <4>3
      <4>5. QED
        BY <4>4 DEF d
    <3>4. POWERS[i + some] <= POWERS[u - call.d.s]
      BY <1>11, PowersMono
    <3>5. POWERS[i + some] * r <= POWERS[u - call.d.s] * r
          /\ POWERS[i + some] * r = r * POWERS[i + some]
          /\ POWERS[u - call.d.s] * r = r * POWERS[u - call.d.s]
          /\ r * POWERS[i + some] \in Int /\ r * POWERS[u - call.d.s] \in Int
      BY <1>7, <1>12, <3>4, MulMono, MulAssoc
    <3>6. QED
      BY <1>13, <1>14, <1>15, <3>1, <3>2, <3>3, <3>5
  <2>4. \A t \in 0..(Max96 \div POWERS[u - call.d.s]) : ~Follows(call.by, g * Given, g * t, POWERS[u])
    BY <2>3
  <2>5. SfOverflows'
    <3>1. Surplus' = u /\ Strategy' = call.by /\ call'.d = call.d
      BY <1>9, <2>1, SameCall
    <3>2. \A t \in 0..(Max96 \div POWERS[Surplus' - call'.d.s]) :
              ~Follows(Strategy', Sign(call'.d.neg) * call'.d.m, Sign(call'.d.neg) * t, POWERS[Surplus'])
      BY <2>4, <3>1 DEF g, Given
    <3>3. QED
      BY <3>2 DEF SfOverflows
  <2>6. RoundsAsAsked' /\ ValueKept'
    BY <2>1 DEF RoundsAsAsked, ValueKept
  <2>7. QED
    BY <1>2, <2>1, <2>2, <2>5, <2>6, SameCall DEF RoundInv
<1>16. CASE ~(p > Max96)
  <2>1. m' = p /\ exp' = exp - some /\ pc' = (IF exp = some THEN "done" ELSE "back") /\ call' = call
        /\ neg' = neg /\ value_scale' = 0
    BY <1>1, <1>3, <1>16
  <2>2. m' \in Mantissa /\ exp' \in 0..MAX_SCALE
    <3>1. p <= Max96 /\ Max96 \in Nat
      BY <1>14, <1>16, BaseType
    <3>2. QED
      BY <1>5, <1>7, <1>8, <1>14, <2>1, <3>1 DEF Mantissa
  <2>3. RoundingTypeOK'
    BY <1>1, <1>2, <2>1, <2>2 DEF RoundingTypeOK
  <2>4. CASE exp = some
    <3>1. pc' = "done" /\ i + some = u - call.d.s /\ call.d.s - value_scale' = call.d.s /\ value_scale' <= call.d.s
      BY <1>5, <1>7, <1>11, <2>1, <2>4
    <3>2. m' * POWERS[call.d.s - value_scale'] = r * POWERS[Surplus]
      <4>1. POWERS[u] = POWERS[u - call.d.s] * POWERS[call.d.s]
        <5>1. \A a \in 0..PowLimit : \A b \in 0..PowLimit :
                  a + b <= PowLimit => POWERS[a + b] = POWERS[a] * POWERS[b]
          BY PowersAdd
        <5>2. (u - call.d.s) + call.d.s <= PowLimit
          BY <1>5, <1>9, <1>11
        <5>3. POWERS[(u - call.d.s) + call.d.s] = POWERS[u - call.d.s] * POWERS[call.d.s]
          BY <1>11, <5>1, <5>2
        <5>4. QED
          BY <1>11, <5>3
      <4>2. m' = r * POWERS[u - call.d.s]
        BY <1>13, <2>1, <3>1
      <4>3. QED
        BY <1>7, <1>9, <1>12, <3>1, <4>1, <4>2, MulAssoc
    <3>3. r = 0 \/ neg' = call.d.neg
      BY <1>4, <1>5, <2>1, Zenon
    <3>4. Follows(Strategy, Sign(call.d.neg) * Given, Sign(call.d.neg) * r, POWERS[Surplus]) /\ Surplus > 0
      BY <1>4, <1>9 DEF g
    <3>5. QED
      BY <1>2, <1>7, <2>1, <2>3, <3>1, <3>2, <3>3, <3>4, EndsRounded
  <2>5. CASE exp # some
    <3>1. pc' = "back" /\ exp' > 0 /\ exp' + call.d.s + call.n <= FiguresOf(Given)
      BY <1>3, <1>5, <1>6, <1>7, <1>8, <2>1, <2>5
    <3>2. m' = r * POWERS[FiguresOf(Given) - call.n - call.d.s - exp']
      BY <1>11, <1>13, <2>1 DEF u
    <3>3. Given' = Given
      BY <2>1, SameCall
    <3>4. /\ neg' = (call.d.neg /\ r # 0)
          /\ Follows(call.by, Sign(call.d.neg) * Given, Sign(call.d.neg) * r, POWERS[FiguresOf(Given) - call.n])
      BY <1>4, <2>1 DEF g, u
    <3>5. ScalingBack'
      BY <1>3, <1>4, <2>1, <3>1, <3>2, <3>3, <3>4 DEF ScalingBack
    <3>6. QED
      BY <1>2, <2>1, <2>3, <3>1, <3>5, SameCall, NotEnded DEF RoundInv
  <2>6. QED
    BY <2>4, <2>5
<1>17. QED
  BY <1>15, <1>16


-----------------------------------------------------------------------------
(***************************************************************************)
(* normalize.                                                              *)
(***************************************************************************)
LEMMA NormalFacts ==
    ASSUME RoundCall, RoundingTypeOK, Normalizing
    PROVE  /\ call.op = "normalize" /\ neg = call.d.neg /\ exp = 0 /\ Surplus = 0 /\ ~Rescales
           /\ value_scale \in Nat /\ call.d.s \in Nat /\ value_scale <= call.d.s
           /\ m \in Nat /\ m \in Mantissa /\ Given \in Nat
           /\ call.d.s - value_scale \in 0..PowLimit /\ call.d.s <= PowLimit /\ PowLimit \in Nat
           /\ Given = m * POWERS[call.d.s - value_scale]
<1>1. /\ call.op = "normalize" /\ exp = 0 /\ neg = call.d.neg /\ value_scale <= call.d.s
      /\ Given = m * POWERS[call.d.s - value_scale]
  BY DEF Normalizing
<1>2. value_scale \in Nat /\ m \in Mantissa /\ m \in Nat
  BY BaseType DEF RoundingTypeOK, Mantissa
<1>3. call.d.s \in Nat /\ Given \in Nat /\ call.d.s <= PowLimit /\ PowLimit \in Nat
  BY CallFacts
<1>4. Surplus = 0 /\ ~Rescales
  BY <1>1, SurplusOf DEF Rescales
<1>5. QED
  BY <1>1, <1>2, <1>3, <1>4

LEMMA NormalizeZeroInv == RoundInv /\ NormalizeZero => RoundInv'
<1> SUFFICES ASSUME RoundInv, NormalizeZero PROVE RoundInv'
  OBVIOUS
<1>1. /\ pc = "normalize" /\ m = 0
      /\ neg' = FALSE /\ value_scale' = 0 /\ pc' = "done"
      /\ UNCHANGED <<call, m, to, k, working, digit, figures, exp>>
  BY DEF NormalizeZero
<1>2. RoundCall /\ RoundingTypeOK /\ Normalizing
  BY <1>1 DEF RoundInv
<1>3. /\ Surplus = 0 /\ ~Rescales /\ value_scale \in Nat /\ call.d.s \in Nat
      /\ call.d.s - value_scale \in 0..PowLimit /\ call.d.s <= PowLimit /\ PowLimit \in Nat
      /\ Given = m * POWERS[call.d.s - value_scale]
  BY <1>2, NormalFacts
<1>4. call.d.s \in 0..PowLimit /\ Given = 0 /\ POWERS[0] = 1 /\ POWERS[call.d.s] \in Nat
  <2>1. call.d.s \in 0..PowLimit
    BY <1>3
  <2>2. POWERS[call.d.s] \in Nat /\ POWERS[call.d.s - value_scale] \in Nat
    BY <1>3, <2>1, PowersType
  <2>3. QED
    BY <1>1, <1>3, <2>1, <2>2, PowersAssumption
<1>5. IF value_scale' >= call.d.s
      THEN m' = Given * POWERS[IF m' = 0 THEN 0 ELSE value_scale' - call.d.s]
      ELSE m' * POWERS[call.d.s - value_scale'] = Given
  <2>1. value_scale' >= call.d.s => m' = Given * POWERS[IF m' = 0 THEN 0 ELSE value_scale' - call.d.s]
    BY <1>1, <1>4
  <2>2. call.d.s - value_scale' = call.d.s
    BY <1>1, <1>3
  <2>3. m' * POWERS[call.d.s - value_scale'] = Given
    BY <1>1, <1>4, <2>2
  <2>4. QED
    BY <2>1, <2>3
<1>6. RoundingTypeOK'
  BY <1>1, <1>2 DEF RoundingTypeOK
<1>7. QED
  BY <1>1, <1>2, <1>3, <1>5, <1>6, EndsKept

LEMMA StripZeroInv == RoundInv /\ StripZero => RoundInv'
<1> SUFFICES ASSUME RoundInv, StripZero PROVE RoundInv'
  OBVIOUS
<1>1. /\ pc = "normalize" /\ value_scale > 0 /\ m % Ten = 0 /\ pc' = "normalize"
      /\ m' = m \div Ten /\ value_scale' = value_scale - 1
      /\ UNCHANGED <<call, neg, to, k, working, digit, figures, exp>>
  BY DEF StripZero
<1>2. RoundCall /\ RoundingTypeOK /\ Normalizing
  BY <1>1 DEF RoundInv
<1> DEFINE i == call.d.s - value_scale
<1>3. /\ call.op = "normalize" /\ neg = call.d.neg /\ exp = 0
      /\ value_scale \in Nat /\ call.d.s \in Nat /\ value_scale <= call.d.s
      /\ m \in Nat /\ m \in Mantissa
      /\ i \in 0..PowLimit /\ call.d.s <= PowLimit /\ PowLimit \in Nat
      /\ Given = m * POWERS[i]
  BY <1>2, NormalFacts
<1>4. m' \in Nat /\ m = m' * Ten /\ m' <= m /\ Ten \in Nat
  <2>1. Ten \in Nat \ {0} /\ Ten > 1
    BY BaseAssumption
  <2>2. m = (m \div Ten) * Ten + (m % Ten) /\ m \div Ten \in Nat
    BY <1>3, <2>1, DivMod
  <2>3. m \div Ten <= m
    BY <1>3, <2>1
  <2>4. QED
    BY <1>1, <1>3, <2>1, <2>2, <2>3
<1>5. value_scale' \in Nat /\ value_scale' <= call.d.s /\ call.d.s - value_scale' = i + 1 /\ i + 1 <= PowLimit
  BY <1>1, <1>3
<1> HIDE DEF i
<1>6. Given = m' * POWERS[i + 1]
  <2>1. POWERS[i + 1] = POWERS[i] * Ten /\ POWERS[i] \in Nat
    BY <1>3, <1>5, PowersNext, PowersType
  <2>2. (m' * Ten) * POWERS[i] = m' * (Ten * POWERS[i]) /\ Ten * POWERS[i] = POWERS[i] * Ten
    BY <1>4, <2>1, MulAssoc
  <2>3. QED
    BY <1>3, <1>4, <2>1, <2>2
<1>7. RoundingTypeOK'
  <2>1. m' \in Mantissa
    <3>1. m' \in Nat /\ m' <= m /\ m \in Mantissa /\ Max96 \in Nat
      BY <1>3, <1>4, BaseType
    <3>2. QED
      BY <3>1 DEF Mantissa
  <2>2. QED
    BY <1>1, <1>2, <1>5, <2>1 DEF RoundingTypeOK
<1>8. Normalizing'
  BY <1>1, <1>3, <1>5, <1>6 DEF Normalizing, Given
<1>9. QED
  BY <1>1, <1>2, <1>7, <1>8, SameCall, NotEnded DEF RoundInv

LEMMA NormalizedInv == RoundInv /\ Normalized => RoundInv'
<1> SUFFICES ASSUME RoundInv, Normalized PROVE RoundInv'
  OBVIOUS
<1>1. /\ pc = "normalize" /\ (value_scale = 0 \/ m % Ten # 0) /\ pc' = "done"
      /\ UNCHANGED <<call, m, neg, value_scale, to, k, working, digit, figures, exp>>
  BY DEF Normalized
<1>2. RoundCall /\ RoundingTypeOK /\ Normalizing
  BY <1>1 DEF RoundInv
<1>3. /\ Surplus = 0 /\ ~Rescales /\ neg = call.d.neg
      /\ value_scale \in Nat /\ call.d.s \in Nat /\ value_scale <= call.d.s /\ m \in Nat /\ Given \in Nat
      /\ Given = m * POWERS[call.d.s - value_scale]
  BY <1>2, NormalFacts
<1>4. IF value_scale' >= call.d.s
      THEN m' = Given * POWERS[IF m' = 0 THEN 0 ELSE value_scale' - call.d.s]
      ELSE m' * POWERS[call.d.s - value_scale'] = Given
  <2>1. CASE value_scale = call.d.s
    <3>1. call.d.s - value_scale = 0 /\ value_scale' - call.d.s = 0 /\ POWERS[0] = 1 /\ value_scale' >= call.d.s
      BY <1>1, <1>3, <2>1, PowersAssumption
    <3>2. Given = m
      BY <1>3, <3>1
    <3>3. m' = Given * POWERS[IF m' = 0 THEN 0 ELSE value_scale' - call.d.s]
      BY <1>1, <1>3, <3>1, <3>2
    <3>4. QED
      BY <3>1, <3>3
  <2>2. CASE value_scale < call.d.s
    BY <1>1, <1>3, <2>2
  <2>3. QED
    BY <1>3, <2>1, <2>2
<1>5. RoundingTypeOK'
  BY <1>1, <1>2 DEF RoundingTypeOK
<1>6. QED
  BY <1>1, <1>2, <1>3, <1>4, <1>5, EndsKept

-----------------------------------------------------------------------------
(***************************************************************************)
(* The invariant.                                                          *)
(***************************************************************************)
LEMMA RoundInvInit == Init => RoundInv
<1> SUFFICES ASSUME Init PROVE RoundInv
  OBVIOUS
<1>1. PICK d \in Decimal, n \in Nat, by \in Strategies,
           op \in {"rescale", "trunc", "floor", "ceil", "round_dp", "round_sf", "normalize"} :
          Called(op, d, n, by) /\ (op \in {"floor", "ceil", "normalize"} => n = 0)
  BY DEF Init
<1>2. /\ call = [op |-> op, d |-> d, n |-> n, by |-> by]
      /\ m = d.m /\ neg = d.neg /\ value_scale = d.s /\ to = n
      /\ k = 0 /\ working = 0 /\ digit = 0 /\ figures = 0 /\ exp = 0
      /\ pc = CASE op \in {"rescale", "trunc", "floor", "ceil"} -> "rescale"
                [] op = "round_dp" -> "round_dp"
                [] op = "round_sf" -> "round_sf"
                [] op = "normalize" -> "normalize"
  BY <1>1 DEF Called
<1>3. call.op = op /\ call.d = d /\ call.n = n /\ call.by = by
  BY <1>2
<1>4. RoundCall /\ Given = d.m
  BY <1>3 DEF RoundCall, Given
<1>5. Given \in Mantissa /\ Given \in Nat /\ d.s \in Nat /\ d.s <= MAX_SCALE /\ MAX_SCALE \in Nat /\ d.neg \in BOOLEAN
  BY <1>3, <1>4, CallFacts
<1>6. RoundingTypeOK
  <2>1. 0 \in Mantissa /\ 0 \in 0..(Ten - 1)
    BY BaseType, BaseAssumption DEF Mantissa
  <2>2. m \in Mantissa /\ neg \in BOOLEAN /\ value_scale \in Nat /\ to \in Nat
    BY <1>2, <1>4, <1>5
  <2>3. pc \in {"rescale", "round_dp", "round_sf", "normalize"}
    BY <1>2
  <2>4. QED
    BY <1>2, <1>5, <2>1, <2>2, <2>3 DEF RoundingTypeOK
<1>7. SameNumber
  BY <1>2, <1>3, <1>4 DEF SameNumber
<1>8. CASE op \in {"rescale", "trunc", "floor", "ceil"}
  <2>1. pc = "rescale" /\ Aimed
    BY <1>1, <1>2, <1>3, <1>8 DEF Aimed
  <2>2. Rescaling
    BY <1>2, <1>7, <2>1 DEF Rescaling
  <2>3. QED
    BY <1>4, <1>6, <2>1, <2>2 DEF RoundInv, RoundsAsAsked, ValueKept, SfOverflows
<1>9. CASE op = "round_dp"
  <2>1. pc = "round_dp" /\ RoundsTo
    BY <1>2, <1>3, <1>9 DEF RoundsTo
  <2>2. Placing
    BY <1>2, <1>3, <1>4, <1>5, <2>1 DEF Placing
  <2>3. QED
    BY <1>4, <1>6, <2>1, <2>2 DEF RoundInv, RoundsAsAsked, ValueKept, SfOverflows
<1>10. CASE op = "round_sf"
  <2>1. pc = "round_sf" /\ Figuring
    BY <1>2, <1>3, <1>7, <1>10 DEF Figuring
  <2>2. QED
    BY <1>4, <1>6, <2>1 DEF RoundInv, RoundsAsAsked, ValueKept, SfOverflows
<1>11. CASE op = "normalize"
  <2>1. call.d.s - value_scale = 0 /\ value_scale <= call.d.s /\ POWERS[0] = 1
    BY <1>2, <1>3, <1>5, PowersAssumption
  <2>2. Given = m * POWERS[call.d.s - value_scale]
    BY <1>2, <1>4, <1>5, <2>1
  <2>3. pc = "normalize" /\ Normalizing
    BY <1>2, <1>3, <1>11, <2>1, <2>2 DEF Normalizing
  <2>4. QED
    BY <1>4, <1>6, <2>3 DEF RoundInv, RoundsAsAsked, ValueKept, SfOverflows
<1>12. QED
  BY <1>8, <1>9, <1>10, <1>11

LEMMA RoundInvStutter == RoundInv /\ UNCHANGED vars => RoundInv'
<1> SUFFICES ASSUME RoundInv, UNCHANGED vars PROVE RoundInv'
  OBVIOUS
<1>1. UNCHANGED <<call, m, neg, value_scale, to, k, working, digit, figures, exp, pc>>
  BY DEF vars
<1>2. RoundCall' = RoundCall /\ RoundingTypeOK' = RoundingTypeOK
  BY <1>1 DEF RoundCall, RoundingTypeOK
<1>3. /\ Aimed' = Aimed /\ RoundsTo' = RoundsTo /\ SameNumber' = SameNumber /\ Given' = Given
  BY <1>1 DEF Aimed, RoundsTo, SameNumber, Given
<1>4. /\ Rescaling' = Rescaling /\ Dropping' = Dropping /\ Extending' = Extending /\ Stepping' = Stepping
      /\ Placing' = Placing /\ Cutting' = Cutting /\ Restoring' = Restoring
  BY <1>1, <1>3 DEF Rescaling, Dropping, Extending, Stepping, Placing, Cutting, Restoring
<1>5. /\ Figuring' = Figuring /\ Counting' = Counting /\ ScalingBack' = ScalingBack /\ Normalizing' = Normalizing
  BY <1>1, <1>3 DEF Figuring, Counting, ScalingBack, Normalizing
<1>6. RoundsAsAsked' = RoundsAsAsked /\ ValueKept' = ValueKept /\ SfOverflows' = SfOverflows
  BY <1>1, SameCall DEF RoundsAsAsked, ValueKept, SfOverflows
<1>7. QED
  BY <1>1, <1>2, <1>4, <1>5, <1>6 DEF RoundInv

LEMMA RoundInvNext == RoundInv /\ [Next]_vars => RoundInv'
<1> SUFFICES ASSUME RoundInv, [Next]_vars PROVE RoundInv'
  OBVIOUS
<1>1. CASE RescaleSame \/ RescaleZero \/ RescaleDown \/ DropDigit \/ DropZero \/ DropRound
  BY <1>1, RescaleSameInv, RescaleZeroInv, RescaleDownInv, DropDigitInv, DropZeroInv, DropRoundInv
<1>2. CASE RescaleUp \/ ExtendDigit \/ ExtendStop \/ Step
  BY <1>2, RescaleUpInv, ExtendDigitInv, ExtendStopInv, StepInv
<1>3. CASE RoundDpKeeps \/ RoundDpZero \/ RoundDpStart \/ CutChunk \/ CutDone \/ OffsetChunk \/ RoundDp
  BY <1>3, RoundDpKeepsInv, RoundDpZeroInv, RoundDpStartInv, CutChunkInv, CutDoneInv, OffsetChunkInv, RoundDpInv
<1>4. CASE SfZero \/ SfStart \/ CountDigit \/ SfMore \/ SfSame
  BY <1>4, SfZeroInv, SfStartInv, CountDigitInv, SfMoreInv, SfSameInv
<1>5. CASE SfFraction \/ SfIntegral \/ ScaleBack
  BY <1>5, SfFractionInv, SfIntegralInv, ScaleBackInv
<1>6. CASE NormalizeZero \/ StripZero \/ Normalized
  BY <1>6, NormalizeZeroInv, StripZeroInv, NormalizedInv
<1>7. CASE UNCHANGED vars
  BY <1>7, RoundInvStutter
<1>8. QED
  BY <1>1, <1>2, <1>3, <1>4, <1>5, <1>6, <1>7 DEF Next

\* Whichever operation is called and however far it got, its variables are as
\* the part of the invariant for that point of the code says.
THEOREM RoundInvariant == Spec => []RoundInv
<1>1. Init => RoundInv
  BY RoundInvInit
<1>2. RoundInv /\ [Next]_vars => RoundInv'
  BY RoundInvNext
<1>3. QED
  BY <1>1, <1>2, PTL DEF Spec

\* The mantissa never leaves three words, the digit dropped is one, the figures
\* counted are at most one more than the maximal scale.
THEOREM RoundTypeCorrect == Spec => []RoundingTypeOK
<1>1. RoundInv => RoundingTypeOK
  BY DEF RoundInv
<1>2. QED
  BY <1>1, RoundInvariant, PTL

\* rescale, trunc, floor, ceil, round_dp and round_sf follow the strategy they
\* name at the place asked for, for every decimal, sign and place.
THEOREM RoundCorrect == Spec => []RoundsAsAsked
<1>1. RoundInv => RoundsAsAsked
  BY DEF RoundInv
<1>2. QED
  BY <1>1, RoundInvariant, PTL

\* A call with nothing to round returns the number it was given, with the digits
\* that were asked for, up to the largest scale, and fit.
THEOREM RoundKeeps == Spec => []ValueKept
<1>1. RoundInv => ValueKept
  BY DEF RoundInv
<1>2. QED
  BY <1>1, RoundInvariant, PTL

\* round_sf returns nothing only when no mantissa follows the strategy.
THEOREM RoundOverflowsTruly == Spec => []SfOverflows
<1>1. RoundInv => SfOverflows
  BY DEF RoundInv
<1>2. QED
  BY <1>1, RoundInvariant, PTL
================================================================================
