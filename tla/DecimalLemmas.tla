---------------------------- MODULE DecimalLemmas ----------------------------
(***************************************************************************)
(* Facts of integer arithmetic about the definitions of DecimalBase,       *)
(* Scaling and Numerals, for every value of their constants.  The proof    *)
(* modules cite them by name.                                              *)
(***************************************************************************)
EXTENDS Scaling, Numerals, WellFoundedInduction, TLAPS

\* Euclidean division, as the words of the code are divided.
LEMMA DivMod ==
    ASSUME NEW a \in Nat, NEW b \in Nat \ {0}
    PROVE  /\ a \div b \in Nat
           /\ a % b \in Nat
           /\ a % b < b
           /\ a = (a \div b) * b + (a % b)
  OBVIOUS

\* Products are monotonic, distribute over sums and can be taken in any order.
LEMMA MulMono ==
    ASSUME NEW a \in Int, NEW b \in Int, NEW c \in Nat, a <= b
    PROVE  a * c \in Int /\ b * c \in Int /\ a * c <= b * c
  OBVIOUS

LEMMA Distribute ==
    ASSUME NEW a \in Int, NEW b \in Int, NEW c \in Int
    PROVE  /\ (a + b) * c = a * c + b * c
           /\ (a - b) * c = a * c - b * c
           /\ a * c \in Int /\ b * c \in Int
  OBVIOUS

LEMMA MulAssoc ==
    ASSUME NEW a \in Int, NEW b \in Int, NEW c \in Int
    PROVE  /\ (a * b) * c = a * (b * c)
           /\ a * b = b * a
           /\ a * b \in Int /\ b * c \in Int
  OBVIOUS

\* The quotient is the only one that leaves a remainder below the divisor.
LEMMA QuotientUnique ==
    ASSUME NEW a \in Nat, NEW b \in Nat \ {0}, NEW q \in Nat, NEW r \in Nat,
           a = q * b + r, r < b
    PROVE  a \div b = q /\ a % b = r
<1>1. a \div b \in Nat /\ a % b \in Nat /\ a % b < b /\ a = (a \div b) * b + (a % b)
  BY DivMod
<1>2. ASSUME NEW x \in Nat, NEW y \in Nat, NEW s \in Nat, NEW t \in Nat,
             x * b + s = y * b + t, s < b, t < b
      PROVE  x <= y
  <2>1. SUFFICES ASSUME x >= y + 1 PROVE FALSE
    OBVIOUS
  <2>2. x * b >= (y + 1) * b
    BY <2>1
  <2>3. QED
    BY <1>2, <2>2
<1>3. a \div b <= q
  BY <1>1, <1>2
<1>4. q <= a \div b
  BY <1>1, <1>2
<1>5. QED
  BY <1>1, <1>3, <1>4

\* A quotient by at least b of a number below b * c is below c.
LEMMA QuotientBound ==
    ASSUME NEW a \in Nat, NEW b \in Nat \ {0}, NEW c \in Nat, a < b * c
    PROVE  a \div b < c
<1>1. a \div b \in Nat /\ a % b \in Nat /\ a = (a \div b) * b + (a % b)
  BY DivMod
<1>2. SUFFICES ASSUME a \div b >= c PROVE FALSE
  BY <1>1
<1>3. (a \div b) * b >= c * b
  BY <1>1, <1>2
<1>4. QED
  BY <1>1, <1>3

\* A set of naturals that is not empty has a least element.
LEMMA LeastOf ==
    ASSUME NEW T, T \subseteq Nat, T # {}
    PROVE  \E k \in T : \A j \in T : k <= j
<1>1. \E k \in T : \A j \in T : ~(<<j, k>> \in OpToRel(<, Nat))
  BY NatLessThanWellFounded, WFMin
<1>2. \A j, k \in Nat : <<j, k>> \in OpToRel(<, Nat) <=> j < k
  BY DEF OpToRel
<1>3. PICK k \in T : \A j \in T : ~(<<j, k>> \in OpToRel(<, Nat))
  BY <1>1
<1>4. ASSUME NEW j \in T PROVE k <= j
  <2>1. j \in Nat /\ k \in Nat /\ ~(<<j, k>> \in OpToRel(<, Nat))
    BY <1>3
  <2>2. ~(j < k)
    BY <1>2, <2>1
  <2>3. j \in Nat /\ k \in Nat
    OBVIOUS
  <2>4. QED
    BY <2>2, <2>3
<1>5. QED
  BY <1>4

\* A set of naturals up to n that is not empty has a greatest element.
LEMMA GreatestOf ==
    ASSUME NEW n \in Nat, NEW T, T \subseteq 0..n, T # {}
    PROVE  \E k \in T : \A j \in T : j <= k
<1> DEFINE U == {j \in 0..n : n - j \in T}
<1>0. U \subseteq Nat
  OBVIOUS
<1>1. U # {}
  <2>1. PICK k \in T : TRUE
    OBVIOUS
  <2>2. n - k \in 0..n /\ n - (n - k) = k
    BY <2>1
  <2>3. n - (n - k) \in T
    BY <2>2
  <2>4. n - k \in U
    BY <2>2, <2>3
  <2> HIDE DEF U
  <2>5. QED
    BY <2>4
<1> HIDE DEF U
<1>2. PICK j \in U : \A i \in U : j <= i
  BY <1>0, <1>1, LeastOf
<1>3. j \in 0..n /\ n - j \in T
  BY DEF U
<1>4. ASSUME NEW i \in T PROVE i <= n - j
  <2>1. i \in 0..n /\ n - i \in 0..n /\ n - (n - i) = i
    OBVIOUS
  <2>2. n - i \in U
    BY <2>1 DEF U
  <2>3. j <= n - i
    BY <1>2, <2>2
  <2>4. QED
    BY <1>3, <2>1, <2>3
<1>5. QED
  BY <1>3, <1>4

\* Every entry of the tables is a positive integer, and from Ten on an even one.
LEMMA PowersType ==
    ASSUME NEW i \in 0..PowLimit
    PROVE  /\ POWERS[i] \in Nat
           /\ POWERS[i] >= 1
           /\ i >= 1 => POWERS[i] % 2 = 0
  BY PowersAssumption

\* 10^(i + j) = 10^i * 10^j, within the tables.
LEMMA PowersAdd ==
    ASSUME NEW i \in 0..PowLimit, NEW j \in 0..PowLimit, i + j <= PowLimit
    PROVE  POWERS[i + j] = POWERS[i] * POWERS[j]
  BY PowersAssumption

\* Larger exponents have larger powers.
LEMMA PowersMono ==
    ASSUME NEW i \in 0..PowLimit, NEW j \in 0..PowLimit, i <= j
    PROVE  POWERS[i] <= POWERS[j]
<1>1. j - i \in 0..PowLimit /\ i + (j - i) = j
  BY ScaleAssumption
<1>2. POWERS[j] = POWERS[i] * POWERS[j - i]
  BY <1>1, PowersAdd
<1>3. POWERS[i] \in Nat /\ POWERS[j - i] \in Nat /\ 1 <= POWERS[j - i]
  BY <1>1, PowersType
<1>4. 1 * POWERS[i] <= POWERS[j - i] * POWERS[i] /\ POWERS[j - i] * POWERS[i] = POWERS[i] * POWERS[j - i]
  BY <1>3, MulMono, MulAssoc
<1>5. QED
  BY <1>2, <1>3, <1>4

\* Dividing by one power and then by another divides by their product.
LEMMA QuotientTwice ==
    ASSUME NEW v \in Nat, NEW i \in 0..PowLimit, NEW j \in 0..PowLimit, i + j <= PowLimit
    PROVE  (v \div POWERS[i]) \div POWERS[j] = v \div POWERS[i + j]
<1> DEFINE a == POWERS[i]
<1> DEFINE b == POWERS[j]
<1> DEFINE q == v \div a
<1> DEFINE r == v % a
<1> DEFINE t == q \div b
<1> DEFINE u == q % b
<1>1. a \in Nat \ {0} /\ b \in Nat \ {0} /\ POWERS[i + j] = a * b
  BY PowersType, PowersAdd
<1>2. q \in Nat /\ r \in Nat /\ r < a /\ v = q * a + r
  BY <1>1, DivMod
<1> HIDE DEF q, r
<1>3. t \in Nat /\ u \in Nat /\ u < b /\ q = t * b + u
  BY <1>1, <1>2, DivMod
<1> HIDE DEF t, u, a, b
<1>4. v = t * (a * b) + (u * a + r)
  <2>1. q * a = (t * b) * a + u * a
    BY <1>1, <1>3, Distribute
  <2>2. (t * b) * a = t * (b * a) /\ b * a = a * b /\ u * a \in Int /\ t * (a * b) \in Int
    BY <1>1, <1>3, MulAssoc
  <2>3. QED
    BY <1>2, <2>1, <2>2
<1>5. u * a + r \in Nat /\ u * a + r < a * b
  <2>1. (u + 1) * a <= b * a /\ (u + 1) * a = u * a + 1 * a /\ u * a \in Int /\ b * a = a * b
    BY <1>1, <1>3, MulMono, Distribute, MulAssoc
  <2>2. u * a \in Nat /\ a * b \in Nat
    BY <1>1, <1>3
  <2>3. QED
    BY <1>1, <1>2, <2>1, <2>2
<1>6. v \div (a * b) = t
  <2>1. a * b \in Nat \ {0}
    BY <1>1
  <2>2. QED
    BY <1>3, <1>4, <1>5, <2>1, QuotientUnique
<1>7. (v \div POWERS[i]) \div POWERS[j] = t
  BY DEF t, q, a, b
<1>8. QED
  BY <1>1, <1>6, <1>7

\* A chunk is between one digit and the digits asked for.
LEMMA ChunkType ==
    ASSUME NEW k \in 1..PowLimit
    PROVE  /\ Chunk(k) \in 1..PowLimit
           /\ Chunk(k) <= k
           /\ Chunk(k) <= MAX_I32_SCALE
           /\ k <= MAX_I32_SCALE => Chunk(k) = k
           /\ k > MAX_I32_SCALE => Chunk(k) = MAX_I32_SCALE
  BY ScaleAssumption DEF Chunk, SmallerOf

\* The mantissa bound is a positive integer.
LEMMA BaseType ==
    /\ Base \in Nat /\ Base >= 2
    /\ B2 \in Nat /\ B2 >= 4
    /\ B3 \in Nat /\ B3 >= 8
    /\ Max96 \in Nat /\ Max96 = B3 - 1
    /\ Base < B2 /\ B2 < B3
<1>1. Base \in Nat /\ Base >= 2
  BY BaseAssumption
<1>2. B2 \in Nat /\ B2 >= 4 /\ Base < B2
  BY <1>1 DEF B2
<1>3. B3 = B2 * Base /\ B2 \in Nat
  BY <1>1, <1>2 DEF B2, B3
<1>4. B3 \in Nat /\ B3 >= 8 /\ B2 < B3
  BY <1>1, <1>2, <1>3
<1>5. QED
  BY <1>1, <1>2, <1>4 DEF Max96

\* The quotient of an integer, of either sign, is unique too.
LEMMA IntQuotientUnique ==
    ASSUME NEW a \in Int, NEW b \in Nat \ {0}, NEW q \in Int, NEW r \in Nat,
           a = q * b + r, r < b
    PROVE  a \div b = q /\ a % b = r
<1>1. a \div b \in Int /\ a % b \in Nat /\ a % b < b /\ a = (a \div b) * b + (a % b)
  OBVIOUS
<1>2. ASSUME NEW u \in Int, NEW v \in Int, NEW s \in Nat, NEW t \in Nat,
             u * b + s = v * b + t, s < b, t < b
      PROVE  u <= v
  <2>1. SUFFICES ASSUME u >= v + 1 PROVE FALSE
    OBVIOUS
  <2>2. (v + 1) * b <= u * b /\ (v + 1) * b \in Int /\ u * b \in Int
    BY <2>1, MulMono
  <2>3. (v + 1) * b = v * b + 1 * b /\ v * b \in Int
    BY Distribute
  <2>4. QED
    BY <1>2, <2>2, <2>3
<1>3. a \div b <= q
  BY <1>1, <1>2
<1>4. q <= a \div b
  BY <1>1, <1>2
<1>5. QED
  BY <1>1, <1>3, <1>4

\* Wrapping sums and differences of numbers below n.
LEMMA WrapMod ==
    ASSUME NEW n \in Nat \ {0}, NEW a \in 0..(n - 1), NEW b \in 0..(n - 1)
    PROVE  /\ (a + b) % n = IF a + b < n THEN a + b ELSE a + b - n
           /\ (a - b) % n = IF a < b THEN a - b + n ELSE a - b
<1>1. n \in Nat /\ a \in Nat /\ b \in Nat /\ a < n /\ b < n
  OBVIOUS
<1>2. ASSUME NEW c \in Int, 0 <= c, c < n PROVE c % n = c
  <2>1. c \in Nat /\ c = 0 * n + c /\ 0 \in Int
    BY <1>2
  <2>2. QED
    BY <1>2, <2>1, IntQuotientUnique
<1>3. ASSUME NEW c \in Int, n <= c, c < 2 * n PROVE c % n = c - n
  <2>1. c - n \in Nat /\ c = 1 * n + (c - n) /\ 1 \in Int /\ c - n < n
    BY <1>3
  <2>2. QED
    BY <2>1, IntQuotientUnique
<1>4. ASSUME NEW c \in Int, -n <= c, c < 0 PROVE c % n = c + n
  <2>1. c + n \in Nat /\ c = (-1) * n + (c + n) /\ -1 \in Int /\ c + n < n
    BY <1>4
  <2>2. QED
    BY <2>1, IntQuotientUnique
<1>5. QED
  BY <1>1, <1>2, <1>3, <1>4

\* HalfEven computes the rounding that IsHalfEven defines.
LEMMA HalfEvenRight ==
    ASSUME NEW v \in Nat, NEW p \in Nat \ {0}
    PROVE  HalfEven(v, p) \in Nat /\ IsHalfEven(HalfEven(v, p), v, p)
<1> DEFINE q == v \div p
<1> DEFINE r == v % p
<1>1. q \in Nat /\ r \in Nat /\ r < p /\ v = q * p + r
  BY DivMod
<1>2. HalfEven(v, p) = IF 2 * r > p \/ (2 * r = p /\ q % 2 = 1) THEN q + 1 ELSE q
  BY DEF HalfEven
<1> HIDE DEF q, r
<1>3. (q + 1) * p = q * p + 1 * p /\ q * p \in Int
  BY <1>1, Distribute
<1>4. v - q * p = r /\ v - (q + 1) * p = r - p
  BY <1>1, <1>3
<1>5. CASE 2 * r > p \/ (2 * r = p /\ q % 2 = 1)
  <2>1. 2 * (v - (q + 1) * p) = 2 * r - 2 * p
    BY <1>1, <1>4
  <2>2. q % 2 = 1 => (q + 1) % 2 = 0
    BY <1>1
  <2>3. QED
    BY <1>1, <1>2, <1>5, <2>1, <2>2 DEF IsHalfEven
<1>6. CASE ~(2 * r > p \/ (2 * r = p /\ q % 2 = 1))
  <2>1. 2 * (v - q * p) = 2 * r
    BY <1>1, <1>4
  <2>2. q % 2 # 1 => q % 2 = 0
    BY <1>1
  <2>3. QED
    BY <1>1, <1>2, <1>6, <2>1, <2>2 DEF IsHalfEven
<1>7. QED
  BY <1>5, <1>6

\* What does not exceed a multiple of p does not round above it.
LEMMA HalfEvenBound ==
    ASSUME NEW v \in Nat, NEW p \in Nat \ {0}, NEW c \in Nat, v <= c * p
    PROVE  HalfEven(v, p) <= c
<1> DEFINE q == v \div p
<1> DEFINE r == v % p
<1>1. q \in Nat /\ r \in Nat /\ r < p /\ v = q * p + r
  BY DivMod
<1>2. HalfEven(v, p) = IF 2 * r > p \/ (2 * r = p /\ q % 2 = 1) THEN q + 1 ELSE q
  BY DEF HalfEven
<1> HIDE DEF q, r
<1>3. q * p \in Int /\ c * p \in Int
  BY <1>1
<1>4. q <= c
  <2>1. SUFFICES ASSUME c + 1 <= q PROVE FALSE
    BY <1>1
  <2>2. (c + 1) * p <= q * p /\ (c + 1) * p = c * p + 1 * p
    BY <1>1, <2>1, MulMono, Distribute
  <2>3. QED
    BY <1>1, <1>3, <2>2
<1>5. q = c => r = 0
  BY <1>1, <1>3
<1>6. QED
  BY <1>1, <1>2, <1>4, <1>5

\* With nothing to drop nothing is rounded.
LEMMA HalfEvenExact ==
    ASSUME NEW v \in Nat
    PROVE  HalfEven(v, 1) = v
<1>1. v \div 1 = v /\ v % 1 = 0
  OBVIOUS
<1>2. QED
  BY <1>1 DEF HalfEven

\* A mantissa is made of its three words.
LEMMA WordsOf ==
    ASSUME NEW m \in Mantissa
    PROVE  /\ Lo(m) \in 0..(Base - 1) /\ Mid(m) \in 0..(Base - 1) /\ Hi(m) \in 0..(Base - 1)
           /\ m = Lo(m) + Base * Mid(m) + B2 * Hi(m)
<1> DEFINE up == m \div Base
<1> DEFINE h == up \div Base
<1>1. Base \in Nat \ {0} /\ B2 \in Nat \ {0} /\ B2 = Base * Base /\ m \in Nat /\ m < Base * B2
  BY BaseType DEF Mantissa, Max96, B2, B3
<1>2. up \in Nat /\ Lo(m) \in 0..(Base - 1) /\ m = up * Base + Lo(m)
  BY <1>1, DivMod DEF Lo
<1>3. up < B2
  BY <1>1, QuotientBound
<1> HIDE DEF up
<1>4. h \in Nat /\ up % Base \in 0..(Base - 1) /\ up = h * Base + (up % Base)
  <2>1. up \div Base \in Nat /\ up % Base \in Nat /\ up % Base < Base
        /\ up = (up \div Base) * Base + (up % Base)
    BY <1>1, <1>2, DivMod
  <2>2. QED
    BY <1>1, <2>1
<1>5. h < Base
  BY <1>1, <1>2, <1>3, QuotientBound
<1>6. Mid(m) = up % Base
  BY DEF Mid, up
<1> HIDE DEF h
<1>7. m = h * B2 + (Mid(m) * Base + Lo(m))
  <2>1. (h * Base + Mid(m)) * Base = (h * Base) * Base + Mid(m) * Base
    BY <1>1, <1>4, <1>6, Distribute
  <2>2. (h * Base) * Base = h * B2
    BY <1>1, <1>4, MulAssoc
  <2>3. h * B2 \in Int /\ Mid(m) * Base \in Int
    BY <1>1, <1>4, <1>6
  <2>4. up * Base = (h * Base + Mid(m)) * Base
    BY <1>4, <1>6
  <2>5. QED
    BY <1>1, <1>2, <2>1, <2>2, <2>3, <2>4
<1>8. Mid(m) * Base + Lo(m) \in Nat /\ Mid(m) * Base + Lo(m) < B2
  <2>1. Mid(m) * Base <= (Base - 1) * Base /\ (Base - 1) * Base = Base * Base - 1 * Base
        /\ Mid(m) * Base \in Int /\ Base * Base \in Int
    BY <1>1, <1>4, <1>6, MulMono, Distribute
  <2>2. Mid(m) * Base \in Nat
    BY <1>1, <1>4, <1>6
  <2>3. QED
    BY <1>1, <1>2, <2>1, <2>2
<1>9. Hi(m) = h
  BY <1>1, <1>4, <1>7, <1>8, QuotientUnique DEF Hi
<1>10. h * B2 = B2 * Hi(m) /\ Mid(m) * Base = Base * Mid(m) /\ h * B2 \in Int /\ Mid(m) * Base \in Int
  BY <1>1, <1>4, <1>6, <1>9, MulAssoc
<1>11. m = Lo(m) + Base * Mid(m) + B2 * Hi(m)
  BY <1>1, <1>2, <1>7, <1>10
<1>12. QED
  BY <1>1, <1>2, <1>4, <1>5, <1>6, <1>9, <1>11

\* The high word and the low double word of a mantissa.
LEMMA HighLow ==
    ASSUME NEW m \in Mantissa
    PROVE  /\ Hi(m) \in 0..(Base - 1) /\ Low64(m) \in 0..(B2 - 1)
           /\ m = Hi(m) * B2 + Low64(m)
<1>1. Base \in Nat \ {0} /\ B2 \in Nat \ {0} /\ m \in Nat /\ m < B2 * Base
  BY BaseType DEF Mantissa, Max96, B2, B3
<1>2. Hi(m) \in Nat /\ Low64(m) \in Nat /\ Low64(m) < B2 /\ m = Hi(m) * B2 + Low64(m)
  BY <1>1, DivMod DEF Hi, Low64
<1>3. Hi(m) < Base
  BY <1>1, QuotientBound DEF Hi
<1>4. QED
  BY <1>1, <1>2, <1>3

\* A double word is made of two words.
LEMMA DoubleWord ==
    ASSUME NEW t \in 0..(B2 - 1)
    PROVE  /\ Lo(t) \in 0..(Base - 1) /\ t \div Base \in 0..(Base - 1)
           /\ t = Lo(t) + Base * (t \div Base)
<1>1. Base \in Nat \ {0} /\ B2 = Base * Base /\ B2 \in Nat
  BY BaseType DEF B2
<1>2. t \div Base \in Nat /\ Lo(t) \in 0..(Base - 1) /\ t = (t \div Base) * Base + Lo(t)
  BY <1>1, DivMod DEF Lo
<1>3. t \div Base < Base
  BY <1>1, QuotientBound
<1>4. (t \div Base) * Base = Base * (t \div Base)
  BY <1>1, <1>2, MulAssoc
<1>5. QED
  BY <1>1, <1>2, <1>3, <1>4

\* A decimal made of parts is one, and a zero among them is not negative.
LEMMA FromPartsType ==
    ASSUME NEW m \in Mantissa, NEW n \in BOOLEAN, NEW s \in 0..MAX_SCALE
    PROVE  /\ FromParts(m, n, s) \in Decimal
           /\ FromParts(m, n, s).m = 0 => ~FromParts(m, n, s).neg
           /\ FromParts(m, n, s).m # 0 => FromParts(m, n, s).neg = n
<1>1. (n /\ m # 0) \in BOOLEAN
  OBVIOUS
<1>2. m # 0 => (n /\ m # 0) = n
  BY Zenon
<1>3. m = 0 => ~(n /\ m # 0)
  OBVIOUS
<1> DEFINE b == n /\ m # 0
<1> HIDE DEF b
<1>4. b \in BOOLEAN /\ (m # 0 => b = n) /\ (m = 0 => ~b)
  BY <1>1, <1>2, <1>3 DEF b
<1>5. FromParts(m, n, s) = [neg |-> b, m |-> m, s |-> s]
  BY DEF FromParts, b
<1>6. QED
  BY <1>4, <1>5 DEF Decimal

LEMMA ZeroType == ZERO \in Decimal /\ ~ZERO.neg /\ ZERO.m = 0
  BY BaseType, ScaleAssumption DEF ZERO, Decimal, Mantissa

\* A number that fits with all its digits is its own rounding.
LEMMA ExactRounding ==
    ASSUME NEW v \in Mantissa, NEW s \in 0..MAX_SCALE, NEW n \in BOOLEAN
    PROVE  IsRoundingOf(FromParts(v, n, s), v, s)
<1>1. v \in Nat /\ s \in Nat /\ MAX_SCALE \in Nat /\ s <= MAX_SCALE /\ POWERS[0] = 1
  BY ScaleAssumption, PowersAssumption, BaseType DEF Mantissa
<1>2. s - s = 0
  BY <1>1
<1>3. IsHalfEven(v, v, POWERS[s - s])
  BY <1>1, <1>2 DEF IsHalfEven
<1>4. ~(s < SmallerOf(s, MAX_SCALE))
  BY <1>1 DEF SmallerOf
<1>5. v = 0 => 2 * v <= POWERS[IF s > MAX_SCALE THEN s - MAX_SCALE ELSE 0]
  BY <1>1
<1>6. QED
  BY <1>1, <1>3, <1>4, <1>5 DEF IsRoundingOf, FromParts

-----------------------------------------------------------------------------
(***************************************************************************)
(* Comparisons of integers by way of quotients.                            *)
(***************************************************************************)
\* What a multiplication by a positive number preserves.
LEMMA Cancel ==
    ASSUME NEW a \in Int, NEW b \in Int, NEW c \in Nat \ {0}
    PROVE  /\ a * c \in Int /\ b * c \in Int
           /\ a * c < b * c <=> a < b
           /\ a * c = b * c <=> a = b
<1>1. a * c \in Int /\ b * c \in Int
  OBVIOUS
<1>2. ASSUME NEW u \in Int, NEW v \in Int, u < v PROVE u * c < v * c
  <2>1. (u + 1) * c <= v * c
    BY <1>2, MulMono
  <2>2. (u + 1) * c = u * c + 1 * c /\ u * c \in Int
    BY Distribute
  <2>3. QED
    BY <2>1, <2>2
<1>3. QED
  BY <1>1, <1>2

\* A number is at most a quotient, or below it, or equals an exact one, as its
\* product is to the dividend.
LEMMA AtMostQuotient ==
    ASSUME NEW a \in Int, NEW b \in Int, NEW c \in Nat \ {0}
    PROVE  /\ a * c \in Int
           /\ a <= b \div c <=> a * c <= b
           /\ b \div c < a <=> b < a * c
           /\ b % c = 0 /\ a = b \div c <=> a * c = b
<1> DEFINE q == b \div c
<1> DEFINE r == b % c
<1>1. q \in Int /\ r \in Nat /\ r < c /\ b = q * c + r
  OBVIOUS
<1>2. a * c \in Int /\ q * c \in Int /\ c \in Nat
  BY <1>1
<1>3. a * c = b => r = 0 /\ a = q
  <2>1. SUFFICES ASSUME a * c = b PROVE r = 0 /\ a = q
    OBVIOUS
  <2>2. b = a * c + 0 /\ 0 \in Nat /\ 0 < c
    BY <2>1, <1>2
  <2>3. QED
    BY <2>2, IntQuotientUnique
<1> HIDE DEF q, r
<1>4. a <= q => a * c <= q * c
  BY <1>1, <1>2, MulMono
<1>5. q < a => q * c + c <= a * c
  <2>1. SUFFICES ASSUME q < a PROVE q * c + c <= a * c
    OBVIOUS
  <2>2. (q + 1) * c <= a * c
    BY <2>1, <1>1, <1>2, MulMono
  <2>3. (q + 1) * c = q * c + 1 * c /\ 1 * c = c
    BY <1>1, <1>2, Distribute
  <2>4. QED
    BY <2>2, <2>3
<1>6. r = 0 /\ a = q => a * c = b
  BY <1>1, <1>2
<1>7. a <= q <=> a * c <= b
  BY <1>1, <1>2, <1>4, <1>5
<1>8. q < a <=> b < a * c
  BY <1>1, <1>2, <1>4, <1>5
<1>9. QED
  BY <1>2, <1>3, <1>6, <1>7, <1>8 DEF q, r

-----------------------------------------------------------------------------
(***************************************************************************)
(* find_scale.                                                             *)
(***************************************************************************)
\* The table of overflows decides whether a mantissa can be scaled.
LEMMA FitsTable ==
    ASSUME NEW q \in Nat, NEW k \in 0..PowLimit
    PROVE  /\ POWER_OVERFLOW(k) \in Mantissa
           /\ q * POWERS[k] \in Nat
           /\ q <= POWER_OVERFLOW(k) <=> q * POWERS[k] <= Max96
<1>1. POWERS[k] \in Nat \ {0} /\ Max96 \in Nat /\ POWERS[k] >= 1
  BY PowersType, BaseType
<1>2. q <= POWER_OVERFLOW(k) <=> q * POWERS[k] <= Max96
  BY <1>1, AtMostQuotient DEF POWER_OVERFLOW
<1>3. q * POWERS[k] \in Nat
  BY <1>1
<1>4. POWER_OVERFLOW(k) \in Nat
  BY <1>1, DivMod DEF POWER_OVERFLOW
<1>5. POWER_OVERFLOW(k) <= Max96
  <2> DEFINE v == POWER_OVERFLOW(k)
  <2>1. v \in Int /\ v <= v
    BY <1>4
  <2>2. v * POWERS[k] <= Max96
    BY <1>1, <2>1, AtMostQuotient DEF POWER_OVERFLOW
  <2>3. 1 * v <= POWERS[k] * v /\ POWERS[k] * v = v * POWERS[k] /\ v * POWERS[k] \in Int
    BY <1>1, <1>4, MulMono
  <2> HIDE DEF v
  <2>4. v <= Max96
    BY <1>1, <2>1, <2>2, <2>3
  <2>5. QED
    BY <2>4 DEF v
<1>6. QED
  BY <1>1, <1>2, <1>3, <1>4, <1>5 DEF Mantissa

\* Comparing high words first.
LEMMA HighFirst ==
    ASSUME NEW p \in Mantissa, NEW q \in Mantissa
    PROVE  /\ Hi(p) \in Nat /\ Hi(q) \in Nat
           /\ Hi(p) < Hi(q) => p < q
           /\ Hi(p) = Hi(q) => (p <= q <=> Low64(p) <= Low64(q))
<1>1. /\ Hi(p) \in Nat /\ Low64(p) \in Nat /\ Low64(p) < B2 /\ p = Hi(p) * B2 + Low64(p)
      /\ Hi(q) \in Nat /\ Low64(q) \in Nat /\ Low64(q) < B2 /\ q = Hi(q) * B2 + Low64(q)
      /\ B2 \in Nat
  BY BaseType, HighLow
<1> DEFINE g == Hi(p)
<1> DEFINE h == Hi(q)
<1>2. g \in Nat /\ h \in Nat /\ g = Hi(p) /\ h = Hi(q)
  BY <1>1
<1> HIDE DEF g, h
<1>3. g < h => g * B2 + B2 <= h * B2
  <2>1. SUFFICES ASSUME g + 1 <= h PROVE g * B2 + B2 <= h * B2
    BY <1>2
  <2>2. (g + 1) * B2 <= h * B2
    BY <1>1, <1>2, <2>1, MulMono
  <2>3. (g + 1) * B2 = g * B2 + B2
    BY <1>1, <1>2
  <2>4. QED
    BY <2>2, <2>3
<1>4. g * B2 \in Int /\ h * B2 \in Int
  BY <1>1, <1>2
<1>5. g < h => p < q
  BY <1>1, <1>2, <1>3, <1>4
<1>6. g = h => (p <= q <=> Low64(p) <= Low64(q))
  BY <1>1, <1>2, <1>4
<1>7. QED
  BY <1>2, <1>5, <1>6

\* The high words of the table fall from one power to the next, and none is zero.
LEMMA TableFalls ==
    ASSUME NEW j \in 1..MAX_I32_SCALE, NEW k \in 1..MAX_I32_SCALE, j < k
    PROVE  Hi(POWER_OVERFLOW(k)) < Hi(POWER_OVERFLOW(j))
<1> DEFINE u == POWER_OVERFLOW(k)
<1> DEFINE v == POWER_OVERFLOW(j)
<1>1. j \in 0..PowLimit /\ k \in 0..PowLimit /\ k - j \in 0..PowLimit /\ k - j >= 1 /\ j + (k - j) = k
      /\ MAX_I32_SCALE \in 0..PowLimit /\ k <= MAX_I32_SCALE
  BY ScaleAssumption
<1>2. POWERS[k] = POWERS[j] * POWERS[k - j] /\ POWERS[j] \in Nat \ {0} /\ POWERS[k - j] \in Nat /\ POWERS[k - j] >= 2
  <2>1. POWERS[j + (k - j)] = POWERS[j] * POWERS[k - j]
    BY <1>1, PowersAdd
  <2>2. POWERS[k - j] \in Nat /\ POWERS[k - j] >= 1 /\ POWERS[k - j] % 2 = 0
    BY <1>1, PowersType
  <2>3. POWERS[j] \in Nat \ {0}
    BY <1>1, PowersType
  <2>4. QED
    BY <1>1, <2>1, <2>2, <2>3
<1>3. u \in Mantissa /\ v \in Mantissa /\ u \in Nat /\ v \in Nat
  BY <1>1, FitsTable, BaseType, 0 \in Nat DEF Mantissa
<1>4. 2 * u <= v
  <2>1. u * POWERS[k] <= Max96 /\ Max96 \in Nat
    BY <1>1, <1>3, FitsTable, BaseType
  <2>2. (u * POWERS[k - j]) * POWERS[j] = u * POWERS[k] /\ u * POWERS[k - j] \in Nat
    <3> HIDE DEF u
    <3>1. QED
      BY <1>2, <1>3
  <2>3. u * POWERS[k - j] <= v
    BY <1>1, <2>1, <2>2, FitsTable
  <2>4. 2 * u <= POWERS[k - j] * u /\ POWERS[k - j] * u = u * POWERS[k - j]
    <3> HIDE DEF u
    <3>1. QED
      BY <1>2, <1>3, MulMono, 2 \in Int
  <2>5. QED
    BY <1>2, <1>3, <2>2, <2>3, <2>4
<1>5. B2 <= u /\ B2 \in Nat \ {0}
  <2>1. POWERS[k] <= POWERS[MAX_I32_SCALE] /\ POWERS[k] \in Nat /\ POWERS[MAX_I32_SCALE] \in Nat
    BY <1>1, PowersMono, PowersType
  <2>2. POWERS[MAX_I32_SCALE] < Base /\ Base \in Nat /\ B2 \in Nat /\ B2 >= 4 /\ B3 \in Nat /\ Max96 = B3 - 1
    BY WidthAssumption, BaseType
  <2>3. POWERS[k] * B2 <= (Base - 1) * B2 /\ (Base - 1) * B2 = Base * B2 - B2 /\ B3 = Base * B2 /\ POWERS[k] * B2 = B2 * POWERS[k]
    <3>1. Base - 1 \in Int /\ POWERS[k] <= Base - 1
      BY <2>1, <2>2
    <3>2. B3 = Base * B2 /\ (Base - 1) * B2 = Base * B2 - B2
      BY <2>2 DEF B2, B3
    <3>3. QED
      BY <2>1, <2>2, <3>1, <3>2, MulMono
  <2>4. B2 * POWERS[k] <= Max96
    BY <2>1, <2>2, <2>3
  <2>5. QED
    BY <1>1, <2>2, <2>4, FitsTable
<1>6. /\ Hi(u) \in Nat /\ Low64(u) \in Nat /\ Low64(u) < B2 /\ u = Hi(u) * B2 + Low64(u)
      /\ Hi(v) \in Nat /\ Low64(v) \in Nat /\ Low64(v) < B2 /\ v = Hi(v) * B2 + Low64(v)
  BY <1>3, HighLow, BaseType
<1> DEFINE g == Hi(u)
<1> DEFINE h == Hi(v)
<1>7. g \in Nat /\ h \in Nat /\ g = Hi(u) /\ h = Hi(v)
  BY <1>6
<1> HIDE DEF u, v, g, h
<1>8. g >= 1
  BY <1>5, <1>6, <1>7
<1>9. h <= g => h * B2 <= g * B2
  BY <1>5, <1>7, MulMono
<1>10. 1 * B2 <= g * B2 /\ h * B2 \in Int /\ g * B2 \in Int
  BY <1>5, <1>7, <1>8, MulMono
<1>11. g < h
  BY <1>4, <1>5, <1>6, <1>7, <1>9, <1>10
<1>12. QED
  BY <1>7, <1>11 DEF u, v

\* f is the largest power that keeps q within 96 bits and s within MAX_SCALE.
Largest(f, q, s) ==
    /\ f \in 0..MAX_I32_SCALE /\ s + f <= MAX_SCALE /\ q * POWERS[f] <= Max96
    /\ f = MAX_I32_SCALE \/ s + f = MAX_SCALE \/ Max96 < q * POWERS[f + 1]

\* It is the only one.
LEMMA LargestAbove ==
    ASSUME NEW q \in Mantissa, NEW s \in (-MAX_SCALE)..MAX_SCALE, NEW f, Largest(f, q, s),
           NEW j \in 0..MAX_I32_SCALE, s + j <= MAX_SCALE, q * POWERS[j] <= Max96
    PROVE  j <= f
<1>1. q \in Nat /\ f \in Nat /\ f <= MAX_I32_SCALE /\ j \in Nat /\ j <= MAX_I32_SCALE /\ s \in Int
  BY ScaleAssumption, BaseType DEF Largest, Mantissa
<1>2. SUFFICES ASSUME f + 1 <= j PROVE FALSE
  BY <1>1
<1>3. f # MAX_I32_SCALE /\ s + f # MAX_SCALE
  BY <1>1, <1>2, ScaleAssumption
<1>4. Max96 < q * POWERS[f + 1]
  BY <1>3 DEF Largest
<1>5. f + 1 \in 0..PowLimit /\ j \in 0..PowLimit
  BY <1>1, <1>2, ScaleAssumption
<1>6. POWERS[f + 1] <= POWERS[j] /\ POWERS[f + 1] \in Nat /\ POWERS[j] \in Nat
  BY <1>2, <1>5, PowersMono, PowersType
<1>7. POWERS[f + 1] * q <= POWERS[j] * q /\ POWERS[f + 1] * q = q * POWERS[f + 1] /\ POWERS[j] * q = q * POWERS[j]
      /\ q * POWERS[f + 1] \in Nat /\ q * POWERS[j] \in Nat
  BY <1>1, <1>6, MulMono, \A u, v \in Nat : u * v \in Nat
<1>8. Max96 \in Nat
  BY BaseType
<1>9. QED
  BY <1>4, <1>7, <1>8

\* The search of the high words ends at the last power whose entry is not below.
LEMMA SearchEnds ==
    ASSUME NEW q \in Mantissa, Hi(q) <= Hi(POWER_OVERFLOW(1))
    PROVE  \E k \in 1..MAX_I32_SCALE :
               /\ Hi(q) <= Hi(POWER_OVERFLOW(k))
               /\ k = MAX_I32_SCALE \/ Hi(q) > Hi(POWER_OVERFLOW(k + 1))
<1> DEFINE T == {k \in 1..MAX_I32_SCALE : Hi(POWER_OVERFLOW(k)) < Hi(q)}
<1>1. MAX_I32_SCALE \in Nat /\ 1 <= MAX_I32_SCALE /\ MAX_I32_SCALE <= PowLimit /\ PowLimit \in Nat
  BY ScaleAssumption
<1>2. \A k \in 1..MAX_I32_SCALE : Hi(POWER_OVERFLOW(k)) \in Nat
  <2>1. \A k \in 1..MAX_I32_SCALE : k \in 0..PowLimit
    BY <1>1
  <2>2. 0 \in Nat
    OBVIOUS
  <2>3. \A k \in 1..MAX_I32_SCALE : POWER_OVERFLOW(k) \in Mantissa
    BY <2>1, <2>2, FitsTable
  <2>4. QED
    BY <2>3, HighFirst
<1>3. Hi(q) \in Nat
  BY HighFirst
<1>4. CASE T = {}
  <2>1. MAX_I32_SCALE \in 1..MAX_I32_SCALE
    BY <1>1
  <2>2. ~(Hi(POWER_OVERFLOW(MAX_I32_SCALE)) < Hi(q))
    BY <1>4, <2>1
  <2>3. Hi(q) <= Hi(POWER_OVERFLOW(MAX_I32_SCALE))
    BY <1>2, <1>3, <2>1, <2>2
  <2>4. QED
    BY <2>1, <2>3
<1>5. CASE T # {}
  <2>1. T \subseteq Nat
    BY <1>1
  <2>2. PICK b \in T : \A j \in T : b <= j
    BY <1>5, <2>1, LeastOf
  <2>3. b \in 1..MAX_I32_SCALE /\ Hi(POWER_OVERFLOW(b)) < Hi(q)
    BY <2>2
  <2>4. b # 1
    BY <1>1, <1>2, <1>3, <2>3
  <2>5. b - 1 \in 1..MAX_I32_SCALE /\ (b - 1) + 1 = b /\ ~(b <= b - 1)
    BY <1>1, <2>3, <2>4
  <2>6. b - 1 \notin T
    BY <2>2, <2>5
  <2>7. Hi(q) <= Hi(POWER_OVERFLOW(b - 1))
    BY <1>2, <1>3, <2>5, <2>6
  <2>8. QED
    BY <2>3, <2>5, <2>7
<1>6. QED
  BY <1>4, <1>5

\* find_scale finds the largest power, or that no power makes the scale positive.
LEMMA FindScaleLargest ==
    ASSUME NEW q \in Mantissa, NEW s \in (-MAX_SCALE)..(MAX_SCALE - 1)
    PROVE  \E f \in 0..MAX_I32_SCALE :
               /\ Largest(f, q, s)
               /\ \/ FindScale(q, s) = f /\ (f = 0 => s >= 0)
                  \/ FindScale(q, s) = None /\ f + s < 0 /\ Max96 < q * POWERS[f + 1]
<1> DEFINE hi(k) == Hi(POWER_OVERFLOW(k))
<1> DEFINE found == CHOOSE k \in 1..MAX_I32_SCALE :
                        /\ Hi(q) <= Hi(POWER_OVERFLOW(k))
                        /\ k = MAX_I32_SCALE \/ Hi(q) > Hi(POWER_OVERFLOW(k + 1))
<1> DEFINE checked == IF Hi(q) = Hi(POWER_OVERFLOW(found)) /\ Low64(q) > Low64(POWER_OVERFLOW(found))
                      THEN found - 1 ELSE found
<1> DEFINE top == MAX_SCALE - s
<1>1. FindScale(q, s) =
        IF Hi(q) > Hi(POWER_OVERFLOW(1)) THEN (IF s < 0 THEN None ELSE 0)
        ELSE IF s > MAX_SCALE - MAX_I32_SCALE /\ Hi(q) < Hi(POWER_OVERFLOW(top)) THEN top
        ELSE IF s <= MAX_SCALE - MAX_I32_SCALE /\ q <= POWER_OVERFLOW(MAX_I32_SCALE) THEN MAX_I32_SCALE
        ELSE IF checked + s < 0 THEN None ELSE checked
  BY DEF FindScale
<1> HIDE DEF found, checked, top
<1>2. /\ MAX_I32_SCALE \in Nat /\ 1 <= MAX_I32_SCALE /\ MAX_I32_SCALE <= PowLimit /\ PowLimit \in Nat
      /\ MAX_SCALE \in Nat /\ MAX_I32_SCALE < MAX_SCALE /\ s \in Int /\ s < MAX_SCALE
  BY ScaleAssumption
<1>3. q \in Nat /\ q <= Max96 /\ Max96 \in Nat /\ q * POWERS[0] <= Max96
  <2>1. POWERS[0] = 1
    BY PowersAssumption
  <2>2. q \in Nat /\ q <= Max96 /\ Max96 \in Nat
    BY BaseType DEF Mantissa
  <2>3. QED
    BY <2>1, <2>2
<1>4. ASSUME NEW k \in 0..MAX_I32_SCALE
      PROVE  /\ POWER_OVERFLOW(k) \in Mantissa /\ hi(k) \in Nat /\ Hi(q) \in Nat
             /\ POWER_OVERFLOW(k) \in Nat /\ q * POWERS[k] \in Nat
             /\ Hi(q) < hi(k) => q * POWERS[k] <= Max96
             /\ hi(k) < Hi(q) => Max96 < q * POWERS[k]
             /\ hi(k) = Hi(q) => (q * POWERS[k] <= Max96 <=> Low64(q) <= Low64(POWER_OVERFLOW(k)))
             /\ q <= POWER_OVERFLOW(k) <=> q * POWERS[k] <= Max96
  <2>1. k \in 0..PowLimit
    BY <1>2
  <2>2. /\ POWER_OVERFLOW(k) \in Mantissa /\ q * POWERS[k] \in Nat
        /\ q <= POWER_OVERFLOW(k) <=> q * POWERS[k] <= Max96
    BY <1>3, <2>1, FitsTable
  <2>3. POWER_OVERFLOW(k) \in Nat
    BY <2>2, BaseType DEF Mantissa
  <2>4. /\ hi(k) \in Nat /\ Hi(q) \in Nat
        /\ Hi(q) < hi(k) => q < POWER_OVERFLOW(k)
        /\ hi(k) < Hi(q) => POWER_OVERFLOW(k) < q
        /\ Hi(q) = hi(k) => (q <= POWER_OVERFLOW(k) <=> Low64(q) <= Low64(POWER_OVERFLOW(k)))
    BY <2>2, HighFirst
  <2>5. QED
    BY <1>3, <2>2, <2>3, <2>4
<1>5. ASSUME NEW j \in 1..MAX_I32_SCALE, NEW k \in 1..MAX_I32_SCALE, j < k PROVE hi(k) < hi(j)
  BY <1>5, TableFalls
<1>6. 0 \in 0..MAX_I32_SCALE /\ 1 \in 0..MAX_I32_SCALE /\ MAX_I32_SCALE \in 0..MAX_I32_SCALE
      /\ 1 \in 1..MAX_I32_SCALE /\ MAX_I32_SCALE \in 1..MAX_I32_SCALE
  BY <1>2
<1>7. CASE Hi(q) > hi(1)
  <2>1. Max96 < q * POWERS[0 + 1]
    BY <1>4, <1>6, <1>7
  <2>2. Largest(0, q, s)
    BY <1>2, <1>3, <1>6, <2>1 DEF Largest
  <2>3. FindScale(q, s) = IF s < 0 THEN None ELSE 0
    BY <1>1, <1>7
  <2>4. QED
    BY <1>2, <1>6, <2>1, <2>2, <2>3
<1>8. CASE ~(Hi(q) > hi(1)) /\ s > MAX_SCALE - MAX_I32_SCALE /\ Hi(q) < hi(top)
  <2>1. top \in 1..MAX_I32_SCALE /\ s + top = MAX_SCALE /\ top \in 0..MAX_I32_SCALE /\ top # 0
    BY <1>2, <1>8 DEF top
  <2>2. q * POWERS[top] <= Max96
    BY <1>4, <1>8, <2>1
  <2>3. Largest(top, q, s)
    BY <1>2, <2>1, <2>2 DEF Largest
  <2>4. FindScale(q, s) = top
    BY <1>1, <1>8
  <2>5. QED
    BY <2>1, <2>3, <2>4
<1>9. CASE ~(Hi(q) > hi(1)) /\ s <= MAX_SCALE - MAX_I32_SCALE /\ q <= POWER_OVERFLOW(MAX_I32_SCALE)
  <2>1. q * POWERS[MAX_I32_SCALE] <= Max96
    BY <1>4, <1>6, <1>9
  <2>2. Largest(MAX_I32_SCALE, q, s)
    BY <1>2, <1>6, <1>9, <2>1 DEF Largest
  <2>3. ~(s > MAX_SCALE - MAX_I32_SCALE)
    BY <1>2, <1>9
  <2>4. FindScale(q, s) = MAX_I32_SCALE
    BY <1>1, <1>9, <2>3
  <2>5. QED
    BY <1>2, <1>6, <2>2, <2>4
<1>10. CASE /\ ~(Hi(q) > hi(1))
            /\ ~(s > MAX_SCALE - MAX_I32_SCALE /\ Hi(q) < hi(top))
            /\ ~(s <= MAX_SCALE - MAX_I32_SCALE /\ q <= POWER_OVERFLOW(MAX_I32_SCALE))
  <2>1. Hi(q) <= hi(1)
    BY <1>4, <1>6, <1>10
  <2>2. /\ found \in 1..MAX_I32_SCALE /\ Hi(q) <= hi(found)
        /\ found = MAX_I32_SCALE \/ Hi(q) > hi(found + 1)
    BY <2>1, SearchEnds DEF found
  <2>3. /\ found \in 0..MAX_I32_SCALE /\ found - 1 \in 0..MAX_I32_SCALE /\ (found - 1) + 1 = found
        /\ found # MAX_I32_SCALE => found + 1 \in 0..MAX_I32_SCALE /\ hi(found + 1) \in Nat
    <3>1. /\ found \in 0..MAX_I32_SCALE /\ found - 1 \in 0..MAX_I32_SCALE /\ (found - 1) + 1 = found
          /\ found # MAX_I32_SCALE => found + 1 \in 0..MAX_I32_SCALE
      BY <1>2, <2>2
    <3>2. QED
      BY <1>4, <3>1
  <2>4. checked = IF q * POWERS[found] <= Max96 THEN found ELSE found - 1
    <3>1. /\ hi(found) \in Nat /\ Hi(q) \in Nat
          /\ Hi(q) < hi(found) => q * POWERS[found] <= Max96
          /\ hi(found) = Hi(q) => (q * POWERS[found] <= Max96 <=> Low64(q) <= Low64(POWER_OVERFLOW(found)))
      BY <1>4, <2>3
    <3>2. Low64(q) \in Int /\ Low64(POWER_OVERFLOW(found)) \in Int
      BY <1>4, <2>3, HighLow, BaseType
    <3>3. QED
      BY <2>2, <3>1, <3>2 DEF checked
  <2>5. checked \in 0..MAX_I32_SCALE /\ checked <= found
    BY <2>3, <2>4
  <2>6. s > MAX_SCALE - MAX_I32_SCALE => s + found <= MAX_SCALE /\ found < MAX_I32_SCALE
    <3>1. SUFFICES ASSUME s > MAX_SCALE - MAX_I32_SCALE PROVE s + found <= MAX_SCALE /\ found < MAX_I32_SCALE
      OBVIOUS
    <3>2. top \in 1..MAX_I32_SCALE /\ top < MAX_I32_SCALE /\ s + top = MAX_SCALE /\ top \in 0..MAX_I32_SCALE
      BY <1>2, <3>1 DEF top
    <3>3. ~(Hi(q) < hi(top)) /\ hi(top) \in Nat /\ Hi(q) \in Nat /\ hi(found) \in Nat
      BY <1>4, <1>10, <2>3, <3>1, <3>2
    <3>4. ~(top < found)
      BY <1>5, <2>2, <3>2, <3>3
    <3>5. QED
      BY <1>2, <2>3, <3>2, <3>4
  <2>7. s + checked <= MAX_SCALE
    <3>1. CASE s > MAX_SCALE - MAX_I32_SCALE
      BY <1>2, <2>3, <2>5, <2>6, <3>1
    <3>2. CASE ~(s > MAX_SCALE - MAX_I32_SCALE)
      BY <1>2, <2>5, <3>2
    <3>3. QED
      BY <3>1, <3>2
  <2>8. q * POWERS[checked] <= Max96 /\ Max96 < q * POWERS[checked + 1]
    <3>1. CASE q * POWERS[found] <= Max96
      <4>1. checked = found
        BY <2>4, <3>1
      <4>2. found # MAX_I32_SCALE
        <5>1. SUFFICES ASSUME found = MAX_I32_SCALE PROVE FALSE
          OBVIOUS
        <5>2. s <= MAX_SCALE - MAX_I32_SCALE
          BY <1>2, <2>6, <5>1
        <5>3. q <= POWER_OVERFLOW(MAX_I32_SCALE)
          BY <1>4, <1>6, <3>1, <5>1
        <5>4. QED
          BY <1>10, <5>2, <5>3
      <4>3. Max96 < q * POWERS[found + 1]
        BY <1>4, <2>2, <2>3, <4>2
      <4>4. QED
        BY <3>1, <4>1, <4>3
    <3>2. CASE ~(q * POWERS[found] <= Max96)
      <4>1. checked = found - 1 /\ checked + 1 = found
        BY <2>3, <2>4, <3>2
      <4>2. Max96 < q * POWERS[found]
        <5>1. q * POWERS[found] \in Nat
          BY <1>4, <2>3
        <5>2. QED
          BY <1>3, <3>2, <5>1
      <4>3. q * POWERS[found - 1] <= Max96
        <5>1. CASE found = 1
          BY <1>3, <5>1
        <5>2. CASE found # 1
          <6>1. found - 1 \in 1..MAX_I32_SCALE /\ found - 1 < found
            BY <1>2, <2>2, <5>2
          <6>2. hi(found) < hi(found - 1)
            BY <1>5, <2>2, <6>1
          <6>3. Hi(q) < hi(found - 1)
            BY <1>4, <2>2, <2>3, <6>2
          <6>4. QED
            BY <1>4, <2>3, <6>3
        <5>3. QED
          BY <5>1, <5>2
      <4>4. QED
        BY <4>1, <4>2, <4>3
    <3>3. QED
      BY <3>1, <3>2
  <2>9. Largest(checked, q, s)
    BY <2>5, <2>7, <2>8 DEF Largest
  <2>10. FindScale(q, s) = IF checked + s < 0 THEN None ELSE checked
    BY <1>1, <1>10
  <2>11. checked = 0 /\ ~(checked + s < 0) => s >= 0
    BY <1>2
  <2>12. QED
    BY <2>5, <2>8, <2>9, <2>10, <2>11
<1>11. QED
  BY <1>7, <1>8, <1>9, <1>10

\* What the loop relies on.
LEMMA FindScaleFacts ==
    ASSUME NEW q \in Mantissa, NEW s \in (-MAX_SCALE)..(MAX_SCALE - 1)
    PROVE  /\ FindScale(q, s) = None => s < 0 /\ Max96 < q * POWERS[-s]
           /\ FindScale(q, s) # None => Largest(FindScale(q, s), q, s)
           /\ FindScale(q, s) = 0 => s >= 0 /\ Max96 < q * Ten
<1>1. PICK f \in 0..MAX_I32_SCALE :
               /\ Largest(f, q, s)
               /\ \/ FindScale(q, s) = f /\ (f = 0 => s >= 0)
                  \/ FindScale(q, s) = None /\ f + s < 0 /\ Max96 < q * POWERS[f + 1]
  BY FindScaleLargest
<1>2. /\ MAX_I32_SCALE \in Nat /\ 1 <= MAX_I32_SCALE /\ MAX_I32_SCALE <= PowLimit /\ PowLimit \in Nat
      /\ MAX_SCALE \in Nat /\ MAX_I32_SCALE < MAX_SCALE /\ MAX_SCALE <= PowLimit /\ s \in Int /\ s < MAX_SCALE
      /\ None = -1 /\ f \in Nat
  BY ScaleAssumption DEF None
<1>3. q \in Nat /\ Max96 \in Nat /\ POWERS[0] = 1 /\ POWERS[1] = Ten
  BY BaseType, PowersAssumption DEF Mantissa
<1>4. CASE FindScale(q, s) = f /\ (f = 0 => s >= 0)
  <2>1. f # None
    BY <1>2
  <2>2. f = 0 => s >= 0 /\ Max96 < q * POWERS[0 + 1]
    BY <1>1, <1>2, <1>4 DEF Largest
  <2>3. QED
    BY <1>1, <1>3, <1>4, <2>1, <2>2
<1>5. CASE FindScale(q, s) = None /\ f + s < 0 /\ Max96 < q * POWERS[f + 1]
  <2>1. s < 0 /\ f + 1 <= -s /\ -s \in 0..PowLimit /\ f + 1 \in 0..PowLimit
    BY <1>2, <1>5
  <2>2. Max96 < q * POWERS[f + 1]
    BY <1>5
  <2>3. POWERS[f + 1] <= POWERS[-s] /\ POWERS[f + 1] \in Nat /\ POWERS[-s] \in Nat
    BY <2>1, PowersMono, PowersType
  <2>4. POWERS[f + 1] * q <= POWERS[-s] * q /\ POWERS[f + 1] * q = q * POWERS[f + 1] /\ POWERS[-s] * q = q * POWERS[-s]
        /\ q * POWERS[f + 1] \in Nat /\ q * POWERS[-s] \in Nat
    BY <1>3, <2>3, MulMono, \A u, v \in Nat : u * v \in Nat
  <2>5. Max96 < q * POWERS[-s]
    BY <1>3, <2>2, <2>4
  <2>6. QED
    BY <1>2, <1>5, <2>1, <2>5
<1>6. QED
  BY <1>1, <1>4, <1>5

-----------------------------------------------------------------------------
(***************************************************************************)
(* The shift of a divisor.                                                 *)
(***************************************************************************)
\* Doubling: 2^(e + 1) for the exponents of a word.
LEMMA Doubled ==
    ASSUME NEW e \in Nat, e + 1 <= WordBits
    PROVE  2^e \in Nat \ {0} /\ 2^(e + 1) = 2 * 2^e
<1>1. WordBits \in Nat /\ WordBits >= 1
  BY BitsAssumption
<1>2. e \in 0..(3 * WordBits) /\ 1 \in 0..(3 * WordBits) /\ e + 1 <= 3 * WordBits
  BY <1>1
<1>3. 2^e \in Nat \ {0} /\ 2^1 = 2
  BY <1>2, TwosAssumption
<1>4. 2^(e + 1) = 2^e * 2^1
  BY <1>2, TwosAssumption
<1>5. QED
  BY <1>3, <1>4

\* A divisor is shifted to the top of its words by less than a word.
LEMMA TopShiftFacts ==
    ASSUME NEW d \in Nat \ {0}, NEW whole \in Nat, d < whole, whole <= d * Base
    PROVE  /\ TopShift(d, whole) \in Nat \ {0}
           /\ TopShift(d, whole) < Base /\ 2 * TopShift(d, whole) <= Base
           /\ d * TopShift(d, whole) \in Nat \ {0}
           /\ d * TopShift(d, whole) < whole /\ whole <= 2 * (d * TopShift(d, whole))
<1>1. d \in Nat /\ d >= 1 /\ Base \in Nat /\ Base >= 2
  BY BaseType
<1> DEFINE T == {k \in 0..WordBits : whole <= d * 2^k}
<1>2. WordBits \in Nat /\ WordBits >= 1 /\ Base = 2^WordBits /\ 2^0 = 1 /\ 2^1 = 2
  BY BitsAssumption, TwosAssumption
<1>3. WordBits \in T /\ T \subseteq Nat
  <2>1. WordBits \in 0..WordBits
    BY <1>2
  <2>2. whole <= d * 2^WordBits
    BY <1>1, <1>2
  <2>3. QED
    BY <1>2, <2>1, <2>2
<1>4. PICK b \in T : \A j \in T : b <= j
  BY <1>3, LeastOf
<1>5. b \in Nat /\ b <= WordBits /\ whole <= d * 2^b
  BY <1>2, <1>4
<1>6. b # 0
  <2>1. SUFFICES ASSUME b = 0 PROVE FALSE
    OBVIOUS
  <2>2. d * 2^b = d
    BY <1>1, <1>2, <2>1
  <2>3. QED
    BY <1>1, <1>5, <2>2
<1>7. b - 1 \in 0..(WordBits - 1) /\ b - 1 \in 0..WordBits /\ (b - 1) + 1 = b /\ 1 \in 0..WordBits /\ ~(b <= b - 1)
  BY <1>2, <1>5, <1>6
<1>8. ~(whole <= d * 2^(b - 1))
  BY <1>4, <1>7
<1>9. 2^b = 2 * 2^(b - 1) /\ 2^(b - 1) \in Nat /\ 2^b \in Nat
  <2> DEFINE e == b - 1
  <2>1. e \in Nat /\ e + 1 <= WordBits /\ e + 1 = b
    BY <1>2, <1>5, <1>7
  <2> HIDE DEF e
  <2>2. 2^e \in Nat \ {0} /\ 2^(e + 1) = 2 * 2^e
    BY <2>1, Doubled
  <2>3. 2^b = 2 * 2^e
    BY <2>1, <2>2
  <2>4. 2^b = 2 * 2^(b - 1) /\ 2^(b - 1) \in Nat \ {0}
    BY <2>2, <2>3 DEF e
  <2>5. QED
    BY <2>4
<1>10. d * 2^(b - 1) < whole /\ 2 * (d * 2^(b - 1)) >= whole
  <2>1. d * 2^(b - 1) \in Nat /\ d * 2^b = 2 * (d * 2^(b - 1))
    BY <1>1, <1>9
  <2>2. QED
    BY <1>1, <1>5, <1>8, <2>1
<1> DEFINE top == CHOOSE k \in 0..(WordBits - 1) : d * 2^k < whole /\ 2 * (d * 2^k) >= whole
<1>11. top \in 0..(WordBits - 1) /\ d * 2^top < whole /\ 2 * (d * 2^top) >= whole
  BY <1>7, <1>10
<1>12. TopShift(d, whole) = 2^top
  BY DEF TopShift
<1> HIDE DEF top
<1>13. top \in 0..WordBits /\ WordBits - top \in 0..WordBits /\ top + (WordBits - top) = WordBits
       /\ WordBits - top - 1 \in 0..WordBits /\ (WordBits - top - 1) + 1 = WordBits - top /\ 1 \in 0..WordBits
       /\ WordBits - top <= WordBits
  BY <1>2, <1>11
<1>14. 2^top \in Nat \ {0}
  BY <1>13, BitsAssumption, TwosAssumption
<1>15. 2^top < Base /\ 2 * 2^top <= Base
  <2>1. 2^(top + (WordBits - top)) = 2^top * 2^(WordBits - top)
    BY <1>13, <1>2, BitsAssumption, TwosAssumption
  <2>2. \E u \in Nat \ {0} : 2^(WordBits - top) = 2 * u
    <3> DEFINE e == WordBits - top - 1
    <3>1. e \in Nat /\ e + 1 <= WordBits /\ e + 1 = WordBits - top
      BY <1>2, <1>13
    <3> HIDE DEF e
    <3>2. 2^e \in Nat \ {0} /\ 2^(e + 1) = 2 * 2^e
      BY <3>1, Doubled
    <3>3. QED
      BY <3>1, <3>2
  <2>3. 2^(WordBits - top) \in Nat /\ 2 <= 2^(WordBits - top)
    BY <1>2, <1>13, <2>2
  <2>4. Base = 2^top * 2^(WordBits - top)
    BY <1>2, <1>13, <2>1
  <2> DEFINE u == 2^top
  <2> DEFINE v == 2^(WordBits - top)
  <2>5. u \in Nat \ {0} /\ v \in Nat /\ 2 <= v /\ Base = u * v
    BY <1>14, <2>3, <2>4
  <2> HIDE DEF u, v
  <2>6. 2 * u <= v * u /\ v * u = u * v
    BY <2>5, MulMono, 2 \in Int
  <2>7. u < Base /\ 2 * u <= Base
    BY <1>1, <2>5, <2>6
  <2>8. QED
    BY <2>7 DEF u
<1>16. d * 2^top \in Nat \ {0}
  <2> DEFINE u == 2^top
  <2>1. u \in Nat \ {0}
    BY <1>14
  <2> HIDE DEF u
  <2>2. d * u \in Nat \ {0}
    BY <1>1, <2>1, \A v, w \in Nat \ {0} : v * w \in Nat \ {0}
  <2>3. QED
    BY <2>2 DEF u
<1>17. QED
  BY <1>11, <1>12, <1>14, <1>15, <1>16


-----------------------------------------------------------------------------
(***************************************************************************)
(* Recursion over a range of integers.                                     *)
(***************************************************************************)
\* A set that holds 0, and with each integer below N the next, holds all up to N.
LEMMA RangeInduction ==
    ASSUME NEW N \in Nat, NEW T, 0 \in T, \A i \in 1..N : i - 1 \in T => i \in T
    PROVE  \A i \in 0..N : i \in T
<1> DEFINE Missing == {i \in 0..N : i \notin T}
<1>1. CASE Missing = {}
  BY <1>1
<1>2. CASE Missing # {}
  <2>1. PICK n \in Missing : \A j \in Missing : n <= j
    <3>1. Missing \subseteq Nat
      OBVIOUS
    <3>2. QED
      BY <1>2, <3>1, LeastOf
  <2>2. n \in 1..N /\ n - 1 \in 0..N /\ ~(n <= n - 1)
    BY <2>1
  <2>3. n - 1 \in T
    BY <2>1, <2>2
  <2>4. n \in T
    BY <2>2, <2>3
  <2>5. QED
    BY <2>1, <2>4
<1>3. QED
  BY <1>1, <1>2

\* f starts with e and takes a step g at each index up to N.
Recurs(f, N, e, g) == f \in [0..N -> Nat] /\ f[0] = e /\ \A i \in 1..N : f[i] = g[<<i, f[i - 1]>>]

\* Such a function exists.
LEMMA RecursionExists ==
    ASSUME NEW N \in Nat, NEW e \in Nat, NEW g \in [Nat \X Nat -> Nat]
    PROVE  \E f : Recurs(f, N, e, g)
<1> DEFINE Steps(f, n) == f[0] = e /\ \A i \in 1..n : f[i] = g[<<i, f[i - 1]>>]
<1> DEFINE T == {n \in Nat : ~ \E f \in [0..n -> Nat] : Steps(f, n)}
<1>1. CASE T = {}
  BY <1>1 DEF Recurs
<1>2. CASE T # {}
  <2>1. PICK n \in T : \A j \in T : n <= j
    <3>1. T \subseteq Nat
      OBVIOUS
    <3>2. QED
      BY <1>2, <3>1, LeastOf
  <2>2. n # 0
    <3>1. SUFFICES ASSUME n = 0 PROVE FALSE
      OBVIOUS
    <3>2. [i \in 0..0 |-> e] \in [0..0 -> Nat] /\ Steps([i \in 0..0 |-> e], 0)
      OBVIOUS
    <3>3. QED
      BY <3>1, <3>2
  <2>3. n \in Nat /\ n - 1 \in Nat /\ n - 1 \notin T
    <3>1. n \in Nat
      BY <2>1
    <3>2. n - 1 \in Nat /\ ~(n <= n - 1)
      BY <2>2, <3>1
    <3> HIDE DEF T
    <3>3. QED
      BY <2>1, <3>1, <3>2
  <2>4. PICK f \in [0..(n - 1) -> Nat] : Steps(f, n - 1)
    BY <2>3
  <2> DEFINE h == [i \in 0..n |-> IF i = n THEN g[<<n, f[n - 1]>>] ELSE f[i]]
  <2>5. n - 1 \in 0..(n - 1) /\ f[n - 1] \in Nat /\ <<n, f[n - 1]>> \in Nat \X Nat
    BY <2>3
  <2>6. h \in [0..n -> Nat]
    <3>1. \A i \in 0..n : i # n => i \in 0..(n - 1)
      BY <2>3
    <3>2. QED
      BY <2>5, <3>1
  <2>7. Steps(h, n)
    <3>1. h[0] = f[0]
      BY <2>2, <2>3
    <3>2. ASSUME NEW i \in 1..n PROVE h[i] = g[<<i, h[i - 1]>>]
      <4>1. i \in 0..n /\ i - 1 \in 0..n /\ i - 1 # n
        BY <2>3
      <4>2. h[i - 1] = f[i - 1]
        BY <4>1
      <4>3. CASE i = n
        BY <4>1, <4>2, <4>3
      <4>4. CASE i # n
        <5>1. i \in 1..(n - 1)
          BY <2>3, <4>4
        <5>2. h[i] = f[i] /\ f[i] = g[<<i, f[i - 1]>>]
          BY <2>4, <4>1, <4>4, <5>1
        <5>3. QED
          BY <4>2, <5>2
      <4>5. QED
        BY <4>3, <4>4
    <3>3. QED
      BY <2>4, <3>1, <3>2
  <2>8. n \notin T
    BY <2>6, <2>7
  <2>9. QED
    BY <2>1, <2>8
<1>3. QED
  BY <1>1, <1>2


-----------------------------------------------------------------------------
(***************************************************************************)
(* Congruences.                                                            *)
(***************************************************************************)
\* Multiples of n do not count.
LEMMA ModShift ==
    ASSUME NEW n \in Nat \ {0}, NEW k \in Int, NEW v \in Int
    PROVE  (k * n + v) % n = v % n
<1>1. v \div n \in Int /\ v % n \in Nat /\ v % n < n /\ v = (v \div n) * n + (v % n)
  OBVIOUS
<1> DEFINE q == v \div n
<1> DEFINE r == v % n
<1>2. q \in Int /\ r \in Nat /\ r < n /\ v = q * n + r
  BY <1>1
<1> HIDE DEF q, r
<1>3. (k + q) * n = k * n + q * n /\ k * n \in Int /\ q * n \in Int
  BY <1>2, Distribute
<1>4. k * n + v = (k + q) * n + r /\ k + q \in Int /\ k * n + v \in Int
  BY <1>2, <1>3
<1>5. (k * n + v) % n = r
  BY <1>2, <1>4, IntQuotientUnique
<1>6. QED
  BY <1>5 DEF r

\* A sum may be taken of the remainder of a product's factor.
LEMMA ModHorner ==
    ASSUME NEW n \in Nat \ {0}, NEW a \in Nat, NEW c \in Nat, NEW w \in Nat
    PROVE  ((a % n) * c + w) % n = (a * c + w) % n
<1> DEFINE q == a \div n
<1> DEFINE r == a % n
<1>1. q \in Nat /\ r \in Nat /\ a = q * n + r
  BY DivMod
<1> HIDE DEF q, r
<1>2. a * c = (q * n) * c + r * c /\ (q * n) * c = q * (n * c) /\ n * c = c * n /\ q * (c * n) = (q * c) * n
      /\ q * c \in Int /\ r * c \in Int /\ (q * c) * n \in Int
  <2>1. q * n \in Int /\ (q * n + r) * c = (q * n) * c + r * c /\ r * c \in Int
    BY <1>1, Distribute
  <2>2. (q * n) * c = q * (n * c) /\ n * c = c * n /\ q * (c * n) = (q * c) * n /\ q * c \in Int
    BY <1>1, MulAssoc
  <2>3. QED
    BY <1>1, <2>1, <2>2
<1>3. a * c + w = (q * c) * n + (r * c + w) /\ r * c + w \in Int
  <2> DEFINE y == (q * c) * n
  <2> DEFINE z == r * c
  <2>1. a * c = y + z /\ y \in Int /\ z \in Int
    BY <1>2
  <2> HIDE DEF y, z
  <2>2. a * c + w = y + (z + w) /\ z + w \in Int
    BY <2>1
  <2>3. QED
    BY <2>2 DEF y, z
<1>4. (a * c + w) % n = (r * c + w) % n
  <2> DEFINE k == q * c
  <2> DEFINE v == r * c + w
  <2>1. k \in Int /\ v \in Int /\ a * c + w = k * n + v
    BY <1>2, <1>3
  <2> HIDE DEF k, v
  <2>2. (a * c + w) % n = v % n
    BY <2>1, ModShift
  <2>3. QED
    BY <2>2 DEF v
<1>5. QED
  BY <1>4 DEF r

\* The same without a summand.
LEMMA ModProduct ==
    ASSUME NEW n \in Nat \ {0}, NEW a \in Nat, NEW c \in Nat
    PROVE  ((a % n) * c) % n = (a * c) % n
<1>1. ((a % n) * c + 0) % n = (a * c + 0) % n
  BY ModHorner, 0 \in Nat
<1>2. a % n \in Nat /\ (a % n) * c \in Nat /\ a * c \in Nat
  BY DivMod, \A u, v \in Nat : u * v \in Nat
<1>3. (a % n) * c + 0 = (a % n) * c /\ a * c + 0 = a * c
  BY <1>2
<1>4. QED
  BY <1>1, <1>3

\* Divided and divisor may be scaled alike.
LEMMA ModScale ==
    ASSUME NEW n \in Nat \ {0}, NEW a \in Nat, NEW c \in Nat \ {0}
    PROVE  /\ n * c \in Nat \ {0}
           /\ (a * c) % (n * c) = (a % n) * c
           /\ (a % n) * c \in Nat /\ (a % n) * c < n * c
<1> DEFINE q == a \div n
<1> DEFINE r == a % n
<1>1. q \in Nat /\ r \in Nat /\ r < n /\ a = q * n + r
  BY DivMod
<1> HIDE DEF q, r
<1>2. n * c \in Nat \ {0} /\ r * c \in Nat /\ r * c < n * c
  <2>1. n * c \in Nat \ {0}
    BY \A u, v \in Nat \ {0} : u * v \in Nat \ {0}
  <2>2. r * c \in Nat
    BY <1>1, \A u, v \in Nat : u * v \in Nat
  <2>3. r * c < n * c
    BY <1>1, Cancel
  <2>4. QED
    BY <2>1, <2>2, <2>3
<1>3. a * c = q * (n * c) + r * c
  <2>1. (q * n + r) * c = (q * n) * c + r * c /\ (q * n) * c = q * (n * c)
    BY <1>1, Distribute, MulAssoc
  <2>2. QED
    BY <1>1, <2>1
<1>4. a * c \in Nat
  BY \A u, v \in Nat : u * v \in Nat
<1>5. (a * c) % (n * c) = r * c
  <2> DEFINE x == a * c
  <2> DEFINE y == n * c
  <2> DEFINE z == r * c
  <2>1. x \in Nat /\ y \in Nat \ {0} /\ z \in Nat /\ z < y /\ x = q * y + z /\ q \in Nat
    BY <1>1, <1>2, <1>3, <1>4
  <2> HIDE DEF x, y, z
  <2>2. x % y = z
    BY <2>1, QuotientUnique
  <2>3. QED
    BY <2>2 DEF x, y, z
<1>6. QED
  BY <1>2, <1>5 DEF r

\* The largest power that leaves a product within 96 bits.
LEMMA LargestFitting ==
    ASSUME NEW m \in Mantissa, NEW n \in 0..PowLimit
    PROVE  \E k \in 0..n : /\ m * POWERS[k] <= Max96
                           /\ k = n \/ m * POWERS[k + 1] > Max96
<1>1. m \in Nat /\ m <= Max96 /\ Max96 \in Nat /\ PowLimit \in Nat /\ m * POWERS[0] = m
  BY BaseType, ScaleAssumption, PowersAssumption DEF Mantissa
<1> DEFINE T == {j \in 1..n : m * POWERS[j] > Max96}
<1>2. CASE T = {}
  <2>1. CASE n = 0
    BY <1>1, <2>1
  <2>2. CASE n # 0
    <3>1. n \in 1..n /\ n \in 0..PowLimit
      BY <1>1, <2>2
    <3>2. POWERS[n] \in Nat
      BY <3>1, PowersType
    <3>3. m * POWERS[n] \in Int
      BY <1>1, <3>2
    <3>4. m * POWERS[n] <= Max96
      BY <1>1, <1>2, <3>1, <3>3
    <3>5. QED
      BY <3>1, <3>4
  <2>3. QED
    BY <2>1, <2>2
<1>3. CASE T # {}
  <2>1. T \subseteq Nat
    OBVIOUS
  <2> HIDE DEF T
  <2>2. PICK j \in T : \A i \in T : j <= i
    BY <1>3, <2>1, LeastOf
  <2>3. j \in 1..n /\ m * POWERS[j] > Max96 /\ j - 1 \in 0..n /\ (j - 1) + 1 = j
    BY <2>2 DEF T
  <2>4. m * POWERS[j - 1] <= Max96
    <3>1. CASE j = 1
      BY <1>1, <3>1
    <3>2. CASE j # 1
      <4>1. j - 1 \in 1..n /\ j - 1 \notin T /\ j - 1 \in 0..PowLimit
        BY <1>1, <2>2, <2>3, <3>2
      <4>2. POWERS[j - 1] \in Nat
        BY <4>1, PowersType
      <4>3. m * POWERS[j - 1] \in Int
        BY <1>1, <4>2
      <4>4. QED
        BY <1>1, <4>1, <4>3 DEF T
    <3>3. QED
      BY <3>1, <3>2
  <2>5. QED
    BY <2>3, <2>4
<1>4. QED
  BY <1>2, <1>3

-----------------------------------------------------------------------------
(***************************************************************************)
(* What the digits of a text say.                                          *)
(***************************************************************************)
\* Both functions, one position after the other.
LEMMA ValueSteps ==
    ASSUME NEW t \in Seq(Nat), NEW D, NEW r \in Nat
    PROVE  /\ ValueTo(t, D, r) \in [0..Len(t) -> Nat]
           /\ ValueTo(t, D, r)[0] = 0
           /\ \A i \in 1..Len(t) :
                 ValueTo(t, D, r)[i] = IF t[i] \in D THEN ValueTo(t, D, r)[i - 1] * r + t[i]
                                       ELSE ValueTo(t, D, r)[i - 1]
<1> DEFINE N == Len(t)
<1>0. N \in Nat /\ t \in [1..N -> Nat]
  OBVIOUS
<1> HIDE DEF N
<1> DEFINE step == [p \in Nat \X Nat |-> IF p[1] \in 1..N /\ t[p[1]] \in D THEN p[2] * r + t[p[1]] ELSE p[2]]
<1>1. step \in [Nat \X Nat -> Nat]
  <2>1. ASSUME NEW p \in Nat \X Nat
        PROVE  (IF p[1] \in 1..N /\ t[p[1]] \in D THEN p[2] * r + t[p[1]] ELSE p[2]) \in Nat
    <3>1. p[2] \in Nat /\ p[2] * r \in Nat
      BY \A u, v \in Nat : u * v \in Nat
    <3>2. QED
      BY <1>0, <3>1
  <2>2. QED
    BY <2>1
<1>2. PICK f : Recurs(f, N, 0, step)
  <2> HIDE DEF step
  <2>1. QED
    BY <1>0, <1>1, RecursionExists, 0 \in Nat
<1>3. \A i \in 1..N : f[i] = IF t[i] \in D THEN f[i - 1] * r + t[i] ELSE f[i - 1]
  <2>1. \A i \in 1..N : <<i, f[i - 1]>> \in Nat \X Nat
    BY <1>0, <1>2 DEF Recurs
  <2>2. QED
    BY <1>2, <2>1 DEF Recurs
<1> DEFINE body(h) == [i \in 0..N |-> IF i = 0 THEN 0 ELSE IF t[i] \in D THEN h[i - 1] * r + t[i] ELSE h[i - 1]]
<1>4. f = body(f)
  <2>1. \A i \in 0..N : i # 0 => i \in 1..N
    OBVIOUS
  <2>2. \A i \in 0..N : f[i] = body(f)[i]
    BY <1>2, <1>3, <2>1 DEF Recurs
  <2>3. f \in [0..N -> Nat]
    BY <1>2 DEF Recurs
  <2>4. QED
    BY <2>2, <2>3
<1> DEFINE h == ValueTo(t, D, r)
<1>5. h = body(h)
  BY <1>4 DEF ValueTo, N
<1> HIDE DEF h
<1>6. h[0] = 0 /\ \A i \in 1..N : h[i] = IF t[i] \in D THEN h[i - 1] * r + t[i] ELSE h[i - 1]
  BY <1>0, <1>5
<1> DEFINE T == {i \in 0..N : h[i] \in Nat}
<1>7. \A i \in 0..N : i \in T
  <2>1. 0 \in T
    BY <1>0, <1>6
  <2>2. ASSUME NEW i \in 1..N, i - 1 \in T PROVE i \in T
    <3> DEFINE product == h[i - 1] * r
    <3>1. h[i - 1] \in Nat /\ product \in Nat /\ t[i] \in Nat
      BY <1>0, <2>2, \A u, v \in Nat : u * v \in Nat
    <3>2. h[i] = IF t[i] \in D THEN product + t[i] ELSE h[i - 1]
      BY <1>6
    <3> HIDE DEF product
    <3>3. h[i] \in Nat
      BY <3>1, <3>2
    <3>4. QED
      BY <3>3
  <2> HIDE DEF T
  <2>3. QED
    BY <1>0, <2>1, <2>2, RangeInduction
<1>8. h \in [0..N -> Nat]
  BY <1>0, <1>5, <1>7
<1>9. QED
  BY <1>6, <1>8 DEF h, N

LEMMA CountSteps ==
    ASSUME NEW t \in Seq(Nat), NEW D
    PROVE  /\ CountTo(t, D) \in [0..Len(t) -> Nat]
           /\ CountTo(t, D)[0] = 0
           /\ \A i \in 1..Len(t) :
                 CountTo(t, D)[i] = IF t[i] \in D THEN CountTo(t, D)[i - 1] + 1 ELSE CountTo(t, D)[i - 1]
<1> DEFINE N == Len(t)
<1>0. N \in Nat /\ t \in [1..N -> Nat]
  OBVIOUS
<1> HIDE DEF N
<1> DEFINE step == [p \in Nat \X Nat |-> IF p[1] \in 1..N /\ t[p[1]] \in D THEN p[2] + 1 ELSE p[2]]
<1>1. step \in [Nat \X Nat -> Nat]
  OBVIOUS
<1>2. PICK f : Recurs(f, N, 0, step)
  <2> HIDE DEF step
  <2>1. QED
    BY <1>0, <1>1, RecursionExists, 0 \in Nat
<1>3. \A i \in 1..N : f[i] = IF t[i] \in D THEN f[i - 1] + 1 ELSE f[i - 1]
  <2>1. \A i \in 1..N : <<i, f[i - 1]>> \in Nat \X Nat
    BY <1>0, <1>2 DEF Recurs
  <2>2. QED
    BY <1>2, <2>1 DEF Recurs
<1> DEFINE body(h) == [i \in 0..N |-> IF i = 0 THEN 0 ELSE IF t[i] \in D THEN h[i - 1] + 1 ELSE h[i - 1]]
<1>4. f = body(f)
  <2>1. \A i \in 0..N : i # 0 => i \in 1..N
    OBVIOUS
  <2>2. \A i \in 0..N : f[i] = body(f)[i]
    BY <1>2, <1>3, <2>1 DEF Recurs
  <2>3. f \in [0..N -> Nat]
    BY <1>2 DEF Recurs
  <2>4. QED
    BY <2>2, <2>3
<1> DEFINE h == CountTo(t, D)
<1>5. h = body(h)
  BY <1>4 DEF CountTo, N
<1> HIDE DEF h
<1>6. h[0] = 0 /\ \A i \in 1..N : h[i] = IF t[i] \in D THEN h[i - 1] + 1 ELSE h[i - 1]
  BY <1>0, <1>5
<1> DEFINE T == {i \in 0..N : h[i] \in Nat}
<1>7. \A i \in 0..N : i \in T
  <2>1. 0 \in T
    BY <1>0, <1>6
  <2>2. ASSUME NEW i \in 1..N, i - 1 \in T PROVE i \in T
    BY <1>0, <1>6, <2>2
  <2> HIDE DEF T
  <2>3. QED
    BY <1>0, <2>1, <2>2, RangeInduction
<1>8. h \in [0..N -> Nat]
  BY <1>0, <1>5, <1>7
<1>9. QED
  BY <1>6, <1>8 DEF h, N

\* The elements before a position say the same alone.
LEMMA PrefixSays ==
    ASSUME NEW t \in Seq(Nat), NEW D, NEW r \in Nat, NEW n \in 0..Len(t)
    PROVE  /\ SubSeq(t, 1, n) \in Seq(Nat) /\ Len(SubSeq(t, 1, n)) = n
           /\ \A i \in 1..n : SubSeq(t, 1, n)[i] = t[i]
           /\ \A i \in 0..n : ValueTo(SubSeq(t, 1, n), D, r)[i] = ValueTo(t, D, r)[i]
           /\ \A i \in 0..n : CountTo(SubSeq(t, 1, n), D)[i] = CountTo(t, D)[i]
<1> DEFINE h == SubSeq(t, 1, n)
<1>1. h \in Seq(Nat) /\ Len(h) = n /\ (\A i \in 1..n : h[i] = t[i]) /\ n \in Nat /\ Len(t) \in Nat
  OBVIOUS
<1> HIDE DEF h
<1> DEFINE v == ValueTo(h, D, r)
           w == ValueTo(t, D, r)
           c == CountTo(h, D)
           e == CountTo(t, D)
<1>2. /\ v[0] = 0 /\ w[0] = 0 /\ c[0] = 0 /\ e[0] = 0
      /\ \A i \in 1..n : v[i] = IF h[i] \in D THEN v[i - 1] * r + h[i] ELSE v[i - 1]
      /\ \A i \in 1..n : w[i] = IF t[i] \in D THEN w[i - 1] * r + t[i] ELSE w[i - 1]
      /\ \A i \in 1..n : c[i] = IF h[i] \in D THEN c[i - 1] + 1 ELSE c[i - 1]
      /\ \A i \in 1..n : e[i] = IF t[i] \in D THEN e[i - 1] + 1 ELSE e[i - 1]
  <2>1. 1..n \subseteq 1..Len(t)
    OBVIOUS
  <2>2. /\ v[0] = 0 /\ w[0] = 0
        /\ \A i \in 1..n : v[i] = IF h[i] \in D THEN v[i - 1] * r + h[i] ELSE v[i - 1]
        /\ \A i \in 1..n : w[i] = IF t[i] \in D THEN w[i - 1] * r + t[i] ELSE w[i - 1]
    <3> HIDE DEF v, w
    <3>1. v[0] = 0 /\ \A i \in 1..Len(h) : v[i] = IF h[i] \in D THEN v[i - 1] * r + h[i] ELSE v[i - 1]
      BY <1>1, ValueSteps DEF v
    <3>2. w[0] = 0 /\ \A i \in 1..Len(t) : w[i] = IF t[i] \in D THEN w[i - 1] * r + t[i] ELSE w[i - 1]
      BY ValueSteps DEF w
    <3>3. QED
      BY <1>1, <2>1, <3>1, <3>2
  <2>3. /\ c[0] = 0 /\ e[0] = 0
        /\ \A i \in 1..n : c[i] = IF h[i] \in D THEN c[i - 1] + 1 ELSE c[i - 1]
        /\ \A i \in 1..n : e[i] = IF t[i] \in D THEN e[i - 1] + 1 ELSE e[i - 1]
    <3> HIDE DEF c, e
    <3>1. c[0] = 0 /\ \A i \in 1..Len(h) : c[i] = IF h[i] \in D THEN c[i - 1] + 1 ELSE c[i - 1]
      <4>1. /\ CountTo(h, D)[0] = 0
            /\ \A i \in 1..Len(h) : CountTo(h, D)[i] = IF h[i] \in D THEN CountTo(h, D)[i - 1] + 1
                                                       ELSE CountTo(h, D)[i - 1]
        <5>1. h \in Seq(Nat)
          BY <1>1
        <5>2. QED
          BY <5>1, CountSteps
      <4>2. QED
        BY <4>1 DEF c
    <3>2. e[0] = 0 /\ \A i \in 1..Len(t) : e[i] = IF t[i] \in D THEN e[i - 1] + 1 ELSE e[i - 1]
      BY CountSteps DEF e
    <3>3. QED
      BY <1>1, <2>1, <3>1, <3>2
  <2> HIDE DEF v, w, c, e
  <2>4. QED
    BY <2>2, <2>3
<1> HIDE DEF v, w, c, e
<1> DEFINE T == {i \in 0..n : v[i] = w[i] /\ c[i] = e[i]}
<1>3. \A i \in 0..n : i \in T
  <2>1. 0 \in T
    BY <1>1, <1>2
  <2>2. ASSUME NEW i \in 1..n, i - 1 \in T PROVE i \in T
    <3>1. v[i - 1] = w[i - 1] /\ c[i - 1] = e[i - 1] /\ h[i] = t[i]
      BY <1>1, <2>2
    <3>2. v[i] = w[i] /\ c[i] = e[i]
      BY <1>2, <3>1, Zenon
    <3>3. QED
      BY <3>2
  <2> HIDE DEF T
  <2>3. QED
    BY <1>1, <2>1, <2>2, RangeInduction
<1>4. QED
  BY <1>1, <1>3 DEF h, v, w, c, e

\* Its value alone.
LEMMA PrefixValue ==
    ASSUME NEW t \in Seq(Nat), NEW D, NEW r \in Nat, NEW n \in 0..Len(t)
    PROVE  \A i \in 0..n : ValueTo(SubSeq(t, 1, n), D, r)[i] = ValueTo(t, D, r)[i]
  BY PrefixSays, ZenonT(60)

\* Its count of digits alone.
LEMMA PrefixCount ==
    ASSUME NEW t \in Seq(Nat), NEW D, NEW n \in 0..Len(t)
    PROVE  \A i \in 0..n : CountTo(SubSeq(t, 1, n), D)[i] = CountTo(t, D)[i]
<1>1. 0 \in Nat
  OBVIOUS
<1>2. QED
  BY <1>1, PrefixSays, ZenonT(60)
=============================================================================
