--------------------------- MODULE Division_proofs ----------------------------
(***************************************************************************)
(* div_impl rounds correctly, for every word size, radix and table of      *)
(* powers.  The argument: between passes quotient and remainder together   *)
(* are the scaled dividend (LongDivisionExact), so the comparison of the   *)
(* doubled remainder with the divisor rounds the quotient at its scale;    *)
(* find_scale finds the largest power that fits, so no digit is missed;    *)
(* a quotient that goes over 96 bits is rounded once, one digit earlier;   *)
(* and the zeros that are stripped at the end do not change its value.     *)
(***************************************************************************)
EXTENDS Division, DecimalLemmas

-----------------------------------------------------------------------------
(***************************************************************************)
(* The reference arithmetic: n * Ten^e / d with both sides multiplied by   *)
(* the shift w, as the code holds them.                                    *)
(***************************************************************************)
Dividend(n, e, w) == (n * POWERS[e]) * w
Divisor(d, w, j) == (d * w) * POWERS[j]
Near(m, W, D)    == (2 * m - 1) * D <= 2 * W /\ 2 * W <= (2 * m + 1) * D
Halfway(m, W, D) == 2 * W = (2 * m - 1) * D \/ 2 * W = (2 * m + 1) * D

\* Comparisons j digits before those of the scaled dividend.
LEMMA CompareAt ==
    ASSUME NEW n \in Nat, NEW d \in Nat \ {0}, NEW w \in Nat \ {0},
           NEW e \in 0..PowLimit, NEW j \in 0..PowLimit, NEW k \in Int
    PROVE  /\ Dividend(n, e, w) \in Nat /\ Divisor(d, w, j) \in Nat
           /\ TwiceLess(n, e - j, k * d) <=> 2 * Dividend(n, e, w) < k * Divisor(d, w, j)
           /\ TwiceEqual(n, e - j, k * d) <=> 2 * Dividend(n, e, w) = k * Divisor(d, w, j)
<1> DEFINE W == (n * POWERS[e]) * w
<1> DEFINE D == (d * w) * POWERS[j]
<1>1. POWERS[e] \in Nat \ {0} /\ POWERS[j] \in Nat \ {0} /\ e \in Int /\ j \in Int
  BY PowersType
<1>2. \A u, v \in Nat : u * v \in Nat
  OBVIOUS
<1>3. \A u, v \in Nat \ {0} : u * v \in Nat \ {0}
  OBVIOUS
<1>4. W \in Nat /\ D \in Nat /\ 2 * n \in Int /\ k * d \in Int /\ k * D \in Int
  BY <1>1, <1>2
<1>5. CASE j <= e
  <2> DEFINE p == POWERS[e - j]
  <2>1. p \in Nat \ {0} /\ POWERS[e] = p * POWERS[j]
    <3>1. e - j \in 0..PowLimit /\ (e - j) + j = e /\ PowLimit \in Nat
      BY <1>5, <1>1, ScaleAssumption
    <3>2. POWERS[(e - j) + j] = POWERS[e - j] * POWERS[j]
      BY <3>1, PowersAdd
    <3>3. p \in Nat \ {0}
      BY <3>1, PowersType
    <3>4. QED
      BY <3>1, <3>2, <3>3
  <2> DEFINE c == POWERS[j] * w
  <2>2. c \in Nat \ {0}
    BY <1>1, <1>3
  <2> HIDE DEF p
  <2>3. 2 * W = ((2 * n) * p) * c /\ k * D = (k * d) * c
    BY <1>1, <2>1
  <2> HIDE DEF c, W, D
  <2>4. (2 * n) * p \in Int
    BY <2>1
  <2>5. (2 * W < k * D <=> (2 * n) * p < k * d) /\ (2 * W = k * D <=> (2 * n) * p = k * d)
    BY <2>2, <2>3, <2>4, <1>4, Cancel
  <2>6. 2 * n <= (k * d - 1) \div p <=> (2 * n) * p <= k * d - 1
    BY <1>4, <2>1, AtMostQuotient, k * d - 1 \in Int
  <2>7. (k * d) % p = 0 /\ 2 * n = (k * d) \div p <=> (2 * n) * p = k * d
    <3> DEFINE t == 2 * n
    <3> DEFINE u == k * d
    <3>1. t \in Int /\ u \in Int
      BY <1>4
    <3> HIDE DEF t, u
    <3>2. u % p = 0 /\ t = u \div p <=> t * p = u
      BY <3>1, <2>1, AtMostQuotient, ZenonT(60)
    <3>3. QED
      BY <3>2 DEF t, u
  <2>8. e - j >= 0
    BY <1>5, <1>1
  <2>9. /\ TwiceLess(n, e - j, k * d) <=> 2 * n <= (k * d - 1) \div p
        /\ TwiceEqual(n, e - j, k * d) <=> ((k * d) % p = 0 /\ 2 * n = (k * d) \div p)
    BY <2>8 DEF TwiceLess, TwiceEqual, p
  <2>10. (2 * n) * p <= k * d - 1 <=> (2 * n) * p < k * d
    BY <2>4, <1>4
  <2>11. QED
    BY <1>4, <2>5, <2>6, <2>7, <2>9, <2>10 DEF W, D, Dividend, Divisor
<1>6. CASE e < j
  <2> DEFINE p == POWERS[j - e]
  <2>1. p \in Nat \ {0} /\ POWERS[j] = p * POWERS[e]
    <3>1. j - e \in 0..PowLimit /\ (j - e) + e = j /\ PowLimit \in Nat
      BY <1>6, <1>1, ScaleAssumption
    <3>2. POWERS[(j - e) + e] = POWERS[j - e] * POWERS[e]
      BY <3>1, PowersAdd
    <3>3. p \in Nat \ {0}
      BY <3>1, PowersType
    <3>4. QED
      BY <3>1, <3>2, <3>3
  <2> DEFINE c == POWERS[e] * w
  <2>2. c \in Nat \ {0}
    BY <1>1, <1>3
  <2> HIDE DEF p
  <2>3. 2 * W = (2 * n) * c /\ k * D = ((k * d) * p) * c
    BY <1>1, <2>1
  <2> HIDE DEF c, W, D
  <2>4. (k * d) * p \in Int
    BY <2>1, <1>4
  <2>5. (2 * W < k * D <=> 2 * n < (k * d) * p) /\ (2 * W = k * D <=> 2 * n = (k * d) * p)
    BY <2>2, <2>3, <2>4, <1>4, Cancel
  <2>6. (2 * n) \div p < k * d <=> 2 * n < (k * d) * p
    BY <1>4, <2>1, AtMostQuotient
  <2>7. (2 * n) % p = 0 /\ k * d = (2 * n) \div p <=> (k * d) * p = 2 * n
    <3> DEFINE t == 2 * n
    <3> DEFINE u == k * d
    <3>1. t \in Int /\ u \in Int
      BY <1>4
    <3> HIDE DEF t, u
    <3>2. t % p = 0 /\ u = t \div p <=> u * p = t
      BY <3>1, <2>1, AtMostQuotient, ZenonT(60)
    <3>3. QED
      BY <3>2 DEF t, u
  <2>8. ~(e - j >= 0) /\ -(e - j) = j - e
    BY <1>6, <1>1
  <2>9. /\ TwiceLess(n, e - j, k * d) <=> (2 * n) \div p < k * d
        /\ TwiceEqual(n, e - j, k * d) <=> ((2 * n) % p = 0 /\ (2 * n) \div p = k * d)
    BY <2>8 DEF TwiceLess, TwiceEqual, p
  <2>11. QED
    BY <1>4, <2>5, <2>6, <2>7, <2>9 DEF W, D, Dividend, Divisor
<1>7. QED
  BY <1>1, <1>5, <1>6 DEF Dividend, Divisor

\* The same scale: what a scaled dividend W and the shifted divisor D say of a
\* rounded quotient m.
LEMMA RoundingForms ==
    ASSUME NEW n \in Nat, NEW d \in Nat \ {0}, NEW w \in Nat \ {0},
           NEW e \in 0..PowLimit, NEW m \in Nat
    PROVE  LET W == Dividend(n, e, w)
               D == d * w
           IN  /\ W \in Nat /\ D \in Nat \ {0}
               /\ IsNearest(m, n, e, d) <=> Near(m, W, D)
               /\ IsTie(m, n, e, d) <=> Halfway(m, W, D)
               /\ IsExact(m, n, e, d) <=> W = m * D
               /\ RoundsAbove96(n, e, d) <=> (2 * Max96 + 1) * D <= 2 * W
<1> DEFINE W == Dividend(n, e, w)
<1> DEFINE D == d * w
<1>1. POWERS[0] = 1 /\ 0 \in 0..PowLimit /\ e - 0 = e /\ POWERS[e] \in Nat
  <2>1. 0 \in 0..PowLimit /\ e - 0 = e
    BY ScaleAssumption
  <2>2. POWERS[0] = 1
    BY PowersAssumption
  <2>3. QED
    BY <2>1, <2>2, PowersType
<1>2. D \in Nat \ {0} /\ W \in Nat
  <2>1. \A u, v \in Nat : u * v \in Nat
    OBVIOUS
  <2>2. \A u, v \in Nat \ {0} : u * v \in Nat \ {0}
    OBVIOUS
  <2>3. QED
    BY <1>1, <2>1, <2>2 DEF Dividend
<1>3. (d * w) * POWERS[0] = D
  BY <1>1, <1>2
<1>4. ASSUME NEW k \in Int
      PROVE  /\ TwiceLess(n, e, k * d) <=> 2 * W < k * D
             /\ TwiceEqual(n, e, k * d) <=> 2 * W = k * D
  <2> DEFINE C == Divisor(d, w, 0)
  <2>1. C = D
    BY <1>3 DEF Divisor
  <2>2. /\ TwiceLess(n, e - 0, k * d) <=> 2 * W < k * C
        /\ TwiceEqual(n, e - 0, k * d) <=> 2 * W = k * C
    <3>1. \A j \in 0..PowLimit :
              /\ TwiceLess(n, e - j, k * d) <=> 2 * Dividend(n, e, w) < k * Divisor(d, w, j)
              /\ TwiceEqual(n, e - j, k * d) <=> 2 * Dividend(n, e, w) = k * Divisor(d, w, j)
      BY CompareAt
    <3>2. QED
      BY <1>1, <3>1
  <2> HIDE DEF W, D, C
  <2>3. QED
    BY <1>1, <2>1, <2>2
<1> HIDE DEF W, D
<1>5. 2 * m - 1 \in Int /\ 2 * m + 1 \in Int /\ 2 * m \in Int /\ 2 * Max96 + 1 \in Int
  BY BaseType
<1>6. (2 * m - 1) * D \in Int /\ (2 * m + 1) * D \in Int /\ (2 * Max96 + 1) * D \in Int
      /\ (2 * m) * D = 2 * (m * D) /\ m * D \in Int
  BY <1>2, <1>5
<1>7. IsNearest(m, n, e, d) <=> (2 * m - 1) * D <= 2 * W /\ 2 * W <= (2 * m + 1) * D
  <2>1. IsNearest(m, n, e, d) <=> ~(2 * W < (2 * m - 1) * D)
            /\ (2 * W < (2 * m + 1) * D \/ 2 * W = (2 * m + 1) * D)
    BY <1>4, <1>5 DEF IsNearest
  <2>2. QED
    BY <2>1, <1>2, <1>6
<1>8. IsTie(m, n, e, d) <=> 2 * W = (2 * m - 1) * D \/ 2 * W = (2 * m + 1) * D
  BY <1>4, <1>5 DEF IsTie
<1>9. IsExact(m, n, e, d) <=> W = m * D
  <2>1. IsExact(m, n, e, d) <=> 2 * W = (2 * m) * D
    BY <1>4, <1>5 DEF IsExact
  <2>2. QED
    BY <2>1, <1>2, <1>6
<1>10. RoundsAbove96(n, e, d) <=> (2 * Max96 + 1) * D <= 2 * W
  <2>1. RoundsAbove96(n, e, d) <=> ~(2 * W < (2 * Max96 + 1) * D)
    BY <1>4, <1>5 DEF RoundsAbove96
  <2>2. QED
    BY <2>1, <1>2, <1>6
<1>11. QED
  BY <1>2, <1>7, <1>8, <1>9, <1>10 DEF W, D, Near, Halfway

\* The scaled dividend is multiplied by Ten^j when the exponent grows by j.
LEMMA ScaledUp ==
    ASSUME NEW n \in Nat, NEW w \in Nat, NEW e \in 0..PowLimit, NEW j \in 0..PowLimit, e + j <= PowLimit
    PROVE  Dividend(n, e + j, w) = Dividend(n, e, w) * POWERS[j]
<1>1. POWERS[e + j] = POWERS[e] * POWERS[j] /\ POWERS[e] \in Nat /\ POWERS[j] \in Nat
  BY PowersAdd, PowersType
<1>2. QED
  BY <1>1 DEF Dividend

\* A quotient of more than 96 bits stays one when it is scaled up.
LEMMA AboveStays ==
    ASSUME NEW n \in Nat, NEW d \in Nat \ {0}, NEW w \in Nat \ {0},
           NEW e \in 0..PowLimit, NEW j \in 0..PowLimit, e + j <= PowLimit,
           NEW q \in Nat, q * (d * w) <= Dividend(n, e, w) * POWERS[j], Max96 < q
    PROVE  RoundsAbove96(n, e + j, d)
<1> DEFINE W == Dividend(n, e + j, w)
<1> DEFINE D == d * w
<1>1. W = Dividend(n, e, w) * POWERS[j] /\ e + j \in 0..PowLimit
  BY ScaledUp
<1>2. 0 \in Nat /\ W \in Nat /\ D \in Nat \ {0} /\ (RoundsAbove96(n, e + j, d) <=> (2 * Max96 + 1) * D <= 2 * W)
  BY <1>1, RoundingForms
<1>3. q * D <= W
  BY <1>1
<1> HIDE DEF W, D
<1>4. Max96 \in Nat /\ D \in Nat /\ 2 * Max96 + 1 \in Int /\ 2 * q \in Int /\ 2 * Max96 + 1 <= 2 * q
  BY <1>2, BaseType
<1>5. (2 * Max96 + 1) * D <= (2 * q) * D /\ (2 * Max96 + 1) * D \in Int
  BY <1>4, MulMono
<1>6. (2 * q) * D = 2 * (q * D) /\ q * D \in Int
  BY <1>4
<1>7. QED
  BY <1>2, <1>3, <1>5, <1>6

-----------------------------------------------------------------------------
(***************************************************************************)
(* The three places where a quotient is rounded.                           *)
(***************************************************************************)
\* W is m * D and c more; what that says of m as a rounding of W / D.
LEMMA NearBy ==
    ASSUME NEW m \in Nat, NEW D \in Nat \ {0}, NEW W \in Nat, NEW c \in Int, W = m * D + c
    PROVE  /\ (2 * m - 1) * D <= 2 * W <=> -D <= 2 * c
           /\ 2 * W <= (2 * m + 1) * D <=> 2 * c <= D
           /\ 2 * W = (2 * m - 1) * D <=> 2 * c = -D
           /\ 2 * W = (2 * m + 1) * D <=> 2 * c = D
           /\ (2 * (m + 1) - 1) * D <= 2 * W <=> D <= 2 * c
           /\ 2 * W <= (2 * (m + 1) + 1) * D <=> 2 * c <= 3 * D
           /\ 2 * W = (2 * (m + 1) - 1) * D <=> 2 * c = D
           /\ 2 * W = (2 * (m + 1) + 1) * D <=> 2 * c = 3 * D
<1> DEFINE g == m * D
<1>1. /\ g \in Int
      /\ (2 * m - 1) * D = 2 * g - D /\ (2 * m + 1) * D = 2 * g + D
      /\ (2 * (m + 1) - 1) * D = 2 * g + D /\ (2 * (m + 1) + 1) * D = 2 * g + 3 * D
  OBVIOUS
<1>2. W = g + c
  OBVIOUS
<1> HIDE DEF g
<1>3. QED
  BY <1>1, <1>2

\* The last digit, rounded by the doubled remainder.
LEMMA LastRounded ==
    ASSUME NEW q \in Nat, NEW D \in Nat \ {0}, NEW r \in Nat, r < D,
           NEW W \in Nat, W = q * D + r
    PROVE  LET m == IF 2 * r > D \/ (2 * r = D /\ q % 2 = 1) THEN q + 1 ELSE q
           IN  /\ (2 * m - 1) * D <= 2 * W /\ 2 * W <= (2 * m + 1) * D
               /\ 2 * W = (2 * m - 1) * D \/ 2 * W = (2 * m + 1) * D => m % 2 = 0
<1>1. q % 2 = 0 \/ q % 2 = 1
  OBVIOUS
<1>2. q % 2 = 1 => (q + 1) % 2 = 0
  OBVIOUS
<1>3. QED
  BY <1>1, <1>2, NearBy

\* The quotient over 96 bits that loses its last digit.
LEMMA UnscaledParts ==
    ASSUME NEW q \in 0..(Base - 1), NEW sticky \in BOOLEAN
    PROVE  LET v    == (B3 + q) \div Ten
               t    == (B3 + q) % Ten
               half == Ten \div 2
           IN  /\ v \in Nat /\ t \in Nat /\ t < Ten /\ B3 + q = v * Ten + t
               /\ half \in Nat \ {0} /\ Ten = 2 * half
               /\ v \in Mantissa /\ v + 1 \in Mantissa
               /\ Unscaled(q, sticky) =
                      IF t > half \/ (t = half /\ (sticky \/ v % 2 = 1)) THEN v + 1 ELSE v
<1> DEFINE v == (B3 + q) \div Ten
<1> DEFINE t == (B3 + q) % Ten
<1>1. Ten \in Nat \ {0} /\ Ten >= 2 /\ Ten % 2 = 0
  BY BaseAssumption
<1>2. B3 \in Nat /\ Base \in Nat /\ q \in Nat /\ q < Base /\ B3 + q \in Nat /\ Max96 = B3 - 1
  BY BaseType
<1>3. v \in Nat /\ t \in Nat /\ t < Ten /\ B3 + q = v * Ten + t
  BY <1>1, <1>2, DivMod
<1>4. Ten \div 2 \in Nat \ {0} /\ Ten = 2 * (Ten \div 2)
  BY <1>1
<1>5. 2 * (Base + 1) <= B3 /\ B3 >= 8
  <2>1. Base < B2 /\ B2 \in Nat /\ B3 = B2 * Base /\ Base >= 2 /\ Base \in Nat /\ B3 >= 8
    BY BaseType DEF B2, B3
  <2>2. 2 * B2 <= Base * B2 /\ B2 * Base = Base * B2
    BY <2>1, MulMono
  <2>3. QED
    BY <2>1, <2>2
<1>6. v + 1 <= Max96
  <2> HIDE DEF v, t
  <2>1. 2 * v <= Ten * v /\ v * Ten = Ten * v
    BY <1>1, <1>3, MulMono, 2 \in Int
  <2>2. v * Ten \in Nat
    BY <1>1, <1>3
  <2>3. 2 * v <= B3 + q
    BY <1>2, <1>3, <2>1, <2>2
  <2>4. QED
    BY <1>2, <1>3, <1>5, <2>3
<1>7. v \in Mantissa /\ v + 1 \in Mantissa
  <2> HIDE DEF v, t
  <2>1. QED
    BY <1>2, <1>3, <1>6 DEF Mantissa
<1>8. QED
  BY <1>3, <1>4, <1>7 DEF Unscaled

\* A digit t and a rest c of the quotient, Ten times c being t * D and r more.
LEMMA HalfOf ==
    ASSUME NEW half \in Nat \ {0}, NEW D \in Nat \ {0}, NEW c \in Int, NEW t \in Nat,
           t < 2 * half, NEW r \in Int, -D < r, r < D, (2 * half) * c = t * D + r
    PROVE  /\ -D < c /\ c < D
           /\ t > half => 2 * c > D
           /\ t < half => 2 * c < D
           /\ t = half /\ r = 0 => 2 * c = D
           /\ t = half /\ r > 0 => 2 * c > D
           /\ -D < 2 * c
<1> DEFINE z == t * D
<1> DEFINE h == half * D
<1>1. z \in Nat /\ h \in Nat /\ half * (2 * c) = (2 * half) * c
  BY \A u, v \in Nat : u * v \in Nat
<1>2. half * (2 * c) = z + r
  BY <1>1
<1>3. D <= h
  BY MulMono, 1 * D = D
<1>4. t > half => h + D <= z
  <2>1. SUFFICES ASSUME half + 1 <= t PROVE h + D <= z
    OBVIOUS
  <2>2. (half + 1) * D <= t * D
    BY <2>1, MulMono
  <2>3. (half + 1) * D = half * D + D
    OBVIOUS
  <2>4. QED
    BY <2>2, <2>3
<1>5. t < half => z + D <= h
  <2>1. SUFFICES ASSUME t + 1 <= half PROVE z + D <= h
    OBVIOUS
  <2>2. (t + 1) * D <= half * D
    BY <2>1, MulMono
  <2>3. (t + 1) * D = t * D + D
    OBVIOUS
  <2>4. QED
    BY <2>2, <2>3
<1>6. z + D <= 2 * h
  <2>1. (t + 1) * D <= (2 * half) * D
    BY MulMono
  <2>2. (t + 1) * D = t * D + D /\ (2 * half) * D = 2 * (half * D)
    OBVIOUS
  <2>3. QED
    BY <2>1, <2>2
<1> DEFINE p == half * (2 * c)
<1>7. /\ p \in Int
      /\ p < h <=> 2 * c < D
      /\ p = h <=> 2 * c = D
      /\ h < p <=> D < 2 * c
  <2>1. /\ (2 * c) * half \in Int
        /\ (2 * c) * half < D * half <=> 2 * c < D
        /\ (2 * c) * half = D * half <=> 2 * c = D
        /\ D * half < (2 * c) * half <=> D < 2 * c
    BY Cancel, 2 * c \in Int
  <2>2. (2 * c) * half = p /\ D * half = h
    OBVIOUS
  <2>3. QED
    BY <2>1, <2>2
<1>8. /\ p < 2 * h <=> 2 * c < 2 * D
      /\ -(2 * h) < p <=> -(2 * D) < 2 * c
      /\ -h < p <=> -D < 2 * c
  <2>1. /\ (2 * c) * half < (2 * D) * half <=> 2 * c < 2 * D
        /\ (-(2 * D)) * half < (2 * c) * half <=> -(2 * D) < 2 * c
        /\ (-D) * half < (2 * c) * half <=> -D < 2 * c
    BY Cancel, 2 * c \in Int, 2 * D \in Int, -(2 * D) \in Int, -D \in Int
  <2>2. (2 * c) * half = p /\ (2 * D) * half = 2 * h /\ (-(2 * D)) * half = -(2 * h) /\ (-D) * half = -h
    OBVIOUS
  <2>3. QED
    BY <2>1, <2>2
<1>9. p = z + r
  BY <1>2
<1> HIDE DEF p, z, h
<1>10. /\ t > half => h < p
       /\ t < half => p < h
       /\ -(2 * h) < p /\ p < 2 * h
       /\ -h < p
  BY <1>1, <1>3, <1>4, <1>5, <1>6, <1>7, <1>9
<1>11. t = half => z = h
  BY DEF z, h
<1>12. QED
  BY <1>1, <1>7, <1>8, <1>9, <1>10, <1>11

\* A quotient whose digits of the remainder took it over 96 bits: the digit it
\* loses and the remainder decide, unless sticky is set for no remainder.
LEMMA OverflowRounded ==
    ASSUME NEW q \in 0..(Base - 1), NEW sticky \in BOOLEAN, NEW D \in Nat \ {0}, NEW r \in Nat,
           r < D, r # 0 => sticky, NEW W \in Nat, W * Ten = (B3 + q) * D + r
    PROVE  LET m == Unscaled(q, sticky)
           IN  /\ m \in Mantissa
               /\ (2 * m - 1) * D <= 2 * W /\ 2 * W <= (2 * m + 1) * D
               /\ (sticky => r # 0) /\ (2 * W = (2 * m - 1) * D \/ 2 * W = (2 * m + 1) * D) => m % 2 = 0
<1> DEFINE v == (B3 + q) \div Ten
<1> DEFINE t == (B3 + q) % Ten
<1> DEFINE half == Ten \div 2
<1> DEFINE m == Unscaled(q, sticky)
<1> DEFINE c == W - v * D
<1>1. /\ v \in Nat /\ t \in Nat /\ t < Ten /\ B3 + q = v * Ten + t
      /\ half \in Nat \ {0} /\ Ten = 2 * half
      /\ v \in Mantissa /\ v + 1 \in Mantissa
      /\ m = IF t > half \/ (t = half /\ (sticky \/ v % 2 = 1)) THEN v + 1 ELSE v
  BY UnscaledParts
<1> HIDE DEF v, t, half, m
<1>2. c \in Int /\ W = v * D + c
  BY <1>1
<1>3. (2 * half) * c = t * D + r
  <2>1. (v * Ten + t) * D = v * D * Ten + t * D
    BY <1>1
  <2>2. Ten * (v * D + c) = v * D * Ten + Ten * c
    BY <1>1, <1>2
  <2>3. Ten * (v * D + c) = (v * Ten + t) * D + r
    BY <1>1, <1>2
  <2> DEFINE g == v * D * Ten
  <2>4. g \in Int /\ t * D \in Int /\ Ten * c \in Int
    BY <1>1, <1>2
  <2> HIDE DEF g, c
  <2>5. Ten * c = t * D + r
    BY <2>1, <2>2, <2>3, <2>4 DEF g
  <2>6. QED
    BY <1>1, <2>5
<1> HIDE DEF c
<1>4. /\ -D < c /\ c < D
      /\ t > half => 2 * c > D
      /\ t < half => 2 * c < D
      /\ t = half /\ r = 0 => 2 * c = D
      /\ t = half /\ r > 0 => 2 * c > D
      /\ -D < 2 * c
  BY <1>1, <1>2, <1>3, HalfOf
<1>5. v % 2 = 0 \/ v % 2 = 1
  BY <1>1
<1>6. v % 2 = 1 => (v + 1) % 2 = 0
  BY <1>1
<1>7. r > 0 => sticky
  OBVIOUS
<1>8. CASE t > half \/ (t = half /\ (sticky \/ v % 2 = 1))
  <2>1. m = v + 1 /\ v + 1 \in Mantissa
    BY <1>1, <1>8
  <2>2. D <= 2 * c /\ 2 * c < 3 * D /\ (2 * c = D /\ (sticky => r # 0) => v % 2 = 1)
    BY <1>1, <1>2, <1>4, <1>8
  <2>3. QED
    BY <1>1, <1>2, <1>6, <2>1, <2>2, NearBy DEF m
<1>9. CASE ~(t > half \/ (t = half /\ (sticky \/ v % 2 = 1)))
  <2>1. m = v
    BY <1>1, <1>9
  <2>2. 2 * c <= D /\ -D < 2 * c /\ (2 * c = D => v % 2 = 0)
    BY <1>1, <1>2, <1>4, <1>5, <1>7, <1>9
  <2>3. QED
    BY <1>1, <1>2, <2>1, <2>2, NearBy DEF m
<1>10. QED
  BY <1>8, <1>9

\* A quotient that round_up carried over 96 bits: what it stands for is less
\* than 2^96 by at most half a unit.
LEMMA CarryRounded ==
    ASSUME NEW D \in Nat \ {0}, NEW r \in Nat, r < D, D <= 2 * r,
           NEW W \in Nat, W * Ten = Max96 * D + r
    PROVE  LET m == Unscaled(0, TRUE)
           IN  /\ m \in Mantissa
               /\ (2 * m - 1) * D < 2 * W /\ 2 * W < (2 * m + 1) * D
<1> DEFINE v == (B3 + 0) \div Ten
<1> DEFINE t == (B3 + 0) % Ten
<1> DEFINE half == Ten \div 2
<1> DEFINE m == Unscaled(0, TRUE)
<1> DEFINE c == W - v * D
<1>0. 0 \in 0..(Base - 1) /\ B3 + 0 = B3 /\ B3 \in Nat /\ Max96 = B3 - 1
  BY BaseType
<1>1. /\ v \in Nat /\ t \in Nat /\ t < Ten /\ B3 + 0 = v * Ten + t
      /\ half \in Nat \ {0} /\ Ten = 2 * half
      /\ v \in Mantissa /\ v + 1 \in Mantissa
      /\ m = IF t > half \/ (t = half /\ (TRUE \/ v % 2 = 1)) THEN v + 1 ELSE v
  BY <1>0, UnscaledParts
<1>2. t # half
  BY <1>0, CarryAssumption
<1> HIDE DEF v, t, half, m
<1>3. c \in Int /\ W = v * D + c
  BY <1>1
<1>4. (2 * half) * c = t * D + (r - D)
  <2>1. (v * Ten + t) * D = v * D * Ten + t * D /\ (B3 - 1) * D = B3 * D - D
    BY <1>0, <1>1
  <2>2. Ten * (v * D + c) = v * D * Ten + Ten * c
    BY <1>1, <1>3
  <2>3. Ten * (v * D + c) = (B3 - 1) * D + r
    BY <1>0, <1>1, <1>3
  <2> DEFINE g == v * D * Ten
  <2>4. g \in Int /\ t * D \in Int /\ Ten * c \in Int /\ B3 * D \in Int
    BY <1>0, <1>1, <1>3
  <2>5. B3 * D = (v * Ten + t) * D
    BY <1>0, <1>1
  <2> HIDE DEF g, c
  <2>6. Ten * c = t * D + (r - D)
    BY <2>1, <2>2, <2>3, <2>4, <2>5 DEF g
  <2>7. QED
    BY <1>1, <2>6
<1> HIDE DEF c
<1>5. r - D \in Int /\ -D < r - D /\ r - D < D
  OBVIOUS
<1>6. /\ -D < c /\ c < D
      /\ t > half => 2 * c > D
      /\ t < half => 2 * c < D
      /\ -D < 2 * c
  BY <1>1, <1>3, <1>4, <1>5, HalfOf
<1>7. CASE t > half
  <2>1. m = v + 1 /\ v + 1 \in Mantissa
    BY <1>1, <1>7
  <2>2. D < 2 * c /\ 2 * c < 3 * D
    BY <1>3, <1>6, <1>7
  <2>3. \A k \in Int : k * D \in Int
    OBVIOUS
  <2>4. (2 * m - 1) * D \in Int /\ (2 * m + 1) * D \in Int /\ m \in Nat
    BY <1>1, <2>1, <2>3
  <2>5. /\ (2 * m - 1) * D <= 2 * W /\ 2 * W <= (2 * m + 1) * D
        /\ 2 * W # (2 * m - 1) * D /\ 2 * W # (2 * m + 1) * D
    BY <1>1, <1>3, <2>1, <2>2, NearBy
  <2>6. (2 * m - 1) * D < 2 * W /\ 2 * W < (2 * m + 1) * D
    BY <2>4, <2>5
  <2>7. QED
    BY <1>1, <2>1, <2>6 DEF m
<1>8. CASE t < half
  <2>1. m = v
    BY <1>1, <1>8
  <2>2. 2 * c < D /\ -D < 2 * c
    BY <1>6, <1>8
  <2>3. \A k \in Int : k * D \in Int
    OBVIOUS
  <2>4. (2 * m - 1) * D \in Int /\ (2 * m + 1) * D \in Int /\ m \in Nat
    BY <1>1, <2>1, <2>3
  <2>5. /\ (2 * m - 1) * D <= 2 * W /\ 2 * W <= (2 * m + 1) * D
        /\ 2 * W # (2 * m - 1) * D /\ 2 * W # (2 * m + 1) * D
    BY <1>1, <1>3, <2>1, <2>2, NearBy
  <2>6. (2 * m - 1) * D < 2 * W /\ 2 * W < (2 * m + 1) * D
    BY <2>4, <2>5
  <2>7. QED
    BY <1>1, <2>1, <2>6 DEF m
<1>9. t > half \/ t < half
  BY <1>1, <1>2
<1>10. QED
  BY <1>7, <1>8, <1>9

-----------------------------------------------------------------------------
(***************************************************************************)
(* What a finished quotient promises before its zeros are stripped.        *)
(***************************************************************************)
\* m is n * Ten^e / d, rounded at scale p with as many digits as can be had; tie
\* excuses a tie from the rule of the even neighbour.
KeptAt(m, p, n, e, d, tie) ==
    /\ m \in Mantissa /\ p \in 0..MAX_SCALE /\ e \in 0..PowLimit
    /\ IsNearest(m, n, e, d)
    /\ IsExact(m, n, e, d) \/ p = MAX_SCALE \/ RoundsAbove96(n, e + 1, d)
    /\ ~tie /\ IsTie(m, n, e, d) => m % 2 = 0

\* Digits that take the quotient over 96 bits say so of every finer quotient.
LEMMA AboveRest ==
    ASSUME NEW n \in Nat, NEW d \in Nat \ {0}, NEW w \in Nat \ {0},
           NEW e \in 0..PowLimit, NEW j \in 0..PowLimit, e + j <= PowLimit,
           NEW q \in Nat, NEW r \in Nat, Dividend(n, e, w) = q * (d * w) + r,
           Max96 < q * POWERS[j]
    PROVE  RoundsAbove96(n, e + j, d)
<1>1. POWERS[j] \in Nat /\ POWERS[j] >= 1 /\ \A u, v \in Nat : u * v \in Nat
  BY PowersType
<1>2. d * w \in Nat /\ q * POWERS[j] \in Nat /\ r * POWERS[j] \in Nat
  BY <1>1
<1>3. (q * POWERS[j]) * (d * w) <= Dividend(n, e, w) * POWERS[j]
  <2> DEFINE D == d * w
  <2> DEFINE P == POWERS[j]
  <2>1. D \in Nat /\ P \in Nat /\ r * P \in Nat /\ Dividend(n, e, w) = q * D + r
    BY <1>1, <1>2
  <2> HIDE DEF D, P
  <2>2. (q * D + r) * P = (q * P) * D + r * P /\ (q * P) * D \in Int
    BY <2>1
  <2>3. (q * P) * D <= Dividend(n, e, w) * P
    BY <2>1, <2>2
  <2>4. QED
    BY <2>3 DEF D, P
<1>4. QED
  BY <1>2, <1>3, AboveStays

\* So does the largest mantissa with half a unit or more.
LEMMA AboveHalf ==
    ASSUME NEW n \in Nat, NEW d \in Nat \ {0}, NEW w \in Nat \ {0}, NEW e \in 0..PowLimit,
           NEW r \in Nat, d * w <= 2 * r, Dividend(n, e, w) = Max96 * (d * w) + r
    PROVE  RoundsAbove96(n, e, d)
<1> DEFINE D == d * w
<1> DEFINE W == Dividend(n, e, w)
<1>1. 0 \in Nat /\ W \in Nat /\ D \in Nat \ {0} /\ (RoundsAbove96(n, e, d) <=> (2 * Max96 + 1) * D <= 2 * W)
  BY RoundingForms
<1>2. W = Max96 * D + r /\ D <= 2 * r /\ Max96 \in Nat
  BY BaseType
<1> HIDE DEF D, W
<1>3. (2 * Max96 + 1) * D = 2 * (Max96 * D) + D /\ Max96 * D \in Int
  BY <1>1, <1>2
<1>4. QED
  BY <1>1, <1>2, <1>3

\* A quotient without a remainder.
LEMMA KeptExact ==
    ASSUME NEW n \in Nat, NEW d \in Nat \ {0}, NEW w \in Nat \ {0}, NEW e \in 0..PowLimit,
           NEW p \in 0..MAX_SCALE, NEW tie \in BOOLEAN,
           NEW q \in Mantissa, Dividend(n, e, w) = q * (d * w)
    PROVE  KeptAt(q, p, n, e, d, tie)
<1> DEFINE D == d * w
<1> DEFINE W == Dividend(n, e, w)
<1>1. q \in Nat
  BY BaseType DEF Mantissa
<1>2. /\ W \in Nat /\ D \in Nat \ {0} /\ W = q * D
      /\ IsNearest(q, n, e, d) <=> Near(q, W, D)
      /\ IsTie(q, n, e, d) <=> Halfway(q, W, D)
      /\ IsExact(q, n, e, d) <=> W = q * D
  BY <1>1, RoundingForms
<1> HIDE DEF D, W
<1>3. W = q * D + 0
  BY <1>1, <1>2
<1>4. IsNearest(q, n, e, d) /\ ~IsTie(q, n, e, d) /\ IsExact(q, n, e, d)
  BY <1>1, <1>2, <1>3, NearBy, 0 \in Int DEF Near, Halfway
<1>5. QED
  BY <1>4 DEF KeptAt

\* A quotient rounded by what is left.
ByRemainder(q, r, D) == IF 2 * r > D \/ (2 * r = D /\ q % 2 = 1) THEN q + 1 ELSE q

\* A quotient that cannot have another digit.
LEMMA KeptLast ==
    ASSUME NEW n \in Nat, NEW d \in Nat \ {0}, NEW w \in Nat \ {0}, NEW e \in 0..PowLimit,
           NEW p \in 0..MAX_SCALE, NEW tie \in BOOLEAN,
           NEW q \in Nat, NEW r \in Nat, r < d * w, Dividend(n, e, w) = q * (d * w) + r,
           p = MAX_SCALE \/ (e + 1 <= PowLimit /\ Max96 < q * Ten),
           NEW m \in Mantissa, m = ByRemainder(q, r, d * w)
    PROVE  KeptAt(m, p, n, e, d, tie)
<1> DEFINE D == d * w
<1> DEFINE W == Dividend(n, e, w)
<1>1. m \in Nat
  BY BaseType DEF Mantissa
<1>2. /\ W \in Nat /\ D \in Nat \ {0} /\ W = q * D + r /\ r < D
      /\ m = IF 2 * r > D \/ (2 * r = D /\ q % 2 = 1) THEN q + 1 ELSE q
      /\ IsNearest(m, n, e, d) <=> Near(m, W, D)
      /\ IsTie(m, n, e, d) <=> Halfway(m, W, D)
  BY <1>1, RoundingForms DEF ByRemainder
<1>3. p = MAX_SCALE \/ RoundsAbove96(n, e + 1, d)
  <2>1. SUFFICES ASSUME e + 1 <= PowLimit, Max96 < q * Ten PROVE RoundsAbove96(n, e + 1, d)
    OBVIOUS
  <2>2. 1 \in 0..PowLimit /\ POWERS[1] = Ten
    BY <2>1, PowersAssumption, ScaleAssumption
  <2>3. QED
    BY <2>1, <2>2, AboveRest
<1> HIDE DEF D, W
<1>4. IsNearest(m, n, e, d) /\ (IsTie(m, n, e, d) => m % 2 = 0)
  BY <1>1, <1>2, LastRounded DEF Near, Halfway
<1>5. QED
  BY <1>3, <1>4 DEF KeptAt

\* The scaled dividend one digit earlier.
LEMMA OneDigitLess ==
    ASSUME NEW n \in Nat, NEW w \in Nat, NEW e \in 1..PowLimit
    PROVE  /\ e - 1 \in 0..PowLimit /\ (e - 1) + 1 = e
           /\ Dividend(n, e - 1, w) * Ten = Dividend(n, e, w)
<1>1. e - 1 \in 0..PowLimit /\ (e - 1) + 1 = e /\ 1 \in 0..PowLimit /\ e <= PowLimit
  BY ScaleAssumption
<1>2. POWERS[1] = Ten
  BY PowersAssumption
<1>3. Dividend(n, (e - 1) + 1, w) = Dividend(n, e - 1, w) * POWERS[1]
  BY <1>1, ScaledUp
<1>4. QED
  BY <1>1, <1>2, <1>3

\* (A truth value; the definition keeps the provers from taking it for a number.)
IsFlag(f) == f \in BOOLEAN

\* A quotient that is brought back under 96 bits.
LEMMA KeptOverflow ==
    ASSUME NEW n \in Nat, NEW d \in Nat \ {0}, NEW w \in Nat \ {0}, NEW e \in 1..PowLimit,
           NEW p \in 0..MAX_SCALE, NEW tie, IsFlag(tie), NEW sticky, IsFlag(sticky),
           NEW q \in 0..(Base - 1), NEW r \in Nat, r < d * w, Dividend(n, e, w) = (B3 + q) * (d * w) + r,
           r # 0 => sticky, ~tie /\ sticky => r # 0
    PROVE  KeptAt(Unscaled(q, sticky), p, n, e - 1, d, tie)
<1> DEFINE D == d * w
<1> DEFINE W == Dividend(n, e - 1, w)
<1> DEFINE m == Unscaled(q, sticky)
<1>1. e - 1 \in 0..PowLimit /\ (e - 1) + 1 = e /\ W * Ten = (B3 + q) * D + r /\ r < D
  BY OneDigitLess
<1>2. D \in Nat \ {0} /\ W \in Nat
  BY <1>1, RoundingForms, 0 \in Nat
<1>3. /\ m \in Mantissa
      /\ (2 * m - 1) * D <= 2 * W /\ 2 * W <= (2 * m + 1) * D
      /\ (sticky => r # 0) /\ (2 * W = (2 * m - 1) * D \/ 2 * W = (2 * m + 1) * D) => m % 2 = 0
  <2> HIDE DEF D, W
  <2>1. QED
    BY <1>1, <1>2, OverflowRounded DEF IsFlag
<1>4. m \in Nat
  BY <1>3, BaseType DEF Mantissa
<1> HIDE DEF m
<1>5. /\ IsNearest(m, n, e - 1, d) <=> Near(m, W, D)
      /\ IsTie(m, n, e - 1, d) <=> Halfway(m, W, D)
  BY <1>1, <1>4, RoundingForms
<1>6. RoundsAbove96(n, (e - 1) + 1, d)
  <2>1. 0 \in 0..PowLimit /\ e \in 0..PowLimit /\ e + 0 = e /\ e + 0 <= PowLimit
    BY ScaleAssumption
  <2>2. POWERS[0] = 1
    BY PowersAssumption
  <2>3. B3 + q \in Nat /\ Max96 < (B3 + q) * 1
    BY BaseType
  <2>4. RoundsAbove96(n, e + 0, d)
    BY <2>1, <2>2, <2>3, AboveRest
  <2>5. QED
    BY <1>1, <2>1, <2>4
<1>7. IsNearest(m, n, e - 1, d) /\ (~tie /\ IsTie(m, n, e - 1, d) => m % 2 = 0)
  BY <1>3, <1>5 DEF Near, Halfway
<1>8. KeptAt(m, p, n, e - 1, d, tie)
  BY <1>1, <1>3, <1>6, <1>7 DEF KeptAt
<1>9. QED
  BY <1>8 DEF m

\* A quotient that rounding carried over 96 bits.
LEMMA KeptCarry ==
    ASSUME NEW n \in Nat, NEW d \in Nat \ {0}, NEW w \in Nat \ {0}, NEW e \in 1..PowLimit,
           NEW p \in 0..MAX_SCALE, NEW tie \in BOOLEAN,
           NEW r \in Nat, r < d * w, d * w <= 2 * r, Dividend(n, e, w) = Max96 * (d * w) + r
    PROVE  KeptAt(Unscaled(0, TRUE), p, n, e - 1, d, tie)
<1> DEFINE D == d * w
<1> DEFINE W == Dividend(n, e - 1, w)
<1> DEFINE m == Unscaled(0, TRUE)
<1>1. e - 1 \in 0..PowLimit /\ (e - 1) + 1 = e /\ W * Ten = Max96 * D + r /\ r < D /\ D <= 2 * r
  BY OneDigitLess
<1>2. D \in Nat \ {0} /\ W \in Nat
  BY <1>1, RoundingForms, 0 \in Nat
<1>3. m \in Mantissa /\ (2 * m - 1) * D < 2 * W /\ 2 * W < (2 * m + 1) * D
  <2> HIDE DEF D, W
  <2>1. QED
    BY <1>1, <1>2, CarryRounded
<1> HIDE DEF m
<1>4. m \in Nat
  BY <1>3, BaseType DEF Mantissa
<1>5. (2 * m - 1) * D \in Int /\ (2 * m + 1) * D \in Int
  <2> HIDE DEF D
  <2>1. QED
    BY <1>2, <1>4
<1>6. /\ IsNearest(m, n, e - 1, d) <=> Near(m, W, D)
      /\ IsTie(m, n, e - 1, d) <=> Halfway(m, W, D)
  BY <1>1, <1>4, RoundingForms
<1>7. RoundsAbove96(n, (e - 1) + 1, d)
  BY <1>1, AboveHalf, e \in 0..PowLimit
<1>8. IsNearest(m, n, e - 1, d) /\ ~IsTie(m, n, e - 1, d)
  <2> HIDE DEF D, W
  <2>1. QED
    BY <1>2, <1>3, <1>5, <1>6 DEF Near, Halfway
<1>9. KeptAt(m, p, n, e - 1, d, tie)
  BY <1>1, <1>3, <1>7, <1>8 DEF KeptAt
<1>10. QED
  BY <1>9 DEF m

\* A nearest quotient that ends in j zeros is not halfway between two
\* neighbours once they are stripped.
LEMMA StrippedNoTie ==
    ASSUME NEW n \in Nat, NEW d \in Nat \ {0}, NEW e \in 0..PowLimit, NEW j \in 1..PowLimit,
           NEW m \in Nat, IsNearest(m * POWERS[j], n, e, d)
    PROVE  ~IsTie(m, n, e - j, d)
<1> DEFINE P == POWERS[j]
<1> DEFINE W == Dividend(n, e, 1)
<1>1. P \in Nat /\ P >= 2 /\ j \in 0..PowLimit
  <2>1. P \in Nat /\ P >= 1 /\ P % 2 = 0
    BY PowersType
  <2>2. QED
    BY <2>1
<1>2. m * P \in Nat /\ 1 \in Nat \ {0} /\ d * 1 = d
  BY <1>1
<1>3. W \in Nat /\ Near(m * P, W, d)
  <2>1. \A u \in Nat, c \in Nat \ {0} :
            Dividend(n, e, c) \in Nat /\ (IsNearest(u, n, e, d) <=> Near(u, Dividend(n, e, c), d * c))
    BY RoundingForms
  <2>2. QED
    BY <1>2, <2>1
<1>4. SUFFICES ASSUME IsTie(m, n, e - j, d) PROVE FALSE
  OBVIOUS
<1>5. PICK k \in {2 * m - 1, 2 * m + 1} : TwiceEqual(n, e - j, k * d)
  BY <1>4 DEF IsTie
<1>6. 2 * W = k * Divisor(d, 1, j)
  BY <1>1, <1>2, <1>5, CompareAt, k \in Int
<1>7. 2 * W = k * (d * P)
  BY <1>2, <1>6 DEF Divisor
<1> HIDE DEF P, W
<1> DEFINE g == m * (d * P)
<1> DEFINE h == d * P
<1>8. g \in Int /\ h \in Int /\ (2 * m - 1) * (d * P) = 2 * g - h /\ (2 * m + 1) * (d * P) = 2 * g + h
  BY <1>1
<1>9. (2 * (m * P) - 1) * d = 2 * g - d /\ (2 * (m * P) + 1) * d = 2 * g + d
  BY <1>1
<1>10. 2 * d <= h
  <2>1. 2 * d <= P * d /\ P * d = d * P
    BY <1>1, MulMono, 2 \in Int
  <2>2. QED
    BY <2>1
<1>11. 2 * W = 2 * g - h \/ 2 * W = 2 * g + h
  BY <1>5, <1>7, <1>8
<1>12. 2 * g - d <= 2 * W /\ 2 * W <= 2 * g + d
  BY <1>3, <1>9 DEF Near
<1> HIDE DEF g, h
<1>13. QED
  BY <1>3, <1>8, <1>10, <1>11, <1>12

-----------------------------------------------------------------------------
(***************************************************************************)
(* The inductive invariant.                                                *)
(***************************************************************************)
\* q and s stand for a finished quotient with some of its zeros stripped.
Promised(q, s) ==
    \E p \in s..MAX_SCALE : KeptAt(q * POWERS[p - s], p, numer.m, Exponent(p), denom.m, StaleTie)

DivInv ==
    /\ DivTypeOK /\ LongDivisionExact /\ DivNearest /\ DivHalfEven
    /\ pc \in {"loop", "unscale", "return"} => numer.m # 0 /\ denom.m # 0
    /\ pc = "loop" => divisor = denom.m * Shift /\ Exponent(div_scale) >= 0
    /\ pc \in {"unscale", "return"} => Promised(quotient, div_scale)

\* The shift brings the divisor no further than the top of its words.
LEMMA ShiftFacts ==
    ASSUME denom \in Decimal, denom.m # 0
    PROVE  /\ Shift \in Nat \ {0} /\ Shift < Base
           /\ denom.m * Shift \in Nat \ {0} /\ denom.m * Shift \in Mantissa
<1> DEFINE d == denom.m
<1>1. d \in Nat /\ d >= 1 /\ d < B3 /\ d \in Nat \ {0}
  BY BaseType DEF Decimal, Mantissa
<1>2. Base \in Nat /\ Base >= 2 /\ B2 \in Nat /\ B3 \in Nat /\ Base <= B3 /\ B2 <= B3 /\ Max96 = B3 - 1
      /\ B2 = Base * Base /\ B3 = B2 * Base
  <2>1. /\ Base \in Nat /\ Base >= 2 /\ B2 \in Nat /\ B3 \in Nat /\ Base < B2 /\ B2 < B3 /\ Max96 = B3 - 1
    BY BaseType
  <2>2. B2 = Base * Base /\ B3 = B2 * Base
    BY DEF B2, B3
  <2>3. QED
    BY <2>1, <2>2
<1>3. CASE Width = 1
  <2>1. d < Base
    BY <1>3 DEF Width
  <2>2. Shift = 1
    BY <1>3 DEF Shift
  <2>3. d * Shift = d
    BY <1>1, <2>2
  <2>4. QED
    BY <1>1, <1>2, <2>1, <2>2, <2>3 DEF Mantissa
<1>4. CASE Width # 1
  <2>1. Whole \in Nat /\ d < Whole /\ Whole <= d * Base /\ Whole <= B3
    <3>1. CASE Width = 2
      <4>1. Whole = B2
        BY <3>1 DEF Whole
      <4>2. Base <= d /\ d < B2
        BY <1>1, <1>2, <3>1 DEF Width
      <4>3. Base * Base <= d * Base
        BY <1>1, <1>2, <4>2, MulMono
      <4>4. QED
        BY <1>2, <4>1, <4>2, <4>3
    <3>2. CASE Width = 3
      <4>1. Whole = B3
        BY <3>2 DEF Whole
      <4>2. B2 <= d
        BY <1>1, <1>2, <3>2 DEF Width
      <4>3. B2 * Base <= d * Base
        BY <1>1, <1>2, <4>2, MulMono
      <4>4. QED
        BY <1>1, <1>2, <4>1, <4>2, <4>3
    <3>3. Width = 2 \/ Width = 3
      BY <1>4 DEF Width
    <3>4. QED
      BY <3>1, <3>2, <3>3
  <2>2. Shift = TopShift(d, Whole)
    BY <1>4 DEF Shift
  <2>3. Shift \in Nat \ {0} /\ Shift < Base /\ d * Shift \in Nat \ {0} /\ d * Shift < Whole
    BY <1>1, <2>1, <2>2, TopShiftFacts
  <2>4. d * Shift \in Mantissa
    BY <1>2, <2>1, <2>3 DEF Mantissa
  <2>5. QED
    BY <2>3, <2>4
<1>5. QED
  BY <1>3, <1>4

\* What is known between two passes.
LEMMA LoopFacts ==
    ASSUME DivInv, pc = "loop"
    PROVE  /\ numer \in Decimal /\ denom \in Decimal /\ numer.m \in Nat /\ numer.m # 0 /\ denom.m \in Nat \ {0} /\ denom.m # 0
           /\ numer.s \in 0..MAX_SCALE /\ denom.s \in 0..MAX_SCALE
           /\ Shift \in Nat \ {0} /\ divisor = denom.m * Shift /\ divisor \in Nat \ {0} /\ divisor \in Mantissa
           /\ quotient \in Nat /\ quotient \in Mantissa
           /\ div_remainder \in Nat /\ div_remainder \in Mantissa /\ div_remainder < divisor
           /\ div_scale \in (-MAX_SCALE)..MAX_SCALE /\ Exponent(div_scale) \in 0..PowLimit
           /\ \A s \in (-MAX_SCALE)..MAX_SCALE : Exponent(s) \in Int /\ Exponent(s) <= PowLimit
           /\ Dividend(numer.m, Exponent(div_scale), Shift) = quotient * (denom.m * Shift) + div_remainder
           /\ strip \in 0..(Len(UnscaleSteps) + 1) /\ div_result \in Decimal
           /\ stale \in Word /\ require_unscale \in BOOLEAN
<1>1. /\ numer \in Decimal /\ denom \in Decimal /\ quotient \in Mantissa /\ div_remainder \in Mantissa /\ div_remainder < divisor
      /\ stale \in Word /\ divisor \in Mantissa /\ div_scale \in (-MAX_SCALE)..MAX_SCALE
      /\ require_unscale \in BOOLEAN /\ strip \in 0..(Len(UnscaleSteps) + 1) /\ div_result \in Decimal
  BY DEF DivInv, DivTypeOK
<1>2. numer.m # 0 /\ denom.m # 0 /\ divisor = denom.m * Shift /\ Exponent(div_scale) >= 0
  BY DEF DivInv
<1>3. numer.m \in Mantissa /\ denom.m \in Mantissa /\ numer.s \in 0..MAX_SCALE /\ denom.s \in 0..MAX_SCALE
  BY <1>1 DEF Decimal
<1>4. \A v \in Mantissa : v \in Nat
  BY BaseType DEF Mantissa
<1>5. Shift \in Nat \ {0} /\ denom.m * Shift \in Nat \ {0}
  BY <1>1, <1>2, ShiftFacts
<1>6. numer.m * POWERS[Exponent(div_scale)] * Shift = quotient * divisor + div_remainder
  BY DEF DivInv, LongDivisionExact
<1>7. \A s \in (-MAX_SCALE)..MAX_SCALE : Exponent(s) \in Int /\ Exponent(s) <= PowLimit
  BY <1>3, LimitAssumption, ScaleAssumption DEF Exponent
<1>8. Exponent(div_scale) \in 0..PowLimit
  BY <1>1, <1>2, <1>7, ScaleAssumption
<1>9. QED
  BY <1>1, <1>2, <1>3, <1>4, <1>5, <1>6, <1>7, <1>8 DEF Dividend

\* A pass that goes on.
LEMMA ContinueDivInv ==
    ASSUME DivInv, pc = "loop", pc' = "loop", UNCHANGED <<numer, denom, divisor, strip, div_result>>,
           quotient' \in Mantissa, div_remainder' \in Nat, div_remainder' < divisor, stale' \in Word,
           div_scale' \in (-MAX_SCALE)..MAX_SCALE, require_unscale' \in BOOLEAN, Exponent(div_scale') >= 0,
           Dividend(numer.m, Exponent(div_scale'), Shift) = quotient' * divisor + div_remainder'
    PROVE  DivInv'
<1>1. /\ numer \in Decimal /\ denom \in Decimal /\ numer.m # 0 /\ denom.m # 0 /\ divisor = denom.m * Shift /\ divisor \in Mantissa
      /\ strip \in 0..(Len(UnscaleSteps) + 1) /\ div_result \in Decimal
  BY LoopFacts
<1>2. Shift' = Shift /\ Exponent(div_scale)' = Exponent(div_scale')
  BY DEF Shift, Width, Whole, Exponent
<1>3. div_remainder' \in Mantissa
  <2>1. divisor \in Nat /\ divisor <= Max96 /\ Max96 \in Nat
    BY <1>1, BaseType DEF Mantissa
  <2>2. QED
    BY <2>1 DEF Mantissa
<1>4. DivTypeOK'
  BY <1>1, <1>3 DEF DivTypeOK
<1>5. LongDivisionExact'
  BY <1>2 DEF LongDivisionExact, Dividend
<1>6. DivNearest' /\ DivHalfEven'
  BY DEF DivNearest, DivHalfEven, Quotients
<1>7. QED
  BY <1>1, <1>2, <1>4, <1>5, <1>6 DEF DivInv

\* A pass that ends the loop with a quotient.
LEMMA StopDivInv ==
    ASSUME DivInv, pc = "loop", pc' \in {"unscale", "return"}, UNCHANGED <<numer, denom, divisor, strip, div_result>>,
           quotient' \in Mantissa, div_remainder' \in Mantissa, stale' \in Word,
           div_scale' \in 0..MAX_SCALE, require_unscale' \in BOOLEAN,
           KeptAt(quotient', div_scale', numer.m, Exponent(div_scale'), denom.m, StaleTie')
    PROVE  DivInv'
<1>1. /\ numer \in Decimal /\ denom \in Decimal /\ numer.m # 0 /\ denom.m # 0 /\ divisor \in Mantissa
      /\ strip \in 0..(Len(UnscaleSteps) + 1) /\ div_result \in Decimal
  BY LoopFacts
<1>2. div_scale' \in (-MAX_SCALE)..MAX_SCALE /\ div_scale' >= 0
  BY ScaleAssumption
<1>3. DivTypeOK'
  BY <1>1, <1>2 DEF DivTypeOK
<1>4. LongDivisionExact' /\ DivNearest' /\ DivHalfEven'
  BY DEF LongDivisionExact, DivNearest, DivHalfEven, Quotients
<1>5. Promised(quotient, div_scale)'
  <2>1. div_scale' \in div_scale'..MAX_SCALE /\ div_scale' - div_scale' = 0
    <3>1. div_scale' \in Int /\ div_scale' <= MAX_SCALE /\ MAX_SCALE \in Int
      BY ScaleAssumption
    <3>2. \A s, t \in Int : s <= t => s \in s..t /\ s - s = 0
      OBVIOUS
    <3>3. QED
      BY <3>1, <3>2
  <2>2. quotient' * POWERS[div_scale' - div_scale'] = quotient'
    <3>1. POWERS[0] = 1
      BY PowersAssumption
    <3>2. quotient' \in Nat
      BY BaseType DEF Mantissa
    <3>3. QED
      BY <2>1, <3>1, <3>2
  <2>3. KeptAt(quotient' * POWERS[div_scale' - div_scale'], div_scale', numer'.m, Exponent(div_scale)', denom'.m, StaleTie')
    BY <2>2 DEF Exponent
  <2>4. QED
    BY <2>1, <2>3 DEF Promised, Exponent
<1>6. QED
  BY <1>1, <1>3, <1>4, <1>5 DEF DivInv

\* A pass that gives up.
LEMMA GiveUpDivInv ==
    ASSUME DivInv, pc = "loop", pc' = "overflow", UNCHANGED <<numer, denom, divisor, strip, div_result, quotient, div_scale>>,
           div_remainder' \in Mantissa, stale' \in Word, require_unscale' \in BOOLEAN,
           RoundsAbove96(numer.m, Exponent(0), denom.m)
    PROVE  DivInv'
<1>1. DivTypeOK'
  BY LoopFacts DEF DivTypeOK
<1>2. LongDivisionExact' /\ DivHalfEven'
  BY DEF LongDivisionExact, DivHalfEven, Quotients
<1>3. DivNearest'
  BY DEF DivNearest, Quotients, Exponent
<1>4. QED
  BY <1>1, <1>2, <1>3 DEF DivInv

\* A quotient that is too large at a scale that is not positive is too large at 0.
LEMMA AboveAtZero ==
    ASSUME DivInv, pc = "loop", NEW e \in 0..PowLimit, NEW s \in (-MAX_SCALE)..0, e = Exponent(s),
           NEW q \in Nat, NEW r \in Nat, Dividend(numer.m, e, Shift) = q * (denom.m * Shift) + r,
           Max96 < q * POWERS[-s]
    PROVE  RoundsAbove96(numer.m, Exponent(0), denom.m)
<1>1. /\ numer.m \in Nat /\ denom.m \in Nat \ {0} /\ Shift \in Nat \ {0} /\ numer.s \in 0..MAX_SCALE /\ denom.s \in 0..MAX_SCALE
      /\ \A t \in (-MAX_SCALE)..MAX_SCALE : Exponent(t) \in Int /\ Exponent(t) <= PowLimit
  BY LoopFacts
<1>2. -s \in 0..PowLimit /\ 0 \in (-MAX_SCALE)..MAX_SCALE
  BY ScaleAssumption
<1>3. e + (-s) = Exponent(0)
  BY <1>1, ScaleAssumption DEF Exponent
<1>4. e + (-s) <= PowLimit
  BY <1>1, <1>2, <1>3
<1>5. RoundsAbove96(numer.m, e + (-s), denom.m)
  BY <1>1, <1>2, <1>4, AboveRest
<1>6. QED
  BY <1>3, <1>5

\* The two outcomes of a quotient over 96 bits.
LEMMA FromOverflowSteps ==
    ASSUME NEW q, NEW s \in Int, NEW flag, FromOverflow(q, s, flag)
    PROVE  IF s - 1 < 0 THEN pc' = "overflow" /\ UNCHANGED <<quotient, div_scale>>
           ELSE quotient' = Unscaled(q, flag) /\ div_scale' = s - 1 /\ pc' = "unscale"
  BY DEF FromOverflow

\* The flag tells of a lost remainder, or of a stale word besides.
TellsLost(flag) ==
    /\ IsFlag(flag)
    /\ div_remainder' # 0 => flag
    /\ ~StaleTie' /\ flag => div_remainder' # 0

\* One pass that scales by Ten^k.
LEMMA ScaleByDivInv ==
    ASSUME DivInv, pc = "loop", NEW k \in 1..MAX_I32_SCALE, div_scale + k <= MAX_SCALE,
           NEW flag, TellsLost(flag), ScaleBy(k, flag),
           UNCHANGED <<numer, denom, divisor, strip, div_result>>, require_unscale' \in BOOLEAN, stale' \in Word,
           Max96 < quotient * POWERS[k] => RoundsAbove96(numer.m, Exponent(0), denom.m)
    PROVE  DivInv'
<1> DEFINE power == POWERS[k]
<1> DEFINE n == div_remainder * power
<1> DEFINE t == n \div divisor
<1> DEFINE r1 == n % divisor
<1> DEFINE q == quotient * power + t
<1> DEFINE e == Exponent(div_scale) + k
<1>1. /\ numer.m \in Nat /\ denom.m \in Nat \ {0} /\ numer.s \in 0..MAX_SCALE /\ denom.s \in 0..MAX_SCALE
      /\ Shift \in Nat \ {0} /\ divisor = denom.m * Shift /\ divisor \in Nat \ {0} /\ divisor \in Mantissa
      /\ quotient \in Nat /\ div_remainder \in Nat /\ div_remainder < divisor /\ div_remainder \in Mantissa
      /\ div_scale \in (-MAX_SCALE)..MAX_SCALE /\ Exponent(div_scale) \in 0..PowLimit
      /\ Dividend(numer.m, Exponent(div_scale), Shift) = quotient * (denom.m * Shift) + div_remainder
  BY LoopFacts
<1>2. /\ MAX_I32_SCALE \in Nat /\ MAX_I32_SCALE < MAX_SCALE /\ MAX_SCALE \in Nat /\ MAX_SCALE <= PowLimit /\ PowLimit \in Nat
      /\ k \in Nat /\ k >= 1 /\ k <= MAX_I32_SCALE /\ k \in 0..PowLimit /\ div_scale \in Int
      /\ Max96 \in Nat /\ B3 \in Nat /\ Max96 = B3 - 1 /\ Base \in Nat /\ MAX_I32_SCALE \in 0..PowLimit
  BY <1>1, ScaleAssumption, BaseType
<1>3. power \in Nat \ {0} /\ power < Base
  <2>1. POWERS[k] \in Nat \ {0} /\ POWERS[MAX_I32_SCALE] \in Nat /\ POWERS[k] <= POWERS[MAX_I32_SCALE]
    BY <1>2, PowersType, PowersMono
  <2>2. QED
    BY <1>2, <2>1, WidthAssumption
<1>4. n \in Nat /\ n < divisor * power /\ quotient * power \in Nat
  <2> HIDE DEF power
  <2>1. (div_remainder + 1) * power <= divisor * power /\ divisor * power \in Int
    BY <1>1, <1>3, MulMono, div_remainder + 1 <= divisor
  <2>2. (div_remainder + 1) * power = div_remainder * power + power
    BY <1>1, <1>3
  <2>3. div_remainder * power \in Nat /\ quotient * power \in Nat
    BY <1>1, <1>3, \A u, v \in Nat : u * v \in Nat
  <2>4. QED
    BY <1>3, <2>1, <2>2, <2>3
<1>5. t \in Nat /\ r1 \in Nat /\ r1 < divisor /\ n = t * divisor + r1 /\ t < power
  <2> HIDE DEF n, power
  <2>1. QED
    BY <1>1, <1>3, <1>4, DivMod, QuotientBound
<1>6. q \in Nat /\ q = quotient * power + t
  BY <1>4, <1>5
<1>7. /\ Exponent(div_scale + k) = e /\ Exponent(div_scale + k - 1) = e - 1
      /\ e \in 1..PowLimit /\ e \in 0..PowLimit /\ Exponent(div_scale) + k <= PowLimit
  <2>1. div_scale + k \in (-MAX_SCALE)..MAX_SCALE
    BY <1>1, <1>2
  <2>2. Exponent(div_scale + k) <= PowLimit
    BY <2>1, LoopFacts
  <2>3. Exponent(div_scale + k) = e /\ Exponent(div_scale + k - 1) = e - 1
    BY <1>1, <1>2 DEF Exponent
  <2>4. QED
    BY <1>1, <1>2, <2>2, <2>3
<1>8. Dividend(numer.m, e, Shift) = q * divisor + r1
  <2>1. Dividend(numer.m, e, Shift) = Dividend(numer.m, Exponent(div_scale), Shift) * power
    <3>1. /\ numer.m \in Nat /\ Shift \in Nat /\ Exponent(div_scale) \in 0..PowLimit /\ k \in 0..PowLimit
          /\ Exponent(div_scale) + k <= PowLimit
      BY <1>1, <1>2, <1>7
    <3>2. Dividend(numer.m, Exponent(div_scale) + k, Shift) = Dividend(numer.m, Exponent(div_scale), Shift) * POWERS[k]
      BY <3>1, ScaledUp
    <3>3. QED
      BY <3>2
  <2> HIDE DEF power, n, t, r1, q, e
  <2>2. Dividend(numer.m, e, Shift) = (quotient * divisor + div_remainder) * power
    BY <1>1, <2>1
  <2>3. (quotient * divisor + div_remainder) * power = (quotient * power) * divisor + div_remainder * power
    BY <1>1, <1>3
  <2>4. (quotient * power + t) * divisor = (quotient * power) * divisor + t * divisor
    BY <1>1, <1>4, <1>5
  <2>5. (quotient * power) * divisor \in Int /\ t * divisor \in Int
    BY <1>1, <1>4, <1>5
  <2>6. n = div_remainder * power
    BY DEF n
  <2>7. QED
    BY <1>5, <1>6, <2>2, <2>3, <2>4, <2>5, <2>6
<1>9. IF quotient * power > Max96
      THEN pc' = "overflow" /\ UNCHANGED <<quotient, div_remainder, div_scale>>
      ELSE /\ div_remainder' = r1
           /\ IF q > Max96
              THEN FromOverflow(q - B3, div_scale + k, flag)
              ELSE quotient' = q /\ div_scale' = div_scale + k /\ pc' = "loop"
  BY DEF ScaleBy
<1> HIDE DEF n, t, r1, q
<1>10. CASE quotient * power > Max96
  <2>1. pc' = "overflow" /\ UNCHANGED <<quotient, div_remainder, div_scale>>
    BY <1>9, <1>10
  <2>2. Max96 < quotient * POWERS[k]
    BY <1>2, <1>4, <1>10
  <2>3. QED
    BY <1>1, <2>1, <2>2, GiveUpDivInv
<1>11. CASE ~(quotient * power > Max96) /\ ~(q > Max96)
  <2>1. div_remainder' = r1 /\ quotient' = q /\ div_scale' = div_scale + k /\ pc' = "loop"
    BY <1>9, <1>11
  <2>2. q \in Mantissa
    BY <1>2, <1>6, <1>11 DEF Mantissa
  <2>3. div_scale' \in (-MAX_SCALE)..MAX_SCALE /\ Exponent(div_scale') = e /\ Exponent(div_scale') >= 0
    BY <1>1, <1>2, <1>7, <2>1
  <2>4. Dividend(numer.m, Exponent(div_scale'), Shift) = quotient' * divisor + div_remainder'
    BY <1>8, <2>1, <2>3
  <2>5. QED
    BY <1>5, <2>1, <2>2, <2>3, <2>4, ContinueDivInv
<1>12. CASE ~(quotient * power > Max96) /\ q > Max96
  <2> DEFINE low == q - B3
  <2>1. div_remainder' = r1 /\ FromOverflow(low, div_scale + k, flag)
    BY <1>9, <1>12
  <2>2. q - B3 \in 0..(Base - 1) /\ B3 + (q - B3) = q
    BY <1>2, <1>3, <1>4, <1>5, <1>6, <1>12
  <2>3. r1 \in Mantissa
    <3>1. divisor \in Nat /\ divisor <= Max96
      BY <1>1, <1>2 DEF Mantissa
    <3>2. QED
      BY <1>2, <1>5, <3>1 DEF Mantissa
  <2>4. CASE div_scale + k - 1 < 0
    <3>1. pc' = "overflow" /\ UNCHANGED <<quotient, div_scale>>
      BY <1>2, <2>1, <2>4, FromOverflowSteps
    <3>2. div_scale + k \in (-MAX_SCALE)..0 /\ -(div_scale + k) \in 0..PowLimit
      BY <1>1, <1>2, <2>4
    <3>3. Max96 < q * POWERS[-(div_scale + k)]
      <4> DEFINE p == POWERS[-(div_scale + k)]
      <4>1. p \in Nat /\ p >= 1
        BY <3>2, PowersType
      <4> HIDE DEF p
      <4>2. 1 * q <= p * q /\ p * q = q * p /\ q * p \in Int
        BY <1>6, <4>1, MulMono
      <4>3. Max96 < q * p
        BY <1>2, <1>6, <1>12, <4>2
      <4>4. QED
        BY <4>3 DEF p
    <3>4. RoundsAbove96(numer.m, Exponent(0), denom.m)
      BY <1>1, <1>5, <1>6, <1>7, <1>8, <3>2, <3>3, AboveAtZero
    <3>5. QED
      BY <2>1, <2>3, <3>1, <3>4, GiveUpDivInv
  <2>5. CASE ~(div_scale + k - 1 < 0)
    <3>1. quotient' = Unscaled(low, flag) /\ div_scale' = div_scale + k - 1 /\ pc' = "unscale"
      BY <1>2, <2>1, <2>5, FromOverflowSteps
    <3>2. div_scale' \in 0..MAX_SCALE
      BY <1>2, <2>5, <3>1
    <3>3. IsFlag(StaleTie')
      BY DEF StaleTie, IsFlag
    <3>4. KeptAt(Unscaled(low, flag), div_scale', numer.m, e - 1, denom.m, StaleTie')
      <4>1. low \in 0..(Base - 1) /\ B3 + low = q
        BY <2>2
      <4> DEFINE u == StaleTie'
      <4> DEFINE v == div_scale'
      <4> HIDE DEF low, u, v, e
      <4>2. Dividend(numer.m, e, Shift) = (B3 + low) * (denom.m * Shift) + r1 /\ r1 < denom.m * Shift /\ r1 \in Nat
        BY <1>1, <1>5, <1>8, <4>1
      <4>3. IsFlag(flag) /\ (r1 # 0 => flag)
        BY <2>1 DEF TellsLost
      <4>4. ~u /\ flag => r1 # 0
        BY <2>1 DEF u, TellsLost
      <4>5. IsFlag(u) /\ v \in 0..MAX_SCALE
        BY <3>2, <3>3 DEF u, v
      <4>6. KeptAt(Unscaled(low, flag), v, numer.m, e - 1, denom.m, u)
        <5>1. numer.m \in Nat /\ denom.m \in Nat \ {0} /\ Shift \in Nat \ {0} /\ e \in 1..PowLimit /\ low \in 0..(Base - 1)
          BY <1>1, <1>7, <4>1
        <5>2. QED
          BY <5>1, <4>5, <4>2, <4>3, <4>4, KeptOverflow
      <4>7. QED
        BY <4>6 DEF u, v
    <3>5. KeptAt(quotient', div_scale', numer.m, Exponent(div_scale'), denom.m, StaleTie')
      BY <1>7, <3>1, <3>4
    <3>6. quotient' \in Mantissa
      BY <3>5 DEF KeptAt
    <3>7. QED
      BY <2>1, <2>3, <3>1, <3>2, <3>5, <3>6, StopDivInv
  <2>6. QED
    BY <2>4, <2>5
<1>13. QED
  BY <1>10, <1>11, <1>12

-----------------------------------------------------------------------------
(***************************************************************************)
(* The steps.                                                              *)
(***************************************************************************)
LEMMA InitDivInv == Init => DivInv
<1> SUFFICES ASSUME Init PROVE DivInv
  OBVIOUS
<1>1. PICK u, v \in Decimal : DivStarted(u, v)
  BY DEF Init
<1>2. 0 \in Mantissa /\ 0 \in Word /\ 0 \in (-MAX_SCALE)..MAX_SCALE /\ 0 \in 0..(Len(UnscaleSteps) + 1)
  <2>1. 0 \in Mantissa /\ 0 \in Word
    BY BaseType DEF Mantissa, Word
  <2>2. 0 \in (-MAX_SCALE)..MAX_SCALE
    BY ScaleAssumption
  <2>3. Len(UnscaleSteps) \in Nat
    BY UnscaleAssumption
  <2>4. QED
    BY <2>1, <2>2, <2>3
<1>3. pc = "start"
  BY <1>1 DEF DivStarted
<1>4. DivTypeOK
  BY <1>1, <1>2, ZeroType DEF DivTypeOK, DivStarted
<1>5. LongDivisionExact /\ DivNearest /\ DivHalfEven
  BY <1>3 DEF LongDivisionExact, DivNearest, DivHalfEven, Quotients
<1>6. QED
  BY <1>3, <1>4, <1>5 DEF DivInv

LEMMA DivByZeroDivInv == DivInv /\ DivByZero => DivInv'
<1> SUFFICES ASSUME DivInv, DivByZero PROVE DivInv'
  OBVIOUS
<1>1. DivTypeOK'
  BY DEF DivInv, DivByZero, DivTypeOK, operands
<1>2. pc' = "div_by_zero"
  BY DEF DivByZero
<1>3. LongDivisionExact' /\ DivNearest' /\ DivHalfEven'
  BY <1>2 DEF LongDivisionExact, DivNearest, DivHalfEven, Quotients
<1>4. QED
  BY <1>1, <1>2, <1>3 DEF DivInv

LEMMA ZeroDividendDivInv == DivInv /\ ZeroDividend => DivInv'
<1> SUFFICES ASSUME DivInv, ZeroDividend PROVE DivInv'
  OBVIOUS
<1>1. DivTypeOK'
  BY ZeroType DEF DivInv, ZeroDividend, DivTypeOK, operands
<1>2. pc' = "done" /\ numer'.m = 0
  BY DEF ZeroDividend, operands
<1>3. LongDivisionExact' /\ DivNearest' /\ DivHalfEven'
  BY <1>2 DEF LongDivisionExact, DivNearest, DivHalfEven, Quotients
<1>4. QED
  BY <1>1, <1>2, <1>3 DEF DivInv

LEMMA DivideDivInv == DivInv /\ DivideOnce => DivInv'
<1> SUFFICES ASSUME DivInv, DivideOnce PROVE DivInv'
  OBVIOUS
<1>1. /\ numer \in Decimal /\ denom \in Decimal /\ require_unscale \in BOOLEAN
      /\ strip \in 0..(Len(UnscaleSteps) + 1) /\ div_result \in Decimal
  BY DEF DivInv, DivTypeOK
<1>2. /\ pc' = "loop" /\ numer.m # 0 /\ denom.m # 0 /\ UNCHANGED <<numer, denom, require_unscale, strip, div_result>>
      /\ divisor' = denom.m * Shift /\ quotient' = numer.m \div denom.m /\ div_remainder' = (numer.m % denom.m) * Shift
      /\ stale' = (IF Width = 3 THEN (numer.m * Shift) \div B3 ELSE 0)
      /\ div_scale' = numer.s - denom.s
  BY DEF DivideOnce, operands
<1>3. numer.m \in Mantissa /\ denom.m \in Mantissa /\ numer.s \in 0..MAX_SCALE /\ denom.s \in 0..MAX_SCALE
  BY <1>1 DEF Decimal
<1>4. /\ numer.m \in Nat /\ numer.m <= Max96 /\ denom.m \in Nat \ {0} /\ Max96 \in Nat /\ Max96 = B3 - 1 /\ B3 \in Nat \ {0}
      /\ Base \in Nat
  BY <1>2, <1>3, BaseType DEF Mantissa
<1>5. /\ Shift \in Nat \ {0} /\ Shift < Base
      /\ denom.m * Shift \in Nat \ {0} /\ denom.m * Shift \in Mantissa
  BY <1>1, <1>2, ShiftFacts
<1> DEFINE d == denom.m
<1> DEFINE w == Shift
<1> DEFINE q == numer.m \div d
<1> DEFINE r == numer.m % d
<1>6. q \in Nat /\ r \in Nat /\ r < d /\ numer.m = q * d + r
  BY <1>4, DivMod
<1>7. q \in Mantissa
  <2>0. d \in Int /\ 1 <= d /\ 1 \in Int
    BY <1>4
  <2> HIDE DEF q, r, d
  <2>1. 1 * q <= d * q /\ d * q = q * d /\ q * d \in Int
    BY <1>6, <2>0, MulMono
  <2>2. q <= Max96
    BY <1>4, <1>6, <2>1
  <2>3. QED
    BY <1>4, <1>6, <2>2 DEF Mantissa
<1>8. r * w \in Nat /\ r * w < d * w
  <2> HIDE DEF r, d, w
  <2>1. d \in Nat /\ w \in Nat \ {0}
    BY <1>4, <1>5 DEF d, w
  <2>2. QED
    BY <1>6, <2>1, Cancel
<1>9. r * w \in Mantissa
  <2>1. d * w \in Mantissa
    BY <1>5
  <2> HIDE DEF r, d, w
  <2>2. QED
    BY <1>4, <1>8, <2>1 DEF Mantissa
<1>10. stale' \in Word
  <2>1. CASE Width = 3
    <3>1. numer.m * Shift < B3 * Shift
      BY <1>4, <1>5, Cancel
    <3>2. numer.m * Shift \in Nat
      BY <1>4, <1>5
    <3>3. (numer.m * Shift) \div B3 < Shift /\ (numer.m * Shift) \div B3 \in Nat
      BY <1>4, <1>5, <3>1, <3>2, QuotientBound, DivMod
    <3>4. QED
      BY <1>2, <1>4, <1>5, <2>1, <3>3 DEF Word
  <2>2. CASE Width # 3
    BY <1>2, <1>4, <1>5, <2>2 DEF Word
  <2>3. QED
    BY <2>1, <2>2
<1>11. div_scale' \in (-MAX_SCALE)..MAX_SCALE /\ Exponent(div_scale') = 0
  BY <1>2, <1>3, ScaleAssumption DEF Exponent
<1>12. numer.m * POWERS[0] * Shift = quotient' * divisor' + div_remainder'
  <2>1. POWERS[0] = 1
    BY PowersAssumption
  <2>2. numer.m * POWERS[0] = q * d + r
    BY <1>4, <1>6, <2>1
  <2>3. quotient' = q /\ divisor' = d * w /\ div_remainder' = r * w
    BY <1>2
  <2>4. d \in Nat /\ w \in Nat
    BY <1>4, <1>5
  <2> HIDE DEF q, r, d
  <2>5. (q * d + r) * w = q * (d * w) + r * w
    BY <1>6, <2>4
  <2>6. QED
    BY <2>2, <2>3, <2>5
<1>13. Shift' = Shift /\ Exponent(div_scale)' = Exponent(div_scale')
  BY <1>2 DEF Shift, Width, Whole, Exponent
<1>14. DivTypeOK'
  BY <1>1, <1>2, <1>5, <1>7, <1>8, <1>9, <1>10, <1>11 DEF DivTypeOK
<1>15. LongDivisionExact'
  BY <1>2, <1>11, <1>12, <1>13 DEF LongDivisionExact
<1>16. DivNearest' /\ DivHalfEven'
  BY <1>2 DEF DivNearest, DivHalfEven, Quotients
<1>17. QED
  BY <1>2, <1>11, <1>13, <1>14, <1>15, <1>16 DEF DivInv

LEMMA ExactDivInv == DivInv /\ Exact => DivInv'
<1> SUFFICES ASSUME DivInv, Exact PROVE DivInv'
  OBVIOUS
<1>1. /\ pc = "loop" /\ div_remainder = 0 /\ div_scale >= 0 /\ pc' \in {"unscale", "return"}
      /\ UNCHANGED <<numer, denom, quotient, div_remainder, stale, divisor, div_scale, require_unscale, strip, div_result>>
  BY DEF Exact, operands
<1>2. div_scale \in 0..MAX_SCALE /\ quotient \in Mantissa /\ div_remainder \in Mantissa /\ stale \in Word
      /\ require_unscale \in BOOLEAN
  BY <1>1, LoopFacts, ScaleAssumption
<1>3. Dividend(numer.m, Exponent(div_scale), Shift) = quotient * (denom.m * Shift)
  <2>1. Dividend(numer.m, Exponent(div_scale), Shift) = quotient * (denom.m * Shift) + 0
    BY <1>1, LoopFacts
  <2>2. quotient * (denom.m * Shift) \in Nat
    BY <1>1, LoopFacts, \A u, v \in Nat : u * v \in Nat
  <2>3. QED
    BY <2>1, <2>2
<1>4. StaleTie' \in BOOLEAN
  BY DEF StaleTie
<1>5. KeptAt(quotient, div_scale, numer.m, Exponent(div_scale), denom.m, StaleTie')
  BY <1>1, <1>2, <1>3, <1>4, LoopFacts, KeptExact
<1>6. QED
  BY <1>1, <1>2, <1>5, StopDivInv

LEMMA ScaleExactDivInv == DivInv /\ ScaleExact => DivInv'
<1> SUFFICES ASSUME DivInv, ScaleExact PROVE DivInv'
  OBVIOUS
<1> DEFINE k == Chunk(-div_scale)
<1>1. /\ pc = "loop" /\ div_remainder = 0 /\ div_scale < 0 /\ ScaleBy(k, FALSE) /\ stale' = 0
      /\ UNCHANGED <<numer, denom, divisor, require_unscale, strip, div_result>>
  BY DEF ScaleExact, operands
<1>2. div_scale \in (-MAX_SCALE)..MAX_SCALE /\ -div_scale \in 1..PowLimit /\ -div_scale \in 0..PowLimit
  <2>1. div_scale \in (-MAX_SCALE)..MAX_SCALE
    BY <1>1, LoopFacts
  <2>2. QED
    BY <1>1, <2>1, ScaleAssumption
<1>3. k \in 1..PowLimit /\ k <= -div_scale /\ k <= MAX_I32_SCALE /\ k \in 0..PowLimit
  BY <1>2, ChunkType
<1>4. k \in 1..MAX_I32_SCALE /\ div_scale + k <= MAX_SCALE
  <2> HIDE DEF k
  <2>1. QED
    BY <1>2, <1>3, ScaleAssumption
<1>5. 0 \in Word
  BY BaseType DEF Word
<1>6. Max96 < quotient * POWERS[k] => RoundsAbove96(numer.m, Exponent(0), denom.m)
  <2>1. SUFFICES ASSUME Max96 < quotient * POWERS[k] PROVE RoundsAbove96(numer.m, Exponent(0), denom.m)
    OBVIOUS
  <2>2. POWERS[k] \in Nat /\ POWERS[-div_scale] \in Nat /\ POWERS[k] <= POWERS[-div_scale] /\ quotient \in Nat /\ Max96 \in Nat
    BY <1>1, <1>2, <1>3, PowersMono, PowersType, LoopFacts, BaseType
  <2> DEFINE u == POWERS[k]
  <2> DEFINE v == POWERS[-div_scale]
  <2>3. u \in Nat /\ v \in Nat /\ u <= v /\ Max96 < quotient * u
    BY <2>1, <2>2
  <2> HIDE DEF u, v
  <2>4. u * quotient <= v * quotient /\ u * quotient = quotient * u /\ v * quotient = quotient * v
        /\ quotient * u \in Int /\ quotient * v \in Int
    BY <2>2, <2>3, MulMono
  <2>5. Max96 < quotient * v
    BY <2>2, <2>3, <2>4
  <2>6. Max96 < quotient * POWERS[-div_scale]
    BY <2>5 DEF v
  <2>7. div_scale \in (-MAX_SCALE)..0
    BY <1>1, <1>2, ScaleAssumption
  <2>8. QED
    BY <1>1, <2>6, <2>7, LoopFacts, AboveAtZero
<1>7. TellsLost(FALSE)
  <2>1. div_remainder' = 0 \/ div_remainder' = (0 * POWERS[k]) % divisor
    BY <1>1 DEF ScaleBy
  <2>2. 0 * POWERS[k] = 0 /\ divisor \in Nat \ {0}
    BY <1>1, <1>3, PowersType, LoopFacts
  <2>3. 0 % divisor = 0
    BY <2>2
  <2>4. div_remainder' = 0
    BY <2>1, <2>2, <2>3
  <2>5. QED
    BY <2>4 DEF TellsLost, IsFlag
<1>8. require_unscale' \in BOOLEAN /\ stale' \in Word
  BY <1>1, <1>5, LoopFacts
<1> HIDE DEF k
<1>9. QED
  BY <1>1, <1>4, <1>6, <1>7, <1>8, ScaleByDivInv

\* LastDigit does not hold: find_scale has found a power that fits.
LEMMA ScaleFits ==
    ASSUME DivInv, pc = "loop", ~LastDigit, FindScale(quotient, div_scale) # None
    PROVE  LET k == FindScale(quotient, div_scale)
           IN  /\ k \in 1..MAX_I32_SCALE /\ div_scale + k <= MAX_SCALE
               /\ Max96 < quotient * POWERS[k] => RoundsAbove96(numer.m, Exponent(0), denom.m)
               /\ POWERS[k] \in Nat \ {0} /\ POWERS[k] < Base
<1> DEFINE k == FindScale(quotient, div_scale)
<1>1. quotient \in Mantissa /\ quotient \in Nat /\ div_scale \in (-MAX_SCALE)..MAX_SCALE
  BY LoopFacts
<1>2. div_scale # MAX_SCALE /\ k # 0 /\ k # None
  BY DEF LastDigit
<1>3. div_scale \in (-MAX_SCALE)..(MAX_SCALE - 1)
  BY <1>1, <1>2, ScaleAssumption
<1>4. Largest(k, quotient, div_scale)
  BY <1>1, <1>2, <1>3, FindScaleFacts
<1> HIDE DEF k
<1>5. k \in 1..MAX_I32_SCALE /\ div_scale + k <= MAX_SCALE /\ quotient * POWERS[k] <= Max96
      /\ k \in 0..PowLimit /\ MAX_I32_SCALE \in 0..PowLimit /\ k <= MAX_I32_SCALE
  BY <1>2, <1>4, ScaleAssumption DEF Largest
<1>6. POWERS[k] \in Nat \ {0} /\ POWERS[MAX_I32_SCALE] \in Nat /\ POWERS[k] <= POWERS[MAX_I32_SCALE]
  BY <1>5, PowersType, PowersMono
<1>7. POWERS[k] < Base
  BY <1>6, WidthAssumption, BaseType
<1>8. ~(Max96 < quotient * POWERS[k])
  <2>1. quotient * POWERS[k] \in Nat /\ Max96 \in Nat
    BY <1>1, <1>6, BaseType, \A u, v \in Nat : u * v \in Nat
  <2>2. QED
    BY <1>5, <2>1
<1>9. QED
  BY <1>5, <1>6, <1>7, <1>8 DEF k

LEMMA ScaleShortDivInv == DivInv /\ ScaleShort => DivInv'
<1> SUFFICES ASSUME DivInv, ScaleShort PROVE DivInv'
  OBVIOUS
<1> DEFINE k == FindScale(quotient, div_scale)
<1>1. /\ pc = "loop" /\ ~LastDigit /\ k # None
      /\ require_unscale' = TRUE /\ ScaleBy(k, div_remainder' # 0)
      /\ UNCHANGED <<numer, denom, stale, divisor, strip, div_result>>
  BY DEF ScaleShort, operands
<1>2. /\ k \in 1..MAX_I32_SCALE /\ div_scale + k <= MAX_SCALE
      /\ Max96 < quotient * POWERS[k] => RoundsAbove96(numer.m, Exponent(0), denom.m)
  BY <1>1, ScaleFits
<1>3. TellsLost(div_remainder' # 0)
  BY DEF TellsLost, IsFlag
<1>4. require_unscale' \in BOOLEAN /\ stale' \in Word
  BY <1>1, LoopFacts
<1> HIDE DEF k
<1>5. QED
  BY <1>1, <1>2, <1>3, <1>4, ScaleByDivInv

LEMMA ScaleLongDivInv == DivInv /\ ScaleLong => DivInv'
<1> SUFFICES ASSUME DivInv, ScaleLong PROVE DivInv'
  OBVIOUS
<1> DEFINE k == FindScale(quotient, div_scale)
<1>1. /\ pc = "loop" /\ Width = 3 /\ ~LastDigit /\ k # None
      /\ require_unscale' = TRUE /\ stale' = (div_remainder * POWERS[k]) \div B3
      /\ ScaleBy(k, div_remainder' # 0 \/ stale' # 0)
      /\ UNCHANGED <<numer, denom, divisor, strip, div_result>>
  BY DEF ScaleLong, operands
<1>2. /\ k \in 1..MAX_I32_SCALE /\ div_scale + k <= MAX_SCALE
      /\ Max96 < quotient * POWERS[k] => RoundsAbove96(numer.m, Exponent(0), denom.m)
      /\ POWERS[k] \in Nat \ {0} /\ POWERS[k] < Base
  BY <1>1, ScaleFits
<1> HIDE DEF k
<1>3. TellsLost(div_remainder' # 0 \/ stale' # 0)
  <2>1. Width' = 3
    BY <1>1 DEF Width
  <2>2. QED
    BY <2>1 DEF TellsLost, IsFlag, StaleTie
<1>4. stale' \in Word
  <2>1. div_remainder \in Nat /\ div_remainder <= Max96 /\ Max96 = B3 - 1 /\ B3 \in Nat \ {0} /\ Base \in Nat
    BY <1>1, LoopFacts, BaseType DEF Mantissa
  <2> DEFINE u == POWERS[k]
  <2>2. u \in Nat \ {0} /\ u < Base /\ div_remainder < B3
    BY <1>2, <2>1
  <2> HIDE DEF u
  <2>3. div_remainder * u < B3 * u /\ div_remainder * u \in Nat
    BY <2>1, <2>2, Cancel, \A v, z \in Nat : v * z \in Nat
  <2>4. (div_remainder * u) \div B3 < u /\ (div_remainder * u) \div B3 \in Nat
    BY <2>1, <2>2, <2>3, QuotientBound, DivMod
  <2>5. (div_remainder * u) \div B3 \in Word
    BY <2>1, <2>2, <2>4 DEF Word
  <2>6. QED
    BY <1>1, <2>5 DEF u
<1>5. require_unscale' \in BOOLEAN
  BY <1>1
<1>6. QED
  BY <1>1, <1>2, <1>3, <1>4, <1>5, ScaleByDivInv

LEMMA TooLargeDivInv == DivInv /\ TooLarge => DivInv'
<1> SUFFICES ASSUME DivInv, TooLarge PROVE DivInv'
  OBVIOUS
<1>1. /\ pc = "loop" /\ div_scale # MAX_SCALE /\ FindScale(quotient, div_scale) = None
      /\ require_unscale' = TRUE /\ pc' = "overflow"
      /\ UNCHANGED <<numer, denom, quotient, div_remainder, stale, divisor, div_scale, strip, div_result>>
  BY DEF TooLarge, operands
<1>2. /\ quotient \in Mantissa /\ quotient \in Nat /\ div_scale \in (-MAX_SCALE)..MAX_SCALE /\ div_remainder \in Nat
      /\ div_remainder \in Mantissa /\ stale \in Word /\ Exponent(div_scale) \in 0..PowLimit
      /\ Dividend(numer.m, Exponent(div_scale), Shift) = quotient * (denom.m * Shift) + div_remainder
  BY <1>1, LoopFacts
<1>3. div_scale \in (-MAX_SCALE)..(MAX_SCALE - 1)
  BY <1>1, <1>2, ScaleAssumption
<1>4. div_scale < 0 /\ Max96 < quotient * POWERS[-div_scale]
  BY <1>1, <1>2, <1>3, FindScaleFacts
<1>5. div_scale \in (-MAX_SCALE)..0
  BY <1>2, <1>4, ScaleAssumption
<1>6. RoundsAbove96(numer.m, Exponent(0), denom.m)
  BY <1>1, <1>2, <1>4, <1>5, AboveAtZero
<1>7. QED
  BY <1>1, <1>2, <1>6, GiveUpDivInv

\* At the dividend's own scale the largest mantissa leaves nothing to round.
LEMMA CarryScaled ==
    ASSUME DivInv, pc = "loop", div_remainder # 0, quotient = Max96
    PROVE  Exponent(div_scale) \in 1..PowLimit
<1>1. /\ numer \in Decimal /\ numer.m \in Nat /\ denom.m \in Nat \ {0} /\ Shift \in Nat \ {0} /\ div_remainder \in Nat
      /\ Exponent(div_scale) \in 0..PowLimit
      /\ Dividend(numer.m, Exponent(div_scale), Shift) = quotient * (denom.m * Shift) + div_remainder
  BY LoopFacts
<1>2. SUFFICES ASSUME Exponent(div_scale) = 0 PROVE FALSE
  BY <1>1
<1>3. POWERS[0] = 1
  BY PowersAssumption
<1>4. numer.m <= Max96 /\ Max96 \in Nat
  BY <1>1, BaseType DEF Decimal, Mantissa
<1> DEFINE n == numer.m
<1> DEFINE d == denom.m
<1> DEFINE w == Shift
<1>5. n \in Nat /\ n <= Max96 /\ d \in Nat \ {0} /\ d \in Int /\ 1 <= d /\ w \in Nat
  BY <1>1, <1>4
<1>6. n * w = Max96 * (d * w) + div_remainder
  <2>1. (n * POWERS[0]) * w = Max96 * (d * w) + div_remainder
    BY <1>1, <1>2 DEF Dividend
  <2>2. n * POWERS[0] = n
    BY <1>3, <1>5
  <2>3. QED
    BY <2>1, <2>2
<1> HIDE DEF n, d, w
<1>7. n * w <= Max96 * w /\ n * w \in Int
  BY <1>4, <1>5, MulMono
<1>8. 1 * (Max96 * w) <= d * (Max96 * w) /\ d * (Max96 * w) = Max96 * (d * w) /\ Max96 * w \in Nat /\ Max96 * (d * w) \in Int
  <2>1. Max96 * w \in Nat
    BY <1>4, <1>5, \A u, v \in Nat : u * v \in Nat
  <2>2. 1 * (Max96 * w) <= d * (Max96 * w)
    BY <1>5, <2>1, MulMono, 1 \in Int
  <2>3. d * (Max96 * w) = Max96 * (d * w) /\ Max96 * (d * w) \in Int
    BY <1>4, <1>5
  <2>4. QED
    BY <2>1, <2>2, <2>3
<1>9. QED
  BY <1>1, <1>2, <1>6, <1>7, <1>8

LEMMA RoundLastDivInv == DivInv /\ RoundLast => DivInv'
<1> SUFFICES ASSUME DivInv, RoundLast PROVE DivInv'
  OBVIOUS
<1> DEFINE twice == 2 * div_remainder
<1> DEFINE up == twice > divisor \/ (twice = divisor /\ quotient % 2 = 1)
<1> DEFINE e == Exponent(div_scale)
<1>1. /\ pc = "loop" /\ div_remainder # 0 /\ LastDigit /\ require_unscale' = TRUE
      /\ IF up
         THEN IF quotient = Max96
              THEN FromOverflow(0, div_scale, TRUE)
              ELSE quotient' = quotient + 1 /\ pc' = "unscale" /\ UNCHANGED div_scale
         ELSE pc' = "unscale" /\ UNCHANGED <<quotient, div_scale>>
      /\ UNCHANGED <<numer, denom, div_remainder, stale, divisor, strip, div_result>>
  BY DEF RoundLast, operands
<1>2. /\ numer.m \in Nat /\ denom.m \in Nat \ {0} /\ Shift \in Nat \ {0}
      /\ divisor = denom.m * Shift /\ divisor \in Nat \ {0}
      /\ quotient \in Nat /\ quotient \in Mantissa
      /\ div_remainder \in Nat /\ div_remainder \in Mantissa /\ div_remainder < divisor /\ stale \in Word
      /\ div_scale \in (-MAX_SCALE)..MAX_SCALE /\ e \in 0..PowLimit
      /\ Dividend(numer.m, e, Shift) = quotient * (denom.m * Shift) + div_remainder
      /\ numer.s \in 0..MAX_SCALE /\ denom.s \in 0..MAX_SCALE
  BY <1>1, LoopFacts
<1>3. div_scale \in 0..MAX_SCALE
      /\ (div_scale = MAX_SCALE \/ (e + 1 <= PowLimit /\ Max96 < quotient * Ten))
  <2>1. CASE div_scale = MAX_SCALE
    BY <2>1, ScaleAssumption
  <2>2. CASE div_scale # MAX_SCALE
    <3>1. div_scale \in (-MAX_SCALE)..(MAX_SCALE - 1) /\ FindScale(quotient, div_scale) = 0
      BY <1>1, <1>2, <2>2, ScaleAssumption DEF LastDigit
    <3>2. div_scale >= 0 /\ Max96 < quotient * Ten
      BY <1>2, <3>1, FindScaleFacts
    <3>3. e + 1 = Exponent(div_scale + 1) /\ div_scale + 1 \in (-MAX_SCALE)..MAX_SCALE
      BY <1>2, <3>1, ScaleAssumption DEF Exponent
    <3>4. Exponent(div_scale + 1) <= PowLimit
      BY <1>1, <3>3, LoopFacts
    <3>5. QED
      BY <3>1, <3>2, <3>3, <3>4, ScaleAssumption
  <2>3. QED
    BY <2>1, <2>2
<1>4. require_unscale' \in BOOLEAN /\ div_remainder' \in Mantissa /\ stale' \in Word
  BY <1>1, <1>2
<1>5. StaleTie' \in BOOLEAN
  BY DEF StaleTie
<1>6. Max96 \in Nat /\ \A m \in Nat : m <= Max96 => m \in Mantissa
  BY BaseType DEF Mantissa
<1>7. CASE ~(up /\ quotient = Max96)
  <2>1. pc' = "unscale" /\ div_scale' = div_scale /\ quotient' = IF up THEN quotient + 1 ELSE quotient
    BY <1>1, <1>7
  <2>2. quotient' \in Mantissa
    <3>1. quotient <= Max96
      BY <1>2, <1>6 DEF Mantissa
    <3>2. QED
      BY <1>2, <1>6, <1>7, <2>1, <3>1
  <2>3. quotient' = ByRemainder(quotient, div_remainder, denom.m * Shift)
    BY <1>2, <2>1 DEF ByRemainder
  <2>4. KeptAt(quotient', div_scale, numer.m, e, denom.m, StaleTie')
    <3> DEFINE v == quotient'
    <3> DEFINE u == StaleTie'
    <3>1. v \in Mantissa /\ u \in BOOLEAN /\ v = ByRemainder(quotient, div_remainder, denom.m * Shift)
      BY <1>5, <2>2, <2>3
    <3>2. div_remainder < denom.m * Shift
      BY <1>2
    <3> HIDE DEF u, v, e, twice, up
    <3> DEFINE n == numer.m
    <3> DEFINE d == denom.m
    <3> DEFINE w == Shift
    <3> DEFINE r == div_remainder
    <3>3. /\ n \in Nat /\ d \in Nat \ {0} /\ w \in Nat \ {0} /\ e \in 0..PowLimit
          /\ quotient \in Nat /\ r \in Nat /\ r < d * w /\ v = ByRemainder(quotient, r, d * w)
          /\ Dividend(n, e, w) = quotient * (d * w) + r
      BY <1>2, <3>1, <3>2
    <3> HIDE DEF n, d, w, r
    <3>4. KeptAt(v, div_scale, n, e, d, u)
      BY <1>3, <3>1, <3>3, KeptLast
    <3>5. QED
      BY <3>4 DEF u, v, n, d
  <2>5. QED
    BY <1>1, <1>3, <1>4, <2>1, <2>2, <2>4, StopDivInv
<1>8. CASE up /\ quotient = Max96
  <2>1. FromOverflow(0, div_scale, TRUE)
    BY <1>1, <1>8
  <2>2. e \in 1..PowLimit
    BY <1>1, <1>8, CarryScaled
  <2>3. denom.m * Shift <= 2 * div_remainder /\ div_remainder < denom.m * Shift
        /\ Dividend(numer.m, e, Shift) = Max96 * (denom.m * Shift) + div_remainder
    <3>1. divisor <= twice
      BY <1>2, <1>8
    <3>2. QED
      BY <1>2, <1>8, <3>1
  <2>4. div_scale \in Int
    BY <1>2
  <2>5. CASE div_scale - 1 < 0
    <3>1. pc' = "overflow" /\ UNCHANGED <<quotient, div_scale>>
      BY <2>1, <2>4, <2>5, FromOverflowSteps
    <3>2. div_scale = 0
      BY <1>3, <2>5, ScaleAssumption
    <3>3. RoundsAbove96(numer.m, e, denom.m)
      BY <1>2, <2>3, AboveHalf
    <3>4. RoundsAbove96(numer.m, Exponent(0), denom.m)
      BY <3>2, <3>3
    <3>5. QED
      BY <1>1, <1>4, <3>1, <3>4, GiveUpDivInv
  <2>6. CASE ~(div_scale - 1 < 0)
    <3>1. pc' = "unscale" /\ quotient' = Unscaled(0, TRUE) /\ div_scale' = div_scale - 1
      BY <2>1, <2>4, <2>6, FromOverflowSteps
    <3>2. div_scale' \in 0..MAX_SCALE /\ Exponent(div_scale') = e - 1
      BY <1>2, <1>3, <2>6, <3>1, ScaleAssumption DEF Exponent
    <3>3. KeptAt(quotient', div_scale', numer.m, Exponent(div_scale'), denom.m, StaleTie')
      <4> DEFINE v == div_scale'
      <4> DEFINE u == StaleTie'
      <4>1. v \in 0..MAX_SCALE /\ u \in BOOLEAN
        BY <1>5, <3>2
      <4> HIDE DEF u, v, e
      <4>2. KeptAt(Unscaled(0, TRUE), v, numer.m, e - 1, denom.m, u)
        BY <1>2, <2>2, <2>3, <4>1, KeptCarry, ZenonT(60)
      <4>3. KeptAt(quotient', v, numer.m, Exponent(div_scale'), denom.m, u)
        BY <3>1, <3>2, <4>2
      <4>4. QED
        BY <4>3 DEF u, v
    <3>4. quotient' \in Mantissa
      BY <3>3 DEF KeptAt
    <3>5. pc' \in {"unscale", "return"} /\ UNCHANGED <<numer, denom, divisor, strip, div_result>>
      BY <1>1, <3>1
    <3>6. QED
      BY <1>1, <1>4, <3>2, <3>3, <3>4, <3>5, StopDivInv
  <2>7. QED
    BY <2>5, <2>6
<1>9. QED
  BY <1>7, <1>8

\* A step of unscale changes neither the value nor what it promises.
LEMMA StripDivInv ==
    ASSUME DivInv, pc = "unscale", pc' \in {"unscale", "return"},
           UNCHANGED <<numer, denom, div_remainder, stale, divisor, require_unscale, div_result>>,
           strip' \in 0..(Len(UnscaleSteps) + 1), NEW k \in 0..MAX_I32_SCALE,
           div_scale >= k, quotient % POWERS[k] = 0,
           quotient' = quotient \div POWERS[k], div_scale' = div_scale - k
    PROVE  DivInv'
<1>1. /\ numer \in Decimal /\ denom \in Decimal /\ quotient \in Mantissa /\ div_remainder \in Mantissa /\ stale \in Word
      /\ divisor \in Mantissa /\ div_scale \in (-MAX_SCALE)..MAX_SCALE /\ div_scale >= 0
      /\ require_unscale \in BOOLEAN /\ div_result \in Decimal
      /\ numer.m # 0 /\ denom.m # 0 /\ Promised(quotient, div_scale)
  BY DEF DivInv, DivTypeOK
<1>2. /\ div_scale \in 0..MAX_SCALE /\ MAX_SCALE \in Nat /\ MAX_I32_SCALE \in Nat /\ k \in 0..PowLimit /\ k \in Nat
      /\ MAX_SCALE <= PowLimit /\ PowLimit \in Nat
  BY <1>1, ScaleAssumption
<1>3. quotient \in Nat /\ quotient <= Max96 /\ Max96 \in Nat
  BY <1>1, BaseType DEF Mantissa
<1>4. POWERS[k] \in Nat \ {0} /\ POWERS[k] >= 1
  BY <1>2, PowersType
<1> DEFINE p10 == POWERS[k]
<1>5. quotient' \in Nat /\ quotient = quotient' * p10 /\ quotient' <= Max96
  <2>1. quotient' \in Nat /\ quotient = quotient' * p10 + 0
    BY <1>3, <1>4, DivMod
  <2>2. p10 \in Nat /\ p10 >= 1
    BY <1>4
  <2> HIDE DEF p10
  <2>3. 1 * quotient' <= p10 * quotient' /\ p10 * quotient' = quotient' * p10 /\ quotient' * p10 \in Int
    BY <2>1, <2>2, MulMono, 1 \in Int
  <2>4. QED
    BY <1>3, <2>1, <2>3
<1>6. quotient' \in Mantissa /\ div_scale' \in 0..MAX_SCALE /\ div_scale' \in (-MAX_SCALE)..MAX_SCALE /\ div_scale' >= 0
  BY <1>2, <1>3, <1>5 DEF Mantissa
<1>7. DivTypeOK'
  BY <1>1, <1>6 DEF DivTypeOK
<1>8. LongDivisionExact' /\ DivNearest' /\ DivHalfEven'
  BY DEF LongDivisionExact, DivNearest, DivHalfEven, Quotients
<1>9. Promised(quotient, div_scale)'
  <2>1. PICK p \in div_scale..MAX_SCALE : KeptAt(quotient * POWERS[p - div_scale], p, numer.m, Exponent(p), denom.m, StaleTie)
    BY <1>1 DEF Promised
  <2>2. /\ p \in div_scale'..MAX_SCALE /\ p - div_scale \in 0..PowLimit /\ k + (p - div_scale) <= PowLimit
        /\ k + (p - div_scale) = p - div_scale'
    BY <1>2, <1>6, <2>1
  <2>3. POWERS[k + (p - div_scale)] = POWERS[k] * POWERS[p - div_scale] /\ POWERS[p - div_scale] \in Nat
    BY <1>2, <2>2, PowersAdd, PowersType
  <2> DEFINE v == POWERS[p - div_scale]
  <2>4. quotient * v = quotient' * (p10 * v)
    <3>1. v \in Nat /\ p10 \in Nat
      BY <1>4, <2>3
    <3> HIDE DEF v, p10
    <3>2. QED
      BY <1>5, <3>1, MulAssoc
  <2>5. quotient * POWERS[p - div_scale] = quotient' * POWERS[p - div_scale']
    BY <2>2, <2>3, <2>4
  <2>6. KeptAt(quotient' * POWERS[p - div_scale'], p, numer.m, Exponent(p), denom.m, StaleTie)
    BY <2>1, <2>5
  <2>7. Exponent(p)' = Exponent(p) /\ StaleTie' = StaleTie
    BY DEF Exponent, StaleTie, Width
  <2>8. KeptAt(quotient' * POWERS[p - div_scale'], p, numer'.m, Exponent(p)', denom'.m, StaleTie')
    BY <2>6, <2>7
  <2>9. QED
    BY <2>2, <2>8 DEF Promised, Exponent
<1>10. QED
  BY <1>1, <1>7, <1>8, <1>9 DEF DivInv

\* A step that strips nothing takes no digit off.
LEMMA NoStripDivInv ==
    ASSUME DivInv, pc = "unscale", pc' \in {"unscale", "return"},
           UNCHANGED <<numer, denom, quotient, div_remainder, stale, divisor, div_scale, require_unscale, div_result>>,
           strip' \in 0..(Len(UnscaleSteps) + 1)
    PROVE  DivInv'
<1>1. POWERS[0] = 1 /\ 0 \in 0..MAX_I32_SCALE
  BY PowersAssumption, ScaleAssumption
<1>2. quotient \in Nat /\ div_scale \in Int /\ div_scale >= 0
  BY BaseType, ScaleAssumption DEF DivInv, DivTypeOK, Mantissa
<1>3. quotient % 1 = 0 /\ quotient \div 1 = quotient
  BY <1>2
<1>4. div_scale >= 0 /\ div_scale - 0 = div_scale
  BY <1>2
<1>5. QED
  BY <1>1, <1>3, <1>4, StripDivInv

LEMMA UnscaleManyDivInv == DivInv /\ UnscaleMany => DivInv'
<1> SUFFICES ASSUME DivInv, UnscaleMany PROVE DivInv'
  OBVIOUS
<1>1. /\ pc = "unscale" /\ pc' = pc
      /\ UNCHANGED <<numer, denom, div_remainder, stale, divisor, require_unscale, div_result>>
  BY DEF UnscaleMany, operands
<1>2. Len(UnscaleSteps) \in Nat /\ UnscaleChunk \in 0..MAX_I32_SCALE
  BY UnscaleAssumption, ScaleAssumption
<1>3. CASE Lo(quotient) = 0 /\ Strips(UnscaleChunk)
  <2>1. /\ quotient' = quotient \div POWERS[UnscaleChunk] /\ div_scale' = div_scale - UnscaleChunk
        /\ strip' = strip /\ div_scale >= UnscaleChunk /\ quotient % POWERS[UnscaleChunk] = 0
    BY <1>3 DEF UnscaleMany, Strips
  <2>2. strip' \in 0..(Len(UnscaleSteps) + 1)
    BY <2>1 DEF DivInv, DivTypeOK
  <2>3. QED
    BY <1>1, <1>2, <2>1, <2>2, StripDivInv
<1>4. CASE ~(Lo(quotient) = 0 /\ Strips(UnscaleChunk))
  <2>1. strip' = 1 /\ UNCHANGED <<quotient, div_scale>>
    BY <1>4 DEF UnscaleMany
  <2>2. strip' \in 0..(Len(UnscaleSteps) + 1)
    BY <1>2, <2>1
  <2>3. QED
    BY <1>1, <2>1, <2>2, NoStripDivInv
<1>5. QED
  BY <1>3, <1>4

LEMMA UnscaleFewDivInv == DivInv /\ UnscaleFew => DivInv'
<1> SUFFICES ASSUME DivInv, UnscaleFew PROVE DivInv'
  OBVIOUS
<1> DEFINE k == UnscaleSteps[strip]
<1>1. /\ pc = "unscale" /\ pc' \in {"unscale", "return"} /\ strip \in 1..Len(UnscaleSteps) /\ strip' = strip + 1
      /\ UNCHANGED <<numer, denom, div_remainder, stale, divisor, require_unscale, div_result>>
      /\ IF Strips(k)
         THEN quotient' = quotient \div POWERS[k] /\ div_scale' = div_scale - k
         ELSE UNCHANGED <<quotient, div_scale>>
  BY DEF UnscaleFew, operands
<1>2. Len(UnscaleSteps) \in Nat /\ k \in 1..MAX_I32_SCALE
  <2>1. UnscaleSteps \in Seq(1..MAX_I32_SCALE)
    BY UnscaleAssumption
  <2>2. Len(UnscaleSteps) \in Nat
    BY <2>1
  <2>3. \A S : UnscaleSteps \in Seq(S) => \A i \in 1..Len(UnscaleSteps) : UnscaleSteps[i] \in S
    OBVIOUS
  <2>4. QED
    BY <1>1, <2>1, <2>2, <2>3
<1>3. k \in 0..MAX_I32_SCALE
  BY <1>2, ScaleAssumption
<1>4. strip' \in 0..(Len(UnscaleSteps) + 1)
  BY <1>1, <1>2
<1> HIDE DEF k
<1>5. CASE Strips(k)
  <2>1. /\ quotient' = quotient \div POWERS[k] /\ div_scale' = div_scale - k
        /\ div_scale >= k /\ quotient % POWERS[k] = 0
    BY <1>1, <1>5 DEF Strips
  <2>2. QED
    BY <1>1, <1>3, <1>4, <2>1, StripDivInv
<1>6. CASE ~Strips(k)
  BY <1>1, <1>4, <1>6, NoStripDivInv
<1>7. QED
  BY <1>5, <1>6

LEMMA DivReturnDivInv == DivInv /\ DivReturn => DivInv'
<1> SUFFICES ASSUME DivInv, DivReturn PROVE DivInv'
  OBVIOUS
<1>1. /\ pc = "return" /\ pc' = "done" /\ div_result' = FromParts(quotient, sign_negative, div_scale)
      /\ UNCHANGED <<numer, denom, quotient, div_remainder, stale, divisor, div_scale, require_unscale, strip>>
  BY DEF DivReturn, operands
<1>2. /\ quotient \in Mantissa /\ div_scale \in (-MAX_SCALE)..MAX_SCALE /\ div_scale >= 0
      /\ numer \in Decimal /\ denom \in Decimal /\ denom.m # 0 /\ Promised(quotient, div_scale)
  BY <1>1 DEF DivInv, DivTypeOK
<1>3. div_scale \in 0..MAX_SCALE /\ div_scale \in Int /\ MAX_SCALE \in Nat /\ MAX_SCALE <= PowLimit /\ PowLimit \in Nat
  BY <1>2, ScaleAssumption
<1>4. sign_negative \in BOOLEAN
  BY DEF sign_negative
<1>5. div_result' \in Decimal /\ (div_result'.m # 0 => div_result'.neg = sign_negative)
  BY <1>1, <1>2, <1>3, <1>4, FromPartsType
<1>6. div_result'.m = quotient /\ div_result'.s = div_scale
  BY <1>1 DEF FromParts
<1>7. DivTypeOK'
  BY <1>1, <1>5 DEF DivInv, DivTypeOK
<1>8. PICK p \in div_scale..MAX_SCALE : KeptAt(quotient * POWERS[p - div_scale], p, numer.m, Exponent(p), denom.m, StaleTie)
  BY <1>2 DEF Promised
<1>9. /\ \A s : Exponent(s)' = Exponent(s)
      /\ StaleTie' = StaleTie /\ sign_negative' = sign_negative
  BY <1>1 DEF Exponent, StaleTie, Width, sign_negative
<1>10. Exponent(p + 1) = Exponent(p) + 1 /\ p \in Int
  <2>1. p \in Int /\ numer.s \in Int /\ denom.s \in Int
    BY <1>2, <1>3, <1>8, ScaleAssumption DEF Decimal
  <2>2. QED
    BY <2>1 DEF Exponent
<1>11. DigitsKept(p)'
  <2> DEFINE m == quotient * POWERS[p - div_scale]
  <2>1. /\ m \in Mantissa /\ IsNearest(m, numer.m, Exponent(p), denom.m)
        /\ IsExact(m, numer.m, Exponent(p), denom.m) \/ p = MAX_SCALE \/ RoundsAbove96(numer.m, Exponent(p + 1), denom.m)
    BY <1>8, <1>10 DEF KeptAt
  <2>2. m <= Max96
    BY <2>1, BaseType DEF Mantissa
  <2>3. div_result'.m * POWERS[p - div_result'.s] = m
    BY <1>6
  <2> HIDE DEF m
  <2>4. QED
    BY <1>1, <1>9, <2>1, <2>2, <2>3 DEF DigitsKept
<1>12. DivNearest'
  <2>1. p \in div_result'.s..MAX_SCALE
    BY <1>6, <1>8
  <2>2. div_result'.m # 0 => div_result'.neg = sign_negative'
    BY <1>5, <1>9
  <2>3. QED
    BY <1>1, <1>11, <2>1, <2>2 DEF DivNearest
<1>13. ~StaleTie /\ IsTie(quotient, numer.m, Exponent(div_scale), denom.m) => quotient % 2 = 0
  <2>1. CASE p = div_scale
    <3>1. POWERS[p - div_scale] = 1
      BY <1>3, <2>1, PowersAssumption
    <3>2. quotient * POWERS[p - div_scale] = quotient
      BY <1>2, <3>1, BaseType DEF Mantissa
    <3>3. KeptAt(quotient, p, numer.m, Exponent(p), denom.m, StaleTie)
      BY <1>8, <3>2
    <3>4. QED
      BY <2>1, <3>3 DEF KeptAt
  <2>2. CASE p # div_scale
    <3> DEFINE j == p - div_scale
    <3>1. j \in 1..PowLimit /\ Exponent(p) - j = Exponent(div_scale)
      <4>1. numer.s \in Int /\ denom.s \in Int
        BY <1>2, ScaleAssumption DEF Decimal
      <4>2. QED
        BY <1>3, <1>8, <1>10, <2>2, <4>1 DEF Exponent
    <3>2. IsNearest(quotient * POWERS[j], numer.m, Exponent(p), denom.m) /\ Exponent(p) \in 0..PowLimit
      BY <1>8 DEF KeptAt
    <3>3. quotient \in Nat /\ numer.m \in Nat /\ denom.m \in Nat \ {0}
      BY <1>2, BaseType DEF Decimal, Mantissa
    <3> HIDE DEF j
    <3>4. ~IsTie(quotient, numer.m, Exponent(p) - j, denom.m)
      BY <3>1, <3>2, <3>3, StrippedNoTie
    <3>5. QED
      BY <3>1, <3>4
  <2>3. QED
    BY <2>1, <2>2
<1>14. DivHalfEven'
  BY <1>1, <1>6, <1>9, <1>13 DEF DivHalfEven
<1>15. LongDivisionExact'
  BY <1>1 DEF LongDivisionExact
<1>16. QED
  BY <1>1, <1>7, <1>12, <1>14, <1>15 DEF DivInv

-----------------------------------------------------------------------------
LEMMA DivStep == DivInv /\ [Next]_vars => DivInv'
<1> SUFFICES ASSUME DivInv, [Next]_vars PROVE DivInv'
  OBVIOUS
<1>1. CASE DivByZero
  BY <1>1, DivByZeroDivInv
<1>2. CASE ZeroDividend
  BY <1>2, ZeroDividendDivInv
<1>3. CASE DivideOnce
  BY <1>3, DivideDivInv
<1>4. CASE Exact
  BY <1>4, ExactDivInv
<1>5. CASE ScaleExact
  BY <1>5, ScaleExactDivInv
<1>6. CASE ScaleShort
  BY <1>6, ScaleShortDivInv
<1>7. CASE ScaleLong
  BY <1>7, ScaleLongDivInv
<1>8. CASE TooLarge
  BY <1>8, TooLargeDivInv
<1>9. CASE RoundLast
  BY <1>9, RoundLastDivInv
<1>10. CASE UnscaleMany
  BY <1>10, UnscaleManyDivInv
<1>11. CASE UnscaleFew
  BY <1>11, UnscaleFewDivInv
<1>12. CASE DivReturn
  BY <1>12, DivReturnDivInv
<1>13. CASE UNCHANGED vars
  <2>1. /\ UNCHANGED <<numer, denom, quotient, div_remainder, stale, divisor, div_scale, require_unscale, strip, div_result, pc>>
        /\ Shift' = Shift /\ StaleTie' = StaleTie /\ sign_negative' = sign_negative
        /\ \A s : Exponent(s)' = Exponent(s)
    BY <1>13 DEF vars, Shift, Width, Whole, StaleTie, sign_negative, Exponent
  <2>2. DivTypeOK'
    BY <2>1 DEF DivInv, DivTypeOK
  <2>3. LongDivisionExact' /\ Promised(quotient, div_scale)' = Promised(quotient, div_scale)
    BY <2>1 DEF DivInv, LongDivisionExact, Promised
  <2>4. DivNearest' /\ DivHalfEven'
    BY <2>1 DEF DivInv, DivNearest, DivHalfEven, Quotients, DigitsKept
  <2>5. QED
    BY <2>1, <2>2, <2>3, <2>4 DEF DivInv
<1>14. QED
  BY <1>1, <1>2, <1>3, <1>4, <1>5, <1>6, <1>7, <1>8, <1>9, <1>10, <1>11, <1>12, <1>13 DEF Next

\* The invariant holds of every division.
THEOREM DivInvariant == Spec => []DivInv
<1>1. QED
  BY InitDivInv, DivStep, PTL DEF Spec

\* The words, the scale and the flags of div_impl stay within their types; the
\* remainder of a pass is below the divisor.
THEOREM DivTypeCorrect == Spec => []DivTypeOK
<1>1. DivInv => DivTypeOK
  BY DEF DivInv
<1>2. QED
  BY <1>1, DivInvariant, PTL

\* No digit of the dividend is lost between two passes of the loop.
THEOREM DivExact == Spec => []LongDivisionExact
<1>1. DivInv => LongDivisionExact
  BY DEF DivInv
<1>2. QED
  BY <1>1, DivInvariant, PTL

\* div_impl returns a nearest quotient with as many digits as can be had, and
\* overflows only where none fits.
THEOREM DivCorrect == Spec => []DivNearest
<1>1. DivInv => DivNearest
  BY DEF DivInv
<1>2. QED
  BY <1>1, DivInvariant, PTL

\* Ties go to the even neighbour, but for those that the stale word spoils.
THEOREM DivTies == Spec => []DivHalfEven
<1>1. DivInv => DivHalfEven
  BY DEF DivInv
<1>2. QED
  BY <1>1, DivInvariant, PTL

\* The power a pass scales by is the largest that fits.
THEOREM DivScalesByLargest == Spec => []ScalesByLargest
<1>1. DivInv => ScalesByLargest
  <2>1. SUFFICES ASSUME DivInv, pc = "loop", div_scale < MAX_SCALE
                 PROVE  LET fits == {k \in 0..MAX_I32_SCALE : div_scale + k <= MAX_SCALE /\ quotient * POWERS[k] <= Max96}
                            best == CHOOSE k \in fits : \A j \in fits : j <= k
                            found == FindScale(quotient, div_scale)
                        IN  found = best \/ (found = None /\ best + div_scale < 0)
    BY DEF ScalesByLargest
  <2> DEFINE fits == {k \in 0..MAX_I32_SCALE : div_scale + k <= MAX_SCALE /\ quotient * POWERS[k] <= Max96}
  <2> DEFINE best == CHOOSE k \in fits : \A j \in fits : j <= k
  <2>2. quotient \in Mantissa /\ div_scale \in (-MAX_SCALE)..MAX_SCALE
    BY <2>1, LoopFacts
  <2>3. div_scale \in (-MAX_SCALE)..(MAX_SCALE - 1)
    BY <2>1, <2>2, ScaleAssumption
  <2>4. PICK f \in 0..MAX_I32_SCALE :
            /\ Largest(f, quotient, div_scale)
            /\ \/ FindScale(quotient, div_scale) = f /\ (f = 0 => div_scale >= 0)
               \/ FindScale(quotient, div_scale) = None /\ f + div_scale < 0 /\ Max96 < quotient * POWERS[f + 1]
    BY <2>2, <2>3, FindScaleLargest
  <2>5. f \in fits
    BY <2>4 DEF Largest
  <2>6. \A j \in fits : j <= f
    BY <2>2, <2>4, LargestAbove
  <2>7. fits \subseteq Nat
    BY ScaleAssumption
  <2>8. best = f
    <3>1. best \in fits /\ \A j \in fits : j <= best
      BY <2>5, <2>6
    <3> HIDE DEF best
    <3>2. best <= f /\ f <= best /\ best \in Nat /\ f \in Nat
      BY <2>5, <2>6, <2>7, <3>1
    <3>3. QED
      BY <3>2
  <2>9. QED
    BY <2>4, <2>8
<1>2. QED
  BY <1>1, DivInvariant, PTL
=============================================================================
