---------------------------- MODULE AddMul_proofs ----------------------------
(***************************************************************************)
(* Buf24::rescale and its callers mul_impl, add_impl and sub_impl, for     *)
(* every word size, radix and table of powers.                             *)
(*                                                                         *)
(* Buf24::rescale rounds correctly: between passes the buffer is the       *)
(* quotient of the call's number by the power of ten dropped so far, and   *)
(* the remainder together with the sticky flag is zero exactly when        *)
(* nothing was lost (Between, Within); after a carry over 96 bits the      *)
(* buffer is the rounded, not the truncated, quotient, but the carried     *)
(* value is too far from a tie for the second rounding to differ           *)
(* (CarriedBetween).                                                       *)
(*                                                                         *)
(* mul_impl is correct: the partial products add up to the product of the  *)
(* mantissas whatever carries occur between them, and what is returned is  *)
(* that product with the digits Buf24::rescale has rounded off, so that    *)
(* every step of Mul is one of RoundedResult or none.                      *)
(*                                                                         *)
(* add_impl and sub_impl round correctly, but for the borrows that         *)
(* unaligned_add miscounts: until it is added to, what is in hand is the   *)
(* operand of the smaller scale, less the powers of ten still due          *)
(* (ScalingExact); the wrapping sums and differences of 96 bits are exact  *)
(* with the carry or the borrow they report; the carry loop owes the word  *)
(* it has reached until it stops; and a buffer that is rescaled holds the  *)
(* exact sum.                                                              *)
(***************************************************************************)
EXTENDS AddSub, Mul, DecimalLemmas, FiniteSetTheorems

-----------------------------------------------------------------------------
(***************************************************************************)
(* Buf24::rescale                                                          *)
(***************************************************************************)

\* Digits dropped before the pass about to start.
Before == arg.s - scale - target
\* Digits dropped after the pass just made, of which the last Chunk(target).
After == arg.s - scale - target + Chunk(target)

\* The buffer is a quotient; the flags say whether its remainder is zero.
Between ==
    LET rest == arg.v - val * POWERS[Before]
    IN  /\ rest \in Nat
        /\ rest < POWERS[Before]
        /\ (sticky \/ remainder # 0) <=> rest # 0

\* The same in the middle of a pass, the last remainder set apart.
Within ==
    LET last == POWERS[After - Chunk(target)]
        rest == arg.v - val * POWERS[After] - remainder * last
    IN  /\ rest \in Nat
        /\ rest < last
        /\ remainder < POWERS[Chunk(target)]
        /\ sticky <=> rest # 0

\* A rounding carried: the buffer is 2^96, above the quotient by at most a half.
CarriedBetween ==
    /\ val = B3 /\ upper = 3 /\ target = 1
    /\ sticky = FALSE /\ remainder = 0
    /\ B3 * POWERS[Before] - arg.v > 0
    /\ 2 * (B3 * POWERS[Before] - arg.v) <= POWERS[Before]

CarriedWithin ==
    LET last == POWERS[After - 1]
    IN  /\ target = 1 /\ upper = 2 /\ sticky = FALSE
        /\ val = B3 \div Ten /\ remainder = B3 % Ten
        /\ B3 * last - arg.v > 0
        /\ 2 * (B3 * last - arg.v) <= last

\* The inductive invariant.
RescaleInv ==
    /\ RescaleTypeOK
    /\ scale <= arg.s
    /\ rpc \in {"enter", "divide", "check"} => val < Weight[upper + 1]
    /\ rpc = "enter" =>
         /\ val = arg.v /\ scale = arg.s /\ target = 0
         /\ sticky = FALSE /\ remainder = 0
    /\ rpc \in {"divide", "check"} =>
         target >= 1 /\ scale <= MAX_SCALE /\ scale + target <= arg.s
    /\ rpc = "divide" => Between \/ CarriedBetween
    /\ rpc = "check" => Within \/ CarriedWithin
    /\ RescaleRounded

-----------------------------------------------------------------------------
\* The weights of the words are powers of Base.
LEMMA WeightType ==
    /\ \A i \in 0..6 : Weight[i] \in Nat \ {0}
    /\ \A i \in 0..5 : Weight[i + 1] = Base * Weight[i]
    /\ Weight[0] = 1 /\ Weight[3] = B3 /\ Weight[6] = B3 * B3
    /\ \A i \in 0..3 : Weight[i] <= B3
<1>1. /\ Weight[0] = 1 /\ Weight[1] = Base /\ Weight[2] = B2 /\ Weight[3] = B3
      /\ Weight[4] = B3 * Base /\ Weight[5] = B3 * B2 /\ Weight[6] = B3 * B3
  BY DEF Weight
<1>2. Base \in Nat \ {0} /\ B2 \in Nat \ {0} /\ B3 \in Nat \ {0} /\ Base < B2 /\ B2 < B3
  BY BaseType
<1>3. B3 * Base \in Nat \ {0} /\ B3 * B2 \in Nat \ {0} /\ B3 * B3 \in Nat \ {0}
  BY <1>2
<1>4. \A i \in 0..6 : Weight[i] \in Nat \ {0}
  BY <1>1, <1>2, <1>3
<1>5. B2 = Base * Base /\ B3 = Base * B2 /\ B3 * Base = Base * B3
      /\ B3 * B2 = Base * (B3 * Base) /\ B3 * B3 = Base * (B3 * B2)
  BY <1>2 DEF B2, B3
<1>6. \A i \in 0..5 : Weight[i + 1] = Base * Weight[i]
  BY <1>1, <1>2, <1>5
<1>7. \A i \in 0..3 : Weight[i] <= B3
  BY <1>1, <1>2
<1>8. QED
  BY <1>1, <1>4, <1>6, <1>7

\* The words of a number have a highest one in use.
LEMMA UpperWordType ==
    ASSUME NEW v \in Nat, v < Weight[6]
    PROVE  /\ UpperWord(v) \in 0..5
           /\ UpperWord(v) > 0 => Weight[UpperWord(v)] <= v
           /\ v < Weight[UpperWord(v) + 1]
<1>1. \E i \in 0..5 : (i > 0 => Weight[i] <= v) /\ v < Weight[i + 1]
  <2>1. \A i \in 0..6 : Weight[i] \in Nat
    BY WeightType
  <2>2. CASE v < Weight[1]
    BY <2>2
  <2>3. CASE Weight[1] <= v /\ v < Weight[2]
    BY <2>3
  <2>4. CASE Weight[2] <= v /\ v < Weight[3]
    BY <2>4
  <2>5. CASE Weight[3] <= v /\ v < Weight[4]
    BY <2>5
  <2>6. CASE Weight[4] <= v /\ v < Weight[5]
    BY <2>6
  <2>7. CASE Weight[5] <= v
    BY <2>7
  <2>8. QED
    BY <2>1, <2>2, <2>3, <2>4, <2>5, <2>6, <2>7
<1>2. QED
  BY <1>1 DEF UpperWord

\* The bits of a word are counted by a natural number, zero only for zero.
LEMMA BitLengthType ==
    ASSUME NEW w \in Nat
    PROVE  BitLength(w) \in Nat /\ (w # 0 => BitLength(w) >= 1)
<1>1. IsFiniteSet(1..(WordBits - 1))
  BY FS_Interval, BitsAssumption
<1>2. IsFiniteSet({i \in 1..(WordBits - 1) : 2^i <= w})
  BY <1>1, FS_Subset
<1>3. Cardinality({i \in 1..(WordBits - 1) : 2^i <= w}) \in Nat
  BY <1>2, FS_CardinalityType
<1>4. QED
  BY <1>3 DEF BitLength

\* The estimate is an integer, and positive for more than 96 bits.
LEMMA FirstTargetType ==
    ASSUME NEW v \in Nat, NEW u \in 0..5
    PROVE  /\ FirstTarget(v, u) \in Int
           /\ u <= 2 => FirstTarget(v, u) = 0
           /\ u > 2 /\ B3 <= v => FirstTarget(v, u) >= 1
<1>1. CASE u <= 2
  BY <1>1 DEF FirstTarget
<1>2. CASE u > 2
  <2>1. Weight[u] \in Nat \ {0}
    BY WeightType
  <2>2. v \div Weight[u] \in Nat /\ v % Weight[u] \in Nat /\ v % Weight[u] < Weight[u]
        /\ v = (v \div Weight[u]) * Weight[u] + (v % Weight[u])
    BY <2>1, DivMod
  <2>3. Weight[u] <= v => v \div Weight[u] # 0
    BY <2>1, <2>2
  <2> DEFINE bl == BitLength(v \div Weight[u])
  <2>4. bl \in Nat /\ (Weight[u] <= v => bl >= 1)
    BY <2>2, <2>3, BitLengthType
  <2> DEFINE bits == (u - 3) * WordBits - 1 + bl
  <2>5. (u - 3) * WordBits \in Nat /\ (u > 3 => (u - 3) * WordBits >= 1)
    BY <1>2, BitsAssumption
  <2>6. bits \in Int /\ (B3 <= v => bits >= 0)
    <3>1. u = 3 /\ B3 <= v => bl >= 1
      BY <2>4, WeightType
    <3>2. QED
      BY <1>2, <2>4, <2>5, <3>1
  <2> HIDE DEF bl
  <2>7. FirstTarget(v, u) = ((bits * LOG_BITS) \div 256) + 1
    BY <1>2 DEF FirstTarget, bl
  <2> HIDE DEF bits
  <2>8. bits * LOG_BITS \in Int /\ (B3 <= v => bits * LOG_BITS >= 0)
    BY <2>6, LogAssumption
  <2>9. QED
    BY <1>2, <2>7, <2>8
<1>3. QED
  BY <1>1, <1>2

-----------------------------------------------------------------------------
\* Where r whole units of pd and t more lie with respect to the half h * pd.
LEMMA HalfCompare ==
    ASSUME NEW r \in Nat, NEW t \in Nat, NEW h \in Nat, NEW pd \in Nat, t < pd
    PROVE  /\ h < r => r * pd + t > h * pd
           /\ r < h => r * pd + t < h * pd
           /\ r = h => r * pd + t = h * pd + t
<1>1. ASSUME h < r PROVE r * pd >= (h + 1) * pd
  BY <1>1
<1>2. (h + 1) * pd = h * pd + pd /\ (r + 1) * pd = r * pd + pd
  OBVIOUS
<1>3. ASSUME r < h PROVE (r + 1) * pd <= h * pd
  BY <1>3
<1>4. r * pd \in Nat /\ h * pd \in Nat
  OBVIOUS
<1>5. QED
  BY <1>1, <1>2, <1>3, <1>4

\* v in units of p = 2 * h * pd: m whole ones, then r of the last pass, then t below.
Split(m, r, t, h, pd, v, p) ==
    r < 2 * h /\ t < pd /\ p = 2 * (h * pd) /\ v = m * p + (r * pd + t)

\* The code's decision, with t for the digits its flag stands for.
Up(m, r, t, h) == h < r \/ (h = r /\ (m % 2 = 1 \/ t # 0))

\* c units of p are above v, by at most a half.
JustAbove(c, v, p) == c * p - v > 0 /\ 2 * (c * p - v) <= p

\* Rounding by the last remainder r and a flag for the digits t below it is
\* rounding half to even by the whole of what was dropped.
LEMMA RoundOnce ==
    ASSUME NEW m \in Nat, NEW r \in Nat, NEW t \in Nat, NEW h \in Nat, NEW pd \in Nat,
           NEW v \in Nat, NEW p \in Nat, Split(m, r, t, h, pd, v, p)
    PROVE  /\ Up(m, r, t, h) => IsHalfEven(m + 1, v, p) /\ JustAbove(m + 1, v, p)
           /\ ~Up(m, r, t, h) => IsHalfEven(m, v, p)
<1> USE DEF Split, Up, JustAbove
<1> DEFINE tail == r * pd + t
<1> DEFINE half == h * pd
<1>1. /\ h < r => tail > half
      /\ r < h => tail < half
      /\ r = h => tail = half + t
  BY HalfCompare
<1>2. tail < 2 * half
  <2>1. (r + 1) * pd <= (2 * h) * pd
    OBVIOUS
  <2>2. (r + 1) * pd = r * pd + pd /\ (2 * h) * pd = 2 * (h * pd)
    OBVIOUS
  <2>3. r * pd \in Nat /\ h * pd \in Nat
    OBVIOUS
  <2>4. QED
    BY <2>1, <2>2, <2>3
<1>3. tail \in Nat /\ half \in Nat /\ m * p \in Nat
  OBVIOUS
<1>4. (m + 1) * p = m * p + p
  OBVIOUS
<1> HIDE DEF tail, half
<1>5. v - m * p = tail /\ v - (m + 1) * p = tail - 2 * half /\ p = 2 * half
  BY <1>3, <1>4 DEF tail, half
<1>6. m % 2 = 1 => (m + 1) % 2 = 0
  OBVIOUS
<1>7. m % 2 \in {0, 1}
  OBVIOUS
<1>8. CASE h < r \/ (h = r /\ (m % 2 = 1 \/ t # 0))
  <2>1. tail >= half /\ (tail = half => m % 2 = 1)
    BY <1>1, <1>3, <1>8
  <2>2. IsHalfEven(m + 1, v, p)
    BY <1>2, <1>3, <1>5, <1>6, <2>1 DEF IsHalfEven
  <2>3. (m + 1) * p - v > 0 /\ 2 * ((m + 1) * p - v) <= p
    BY <1>2, <1>3, <1>4, <1>5, <2>1
  <2>4. QED
    BY <1>8, <2>2, <2>3
<1>9. CASE ~(h < r \/ (h = r /\ (m % 2 = 1 \/ t # 0)))
  <2>1. tail <= half /\ (tail = half => m % 2 = 0)
    BY <1>1, <1>3, <1>7, <1>9
  <2>2. IsHalfEven(m, v, p)
    BY <1>3, <1>5, <2>1 DEF IsHalfEven
  <2>3. QED
    BY <1>9, <2>2
<1>10. QED
  BY <1>8, <1>9

\* The second rounding after a carry: c * q, e below it by at most half of q,
\* divided by ten = 2 * h.  Not being a tie, it rounds as v itself would.
LEMMA RoundCarried ==
    ASSUME NEW m \in Nat, NEW r \in Nat, NEW h \in Nat, NEW q \in Nat, NEW e \in Nat,
           NEW v \in Nat, NEW p \in Nat,
           h >= 1, r < 2 * h, r # h, e > 0, 2 * e <= q,
           p = 2 * (h * q), v = (m * (2 * h) + r) * q - e
    PROVE  /\ h < r => IsHalfEven(m + 1, v, p)
           /\ r < h => IsHalfEven(m, v, p)
<1>1. (m * (2 * h) + r) * q = m * p + r * q
  OBVIOUS
<1>2. m * p \in Nat /\ r * q \in Nat /\ h * q \in Nat /\ (m + 1) * p = m * p + p
  OBVIOUS
<1>3. q <= h * q
  OBVIOUS
<1>4. CASE h < r
  <2>1. r * q >= (h + 1) * q /\ (h + 1) * q = h * q + q
    BY <1>4
  <2>2. (r + 1) * q <= (2 * h) * q /\ (r + 1) * q = r * q + q /\ (2 * h) * q = 2 * (h * q)
    OBVIOUS
  <2>3. 2 * (v - (m + 1) * p) < 0 /\ 2 * (v - (m + 1) * p) > -p
    BY <1>1, <1>2, <2>1, <2>2
  <2>4. QED
    BY <1>2, <1>4, <2>3 DEF IsHalfEven
<1>5. CASE r < h
  <2>1. (r + 1) * q <= h * q /\ (r + 1) * q = r * q + q
    BY <1>5
  <2>2. 2 * (v - m * p) < p /\ 2 * (v - m * p) > -p
    BY <1>1, <1>2, <1>3, <2>1
  <2>3. QED
    BY <1>2, <1>5, <2>2 DEF IsHalfEven
<1>6. QED
  BY <1>4, <1>5

-----------------------------------------------------------------------------
\* The invariant holds of every call.
LEMMA RescaleInitInv == RescaleInit => RescaleInv
<1> SUFFICES ASSUME RescaleInit PROVE RescaleInv
  OBVIOUS
<1>1. PICK given \in RescaleArgs : Entered(given)
  BY DEF RescaleInit
<1>2. /\ arg = given /\ val = given.v /\ upper = given.u /\ scale = given.s
      /\ target = 0 /\ sticky = FALSE /\ remainder = 0 /\ rpc = "enter"
  BY <1>1 DEF Entered
<1>3. /\ given \in [v : 0..(B3 * B3 - 1), u : 0..5, s : 0..(2 * MAX_SCALE)]
      /\ given.v < Weight[given.u + 1]
  BY DEF RescaleArgs
<1>4. given \in [v : Nat, u : 0..5, s : 0..(2 * MAX_SCALE)]
  BY <1>3
<1>5. RescaleTypeOK
  <2>1. val \in Nat /\ upper \in 0..5 /\ scale \in 0..(2 * MAX_SCALE) /\ remainder \in Nat
    BY <1>2, <1>4
  <2>2. target \in 0..(2 * MAX_SCALE)
    BY <1>2, ScaleAssumption, LimitAssumption
  <2>3. sticky \in BOOLEAN
    BY <1>2, Zenon
  <2>4. QED
    BY <1>2, <1>4, <2>1, <2>2, <2>3 DEF RescaleTypeOK
<1>6. QED
  BY <1>2, <1>3, <1>5, ScaleAssumption, LimitAssumption DEF RescaleInv, RescaleRounded

\* Entering: nothing is dropped yet, and a buffer that needs no pass is the result.
LEMMA EnterInv == RescaleInv /\ Enter => RescaleInv'
<1> SUFFICES ASSUME RescaleInv, Enter PROVE RescaleInv'
  OBVIOUS
<1> USE DEF RescaleInv, RescaleTypeOK
<1>1. /\ val = arg.v /\ scale = arg.s /\ target = 0 /\ sticky = FALSE /\ remainder = 0
      /\ val < Weight[upper + 1]
      /\ rpc = "enter"
  BY DEF Enter
<1> DEFINE t0 == FirstTarget(val, upper)
<1>2. t0 \in Int /\ (upper > 2 /\ B3 <= val => t0 >= 1) /\ t0 <= scale
  BY <1>1, FirstTargetType DEF Enter
<1> DEFINE t == IF t0 < scale - MAX_SCALE THEN scale - MAX_SCALE ELSE t0
<1>3. t \in Int /\ t >= t0 /\ t <= scale /\ scale - t <= MAX_SCALE
  BY <1>2, ScaleAssumption, LimitAssumption
<1>4. POWERS[0] = 1 /\ 0 \in 0..PowLimit
  BY PowersAssumption, ScaleAssumption, LimitAssumption
<1>5. CASE t > 0
  <2>1. target' = t /\ scale' = scale - t /\ rpc' = "divide"
        /\ UNCHANGED <<arg, val, upper, sticky, remainder>>
    BY <1>5 DEF Enter
  <2>2. t \in 1..(2 * MAX_SCALE) /\ scale - t \in 0..MAX_SCALE
    BY <1>3, <1>5, ScaleAssumption, LimitAssumption
  <2>3. Before' = 0
    BY <1>1, <1>3, <2>1 DEF Before
  <2>4. Between'
    BY <1>1, <1>4, <2>1, <2>3 DEF Between
  <2>5. QED
    BY <1>1, <1>3, <2>1, <2>2, <2>4, ScaleAssumption, LimitAssumption DEF RescaleRounded
<1>6. CASE ~(t > 0)
  <2>1. rpc' = "done" /\ UNCHANGED <<arg, val, upper, scale, target, sticky, remainder>>
    BY <1>6 DEF Enter
  <2>2. (upper <= 2 \/ val < B3) /\ scale <= MAX_SCALE
    BY <1>2, <1>3, <1>6, ScaleAssumption, LimitAssumption, BaseType
  <2>3. val < B3
    <3>1. upper <= 2 => Weight[upper + 1] <= B3 /\ Weight[upper + 1] \in Nat
      BY WeightType
    <3>2. QED
      BY <1>1, <2>2, <3>1, BaseType
  <2>4. val <= Max96
    BY <2>3, BaseType
  <2>5. IsHalfEven(val, arg.v, POWERS[0])
    BY <1>1, <1>4 DEF IsHalfEven
  <2>6. Dropped' = 0
    BY <1>1, <2>1 DEF Dropped
  <2>7. RescaleRounded'
    BY <2>1, <2>2, <2>4, <2>5, <2>6 DEF RescaleRounded
  <2>8. QED
    BY <2>1, <2>7
<1>7. QED
  BY <1>5, <1>6

\* In the middle of a pass or before one, the digits dropped stay in the table.
LEMMA DroppedRange ==
    ASSUME RescaleInv, rpc \in {"divide", "check"}
    PROVE  /\ target \in 1..PowLimit
           /\ Chunk(target) \in 1..PowLimit /\ Chunk(target) <= target
           /\ Before \in 0..PowLimit /\ After \in 1..PowLimit
           /\ After = Before + Chunk(target)
           /\ POWERS[After] = POWERS[Before] * POWERS[Chunk(target)]
<1> USE DEF RescaleInv, RescaleTypeOK
<1>1. target \in 1..PowLimit
  BY ScaleAssumption, LimitAssumption
<1>2. Chunk(target) \in 1..PowLimit /\ Chunk(target) <= target
  BY <1>1, ChunkType
<1>3. arg.s \in 0..(2 * MAX_SCALE)
  OBVIOUS
<1>4. Before \in 0..PowLimit /\ After \in 1..PowLimit /\ After = Before + Chunk(target)
  BY <1>1, <1>2, <1>3, ScaleAssumption, LimitAssumption DEF Before, After
<1>5. POWERS[Before + Chunk(target)] = POWERS[Before] * POWERS[Chunk(target)]
  BY <1>2, <1>4, PowersAdd
<1>6. QED
  BY <1>1, <1>2, <1>4, <1>5

\* A pass divides what is left by its power and moves the remainder of the one
\* before into the flag.
LEMMA DivideInv == RescaleInv /\ Divide => RescaleInv'
<1> SUFFICES ASSUME RescaleInv, Divide PROVE RescaleInv'
  OBVIOUS
<1>1. rpc = "divide" /\ rpc' = "check" /\ UNCHANGED <<arg, scale, target>>
  BY DEF Divide
<1>2. /\ target \in 1..PowLimit
      /\ Chunk(target) \in 1..PowLimit /\ Chunk(target) <= target
      /\ Before \in 0..PowLimit /\ After \in 1..PowLimit
      /\ After = Before + Chunk(target)
      /\ POWERS[After] = POWERS[Before] * POWERS[Chunk(target)]
  BY <1>1, DroppedRange
<1> DEFINE power == POWERS[Chunk(target)]
<1> DEFINE pb == POWERS[Before]
<1>3. power \in Nat \ {0} /\ pb \in Nat \ {0}
  BY <1>2, PowersType
<1>4. /\ val' = val \div power /\ remainder' = val % power
      /\ sticky' = (sticky \/ remainder # 0)
      /\ upper' = IF val \div power < Weight[upper] /\ upper > 0 THEN upper - 1 ELSE upper
  BY DEF Divide
<1>5. RescaleTypeOK /\ val \in Nat /\ arg.v \in Nat /\ upper \in 0..5
      /\ val < Weight[upper + 1] /\ remainder \in Nat
  BY <1>1 DEF RescaleInv, RescaleTypeOK
<1>6. val' \in Nat /\ remainder' \in Nat /\ remainder' < power
      /\ val = val' * power + remainder'
  BY <1>3, <1>4, <1>5, DivMod
<1>7. upper' \in 0..5 /\ val' < Weight[upper' + 1]
  <2>1. val' <= val
    BY <1>3, <1>5, <1>6
  <2>2. Weight[upper + 1] \in Nat /\ Weight[upper] \in Nat
    BY <1>5, WeightType
  <2>3. QED
    BY <1>4, <1>5, <1>6, <2>1, <2>2
<1>8. RescaleTypeOK'
  BY <1>1, <1>4, <1>5, <1>6, <1>7 DEF RescaleTypeOK
<1>9. After' = After /\ Chunk(target)' = Chunk(target) /\ After - Chunk(target) = Before
  BY <1>1, <1>2 DEF After
<1>10. CASE Between
  <2> DEFINE rest == arg.v - val * pb
  <2>1. rest \in Nat /\ rest < pb /\ ((sticky \/ remainder # 0) <=> rest # 0)
    BY <1>10 DEF Between
  <2>2. arg.v - val' * POWERS[After] - remainder' * pb = rest
    <3>1. POWERS[After] = pb * power
      BY <1>2
    <3>2. val * pb = val' * (pb * power) + remainder' * pb
      BY <1>3, <1>6
    <3>3. val' * (pb * power) \in Nat /\ remainder' * pb \in Nat
      BY <1>3, <1>6
    <3>4. QED
      BY <1>5, <3>1, <3>2, <3>3
  <2>3. Within'
    BY <1>1, <1>4, <1>6, <1>9, <2>1, <2>2 DEF Within
  <2>4. QED
    BY <1>1, <1>7, <1>8, <2>3 DEF RescaleInv, RescaleRounded
<1>11. CASE CarriedBetween
  <2>1. /\ val = B3 /\ upper = 3 /\ target = 1 /\ sticky = FALSE /\ remainder = 0
        /\ B3 * pb - arg.v > 0 /\ 2 * (B3 * pb - arg.v) <= pb
    BY <1>11 DEF CarriedBetween
  <2>2. Chunk(target) = 1 /\ power = Ten
    BY <2>1, ScaleAssumption, LimitAssumption, PowersAssumption DEF Chunk, SmallerOf
  <2>3. B3 \div Ten < B3 /\ Weight[3] = B3
    BY BaseType, BaseAssumption, WeightType
  <2>4. upper' = 2
    BY <1>4, <2>1, <2>2, <2>3
  <2>5. CarriedWithin'
    BY <1>1, <1>4, <1>9, <2>1, <2>2, <2>4 DEF CarriedWithin
  <2>6. QED
    BY <1>1, <1>7, <1>8, <2>5 DEF RescaleInv, RescaleRounded
<1>12. QED
  BY <1>1, <1>10, <1>11 DEF RescaleInv

\* Between two passes the last remainder joins the digits lost before it.
LEMMA RestJoins ==
    ASSUME RescaleInv, rpc = "check", Within
    PROVE  LET rest == arg.v - val * POWERS[After]
           IN  rest \in Nat /\ rest < POWERS[After] /\ ((sticky \/ remainder # 0) <=> rest # 0)
<1>1. /\ Chunk(target) \in 1..PowLimit /\ Before \in 0..PowLimit /\ After \in 1..PowLimit
      /\ After = Before + Chunk(target)
      /\ POWERS[After] = POWERS[Before] * POWERS[Chunk(target)]
  BY DroppedRange
<1> DEFINE last == POWERS[Before]
<1> DEFINE power == POWERS[Chunk(target)]
<1> DEFINE t == arg.v - val * POWERS[After] - remainder * last
<1>2. t \in Nat /\ t < last /\ remainder < power /\ (sticky <=> t # 0)
  <2>1. After - Chunk(target) = Before
    BY <1>1
  <2>2. QED
    BY <2>1 DEF Within
<1>3. /\ last \in Nat \ {0} /\ power \in Nat \ {0} /\ POWERS[After] \in Nat
      /\ remainder \in Nat /\ val \in Nat /\ arg.v \in Nat
  BY <1>1, PowersType DEF RescaleInv, RescaleTypeOK
<1>4. val * POWERS[After] \in Nat /\ remainder * last \in Nat
  BY <1>3
<1>5. arg.v - val * POWERS[After] = remainder * last + t
  BY <1>3, <1>4
<1>6. (remainder + 1) * last <= power * last /\ (remainder + 1) * last = remainder * last + last
  BY <1>2, <1>3
<1>7. POWERS[After] = power * last
  BY <1>1, <1>3
<1>8. remainder # 0 => remainder * last > 0
  BY <1>3
<1>9. remainder = 0 => remainder * last = 0
  BY <1>3
<1> HIDE DEF t, last, power
<1>10. remainder * last + t \in Nat /\ remainder * last + t < POWERS[After]
  BY <1>2, <1>3, <1>4, <1>6, <1>7
<1>11. (sticky \/ remainder # 0) <=> remainder * last + t # 0
  BY <1>2, <1>3, <1>4, <1>8, <1>9
<1>12. QED
  BY <1>5, <1>10, <1>11

\* A chunk of several: the next pass starts where this one ended.
LEMMA NextChunkInv == RescaleInv /\ NextChunk => RescaleInv'
<1> SUFFICES ASSUME RescaleInv, NextChunk PROVE RescaleInv'
  OBVIOUS
<1>1. /\ rpc = "check" /\ rpc' = "divide" /\ target > MAX_I32_SCALE
      /\ target' = target - MAX_I32_SCALE
      /\ UNCHANGED <<arg, val, upper, scale, sticky, remainder>>
  BY DEF NextChunk
<1>2. /\ target \in 1..PowLimit
      /\ scale \in Nat /\ arg.s \in Nat /\ target \in Nat /\ MAX_I32_SCALE \in Nat
      /\ target <= 2 * MAX_SCALE
  BY <1>1, DroppedRange, ScaleAssumption, LimitAssumption DEF RescaleInv, RescaleTypeOK
<1>3. Within
  BY <1>1, ScaleAssumption, LimitAssumption DEF RescaleInv, CarriedWithin
<1>4. Chunk(target) = MAX_I32_SCALE
  BY <1>1, <1>2, ChunkType
<1>5. Before' = After
  BY <1>1, <1>2, <1>4 DEF Before, After
<1>6. Between'
  BY <1>1, <1>3, <1>5, RestJoins DEF Between
<1>7. RescaleTypeOK'
  BY <1>1, <1>2, ScaleAssumption, LimitAssumption DEF RescaleInv, RescaleTypeOK
<1>8. target' >= 1 /\ scale' <= MAX_SCALE /\ scale' + target' <= arg'.s
  BY <1>1, <1>2 DEF RescaleInv
<1>9. QED
  BY <1>1, <1>6, <1>7, <1>8 DEF RescaleInv, RescaleRounded

\* One digit more than was estimated.
LEMMA OneMoreInv == RescaleInv /\ OneMore => RescaleInv'
<1> SUFFICES ASSUME RescaleInv, OneMore PROVE RescaleInv'
  OBVIOUS
<1>1. /\ rpc = "check" /\ target <= MAX_I32_SCALE /\ upper > 2
      /\ UNCHANGED <<arg, val, upper, sticky, remainder>>
  BY DEF OneMore
<1>2. CASE scale = 0
  <2>1. rpc' = "overflow" /\ UNCHANGED <<scale, target>>
    BY <1>2 DEF OneMore
  <2>2. RescaleTypeOK'
    BY <1>1, <2>1 DEF RescaleInv, RescaleTypeOK
  <2>3. QED
    BY <1>1, <2>1, <2>2 DEF RescaleInv, RescaleRounded
<1>3. CASE scale # 0
  <2>1. scale' = scale - 1 /\ target' = 1 /\ rpc' = "divide"
    BY <1>3 DEF OneMore
  <2>2. /\ target \in 1..PowLimit /\ scale \in Nat /\ scale >= 1 /\ arg.s \in Nat
        /\ scale <= MAX_SCALE /\ scale <= arg.s /\ scale + target <= arg.s
        /\ scale <= 2 * MAX_SCALE
    BY <1>1, <1>3, DroppedRange DEF RescaleInv, RescaleTypeOK
  <2>3. Within
    BY <1>1 DEF RescaleInv, CarriedWithin
  <2>4. Chunk(target) = target
    BY <1>1, <2>2, ChunkType
  <2>5. Before' = After
    BY <1>1, <2>1, <2>2, <2>4 DEF Before, After
  <2>6. Between'
    BY <1>1, <2>1, <2>3, <2>5, RestJoins DEF Between
  <2>7. RescaleTypeOK'
    BY <1>1, <2>1, <2>2, ScaleAssumption, LimitAssumption DEF RescaleInv, RescaleTypeOK
  <2>8. target' >= 1 /\ scale' <= MAX_SCALE /\ scale' + target' <= arg'.s
    BY <1>1, <2>1, <2>2, ScaleAssumption, LimitAssumption
  <2>9. QED
    BY <1>1, <2>1, <2>2, <2>6, <2>7, <2>8 DEF RescaleInv, RescaleRounded
<1>4. QED
  BY <1>2, <1>3

\* Overflowing leaves nothing to show.
LEMMA EnterOverflowInv == RescaleInv /\ EnterOverflow => RescaleInv'
  BY DEF RescaleInv, RescaleTypeOK, EnterOverflow, RescaleRounded

\* What the rounding sees of a pass: the last remainder is compared with half
\* of its power, and the flag stands for the digits below it.
LEMMA RoundingFacts ==
    ASSUME RescaleInv, rpc = "check", target <= MAX_I32_SCALE, upper <= 2, Within
    PROVE  /\ val \in Mantissa
           /\ Dropped = After
           /\ RoundsUp  => /\ IsHalfEven(val + 1, arg.v, POWERS[After])
                          /\ JustAbove(val + 1, arg.v, POWERS[After])
           /\ ~RoundsUp => IsHalfEven(val, arg.v, POWERS[After])
<1>1. /\ target \in 1..PowLimit
      /\ Before \in 0..PowLimit /\ After \in 1..PowLimit
      /\ After = Before + Chunk(target) /\ Chunk(target) = target
      /\ POWERS[After] = POWERS[Before] * POWERS[Chunk(target)]
  BY DroppedRange, ChunkType
<1> DEFINE pd == POWERS[Before]
<1> DEFINE power == POWERS[Chunk(target)]
<1> DEFINE h == power \div 2
<1> DEFINE t == arg.v - val * POWERS[After] - remainder * pd
<1>2. t \in Nat /\ t < pd /\ remainder < power /\ (sticky <=> t # 0)
  <2>1. After - Chunk(target) = Before
    BY <1>1
  <2>2. QED
    BY <2>1 DEF Within
<1>3. /\ pd \in Nat /\ POWERS[After] \in Nat
      /\ power \in Nat /\ power % 2 = 0
      /\ remainder \in Nat /\ val \in Nat /\ arg.v \in Nat /\ arg.s \in Nat /\ scale \in Nat
  BY <1>1, PowersType DEF RescaleInv, RescaleTypeOK
<1>4. h \in Nat /\ power = 2 * h
  BY <1>3
<1>5. POWERS[After] = 2 * (h * pd)
  BY <1>1, <1>3, <1>4
<1>6. arg.v = val * POWERS[After] + (remainder * pd + t)
  <2>1. val * POWERS[After] \in Nat /\ remainder * pd \in Nat
    BY <1>3
  <2>2. QED
    BY <1>3, <2>1
<1>7. RoundsUp <=> (h < remainder \/ (h = remainder /\ (val % 2 = 1 \/ t # 0)))
  BY <1>2 DEF RoundsUp
<1>8. val \in Mantissa
  <2>1. Weight[upper + 1] <= B3 /\ Weight[upper + 1] \in Nat /\ val < Weight[upper + 1]
    BY WeightType DEF RescaleInv, RescaleTypeOK
  <2>2. QED
    BY <1>3, <2>1, BaseType DEF Mantissa
<1>9. Dropped = After
  BY <1>1, <1>3 DEF Dropped, After
<1> HIDE DEF t, h, pd, power
<1>10. remainder < 2 * h
  BY <1>2, <1>4
<1>11. Split(val, remainder, t, h, pd, arg.v, POWERS[After])
  BY <1>2, <1>4, <1>5, <1>6, <1>10 DEF Split
<1>12. /\ Up(val, remainder, t, h) =>
            IsHalfEven(val + 1, arg.v, POWERS[After]) /\ JustAbove(val + 1, arg.v, POWERS[After])
       /\ ~Up(val, remainder, t, h) => IsHalfEven(val, arg.v, POWERS[After])
  BY <1>2, <1>3, <1>4, <1>11, RoundOnce
<1>13. QED
  BY <1>7, <1>8, <1>9, <1>12 DEF Up

\* The same after a carry: the second rounding lands where one would have.
LEMMA CarriedFacts ==
    ASSUME RescaleInv, rpc = "check", CarriedWithin
    PROVE  /\ val \in Nat /\ val < Max96
           /\ Dropped = After
           /\ RoundsUp  => IsHalfEven(val + 1, arg.v, POWERS[After])
           /\ ~RoundsUp => IsHalfEven(val, arg.v, POWERS[After])
<1> DEFINE q == POWERS[After - 1]
<1> DEFINE e == B3 * q - arg.v
<1> DEFINE h == Ten \div 2
<1>1. /\ target = 1 /\ sticky = FALSE
      /\ val = B3 \div Ten /\ remainder = B3 % Ten
      /\ e > 0 /\ 2 * e <= q
  BY DEF CarriedWithin
<1>2. Chunk(target) = 1 /\ POWERS[1] = Ten
  BY <1>1, ScaleAssumption, LimitAssumption, PowersAssumption DEF Chunk, SmallerOf
<1>3. /\ Before \in 0..PowLimit /\ After \in 1..PowLimit /\ After = Before + 1
      /\ POWERS[After] = POWERS[Before] * Ten
  BY <1>2, DroppedRange
<1>4. After - 1 = Before
  BY <1>3
<1>5. q \in Nat /\ POWERS[After] = q * Ten /\ POWERS[After] \in Nat
  BY <1>3, <1>4, PowersType
<1>6. Ten \in Nat /\ h \in Nat /\ h >= 1 /\ Ten = 2 * h
  BY BaseAssumption
<1>7. B3 \in Nat /\ B3 >= 8
  BY BaseType
<1>8. /\ val \in Nat /\ remainder \in Nat /\ remainder < Ten /\ B3 = val * Ten + remainder
      /\ arg.v \in Nat /\ arg.s \in Nat /\ scale \in Nat
  BY <1>1, <1>6, <1>7, DivMod DEF RescaleInv, RescaleTypeOK
<1>9. val < Max96
  <2>1. val * Ten >= val * 2
    BY <1>6, <1>8
  <2>2. QED
    BY <1>6, <1>7, <1>8, <2>1, BaseType
<1>10. Dropped = After
  BY <1>1, <1>2, <1>8 DEF Dropped, After
<1>11. e \in Nat
  BY <1>1, <1>5, <1>7, <1>8
<1>12. arg.v = (val * (2 * h) + remainder) * q - e
  <2>1. B3 = val * (2 * h) + remainder /\ B3 * q \in Nat
    BY <1>5, <1>6, <1>7, <1>8
  <2>2. arg.v = B3 * q - e
    BY <1>8, <2>1
  <2>3. QED
    BY <2>1, <2>2
<1>13. POWERS[After] = 2 * (h * q)
  BY <1>5, <1>6
<1>14. remainder # h /\ remainder < 2 * h
  BY <1>1, <1>6, <1>8, CarryAssumption
<1>15. RoundsUp <=> h < remainder
  <2>1. POWERS[Chunk(target)] \div 2 = h
    BY <1>2
  <2>2. QED
    BY <1>14, <2>1 DEF RoundsUp
<1> HIDE DEF e, h, q
<1>16. /\ h < remainder => IsHalfEven(val + 1, arg.v, POWERS[After])
       /\ remainder < h => IsHalfEven(val, arg.v, POWERS[After])
  BY <1>1, <1>5, <1>6, <1>8, <1>11, <1>12, <1>13, <1>14, RoundCarried
<1>17. h < remainder \/ remainder < h
  BY <1>6, <1>8, <1>14
<1>18. QED
  BY <1>8, <1>9, <1>10, <1>15, <1>16, <1>17

\* Rounding that stays within 96 bits is the whole rounding of the call.
LEMMA RoundInv == RescaleInv /\ Round => RescaleInv'
<1> SUFFICES ASSUME RescaleInv, Round PROVE RescaleInv'
  OBVIOUS
<1>1. /\ rpc = "check" /\ target <= MAX_I32_SCALE /\ upper <= 2 /\ rpc' = "done"
      /\ ~(RoundsUp /\ val = Max96)
      /\ val' = IF RoundsUp THEN val + 1 ELSE val
      /\ UNCHANGED <<arg, upper, scale, target, sticky, remainder>>
  BY DEF Round
<1>2. /\ val \in Nat /\ val <= Max96 /\ Dropped = After
      /\ RoundsUp  => IsHalfEven(val + 1, arg.v, POWERS[After])
      /\ ~RoundsUp => IsHalfEven(val, arg.v, POWERS[After])
  <2>1. CASE Within
    BY <1>1, <2>1, RoundingFacts, BaseType DEF Mantissa
  <2>2. CASE CarriedWithin
    BY <1>1, <2>2, CarriedFacts, BaseType
  <2>3. QED
    BY <1>1, <2>1, <2>2 DEF RescaleInv
<1>3. val' \in Nat /\ val' <= Max96
  BY <1>1, <1>2, BaseType
<1>4. IsHalfEven(val', arg.v, POWERS[After])
  BY <1>1, <1>2
<1>5. Dropped' = After
  BY <1>1, <1>2 DEF Dropped
<1>6. RescaleTypeOK'
  BY <1>1, <1>3 DEF RescaleInv, RescaleTypeOK
<1>7. RescaleRounded'
  BY <1>1, <1>3, <1>4, <1>5 DEF RescaleRounded, RescaleInv
<1>8. QED
  BY <1>1, <1>6, <1>7 DEF RescaleInv

\* A carry leaves 2^96, rounded up from just below it.
LEMMA RoundCarriesInv == RescaleInv /\ RoundCarries => RescaleInv'
<1> SUFFICES ASSUME RescaleInv, RoundCarries PROVE RescaleInv'
  OBVIOUS
<1>1. /\ rpc = "check" /\ target <= MAX_I32_SCALE /\ upper <= 2
      /\ RoundsUp /\ val = Max96 /\ val' = val + 1 /\ UNCHANGED arg
  BY DEF RoundCarries
<1>2. val' = B3 /\ val' \in Nat
  BY <1>1, BaseType
<1>3. CASE scale = 0
  <2>1. rpc' = "overflow" /\ UNCHANGED <<upper, scale, target, sticky, remainder>>
    BY <1>3 DEF RoundCarries
  <2>2. RescaleTypeOK'
    BY <1>1, <1>2, <2>1 DEF RescaleInv, RescaleTypeOK
  <2>3. QED
    BY <1>1, <2>1, <2>2 DEF RescaleInv, RescaleRounded
<1>4. CASE scale # 0
  <2>1. /\ upper' = 3 /\ sticky' = FALSE /\ remainder' = 0
        /\ target' = 1 /\ scale' = scale - 1 /\ rpc' = "divide"
    BY <1>4 DEF RoundCarries
  <2>2. Within
    BY <1>1, CarriedFacts, BaseType DEF RescaleInv
  <2>3. /\ Dropped = After
        /\ (val + 1) * POWERS[After] - arg.v > 0
        /\ 2 * ((val + 1) * POWERS[After] - arg.v) <= POWERS[After]
    BY <1>1, <2>2, RoundingFacts DEF JustAbove
  <2>4. /\ scale \in Nat /\ scale >= 1 /\ arg.s \in Nat /\ target \in Nat /\ target >= 1
        /\ scale <= MAX_SCALE /\ scale <= arg.s /\ scale + target <= arg.s
        /\ scale <= 2 * MAX_SCALE /\ MAX_SCALE \in Nat /\ 1 <= MAX_SCALE
    BY <1>1, <1>4, ScaleAssumption, LimitAssumption DEF RescaleInv, RescaleTypeOK
  <2>5. Before' = After
    BY <1>1, <2>1, <2>3, <2>4 DEF Before, Dropped
  <2>6. CarriedBetween'
    BY <1>1, <1>2, <2>1, <2>3, <2>5 DEF CarriedBetween
  <2>7. RescaleTypeOK'
    <3>1. scale' \in 0..(2 * MAX_SCALE) /\ target' \in 0..(2 * MAX_SCALE)
      BY <2>1, <2>4
    <3>2. sticky' \in BOOLEAN
      BY <2>1, Zenon
    <3>3. QED
      BY <1>1, <1>2, <2>1, <3>1, <3>2 DEF RescaleInv, RescaleTypeOK
  <2>8. scale' <= MAX_SCALE /\ scale' + target' <= arg'.s /\ scale' <= arg'.s
    BY <1>1, <2>1, <2>4
  <2>9. val' < Weight[upper' + 1]
    <3>1. Weight[4] = Base * B3 /\ Base * B3 > B3
      BY WeightType, BaseType
    <3>2. QED
      BY <1>2, <2>1, <3>1
  <2>10. QED
    BY <1>1, <2>1, <2>6, <2>7, <2>8, <2>9 DEF RescaleInv, RescaleRounded
<1>5. QED
  BY <1>3, <1>4

\* Every step keeps the invariant.
LEMMA RescaleStep == RescaleInv /\ [RescaleNext]_rvars => RescaleInv'
<1>1. CASE RescaleNext
  BY <1>1, EnterOverflowInv, EnterInv, DivideInv, NextChunkInv, OneMoreInv, RoundInv,
     RoundCarriesInv DEF RescaleNext
<1>2. CASE UNCHANGED rvars
  BY <1>2 DEF RescaleInv, rvars, RescaleTypeOK, RescaleRounded, Between, Within,
     CarriedBetween, CarriedWithin, Before, After, Dropped
<1>3. QED
  BY <1>1, <1>2

\* RescaleInv is an invariant of Buf24::rescale.
THEOREM RescaleInvariant == RescaleSpec => []RescaleInv
  BY RescaleInitInv, RescaleStep, PTL DEF RescaleSpec

\* The variables of Buf24::rescale keep their types, for every call.
THEOREM RescaleTypeCorrect == RescaleSpec => []RescaleTypeOK
<1>1. RescaleInv => RescaleTypeOK
  BY DEF RescaleInv
<1>2. QED
  BY <1>1, RescaleInvariant, PTL

\* Whatever the word size, the radix and the call, a mantissa that
\* Buf24::rescale returns is the exact number rounded once, half to even.
THEOREM RescaleCorrect == RescaleSpec => []RescaleRounded
<1>1. RescaleInv => RescaleRounded
  BY DEF RescaleInv
<1>2. QED
  BY <1>1, RescaleInvariant, PTL

-----------------------------------------------------------------------------
(***************************************************************************)
(* No digit is dropped for nothing.  FirstTarget never asks for more digits *)
(* than it takes to come below 96 bits, every further digit is dropped     *)
(* from a quotient of more than 96 bits, and an overflow is one of the     *)
(* integral part.                                                          *)
(***************************************************************************)
\* The bits of a word, counted.
LEMMA BitLengthBound ==
    ASSUME NEW w \in 1..(Base - 1)
    PROVE  /\ BitLength(w) \in 1..WordBits
           /\ 2^(BitLength(w) - 1) <= w
<1> DEFINE S == {i \in 1..(WordBits - 1) : 2^i <= w}
<1> DEFINE c == Cardinality(S)
<1>1. /\ \A i \in Int : IsFiniteSet(1..i) /\ (i >= 0 => Cardinality(1..i) = i)
      /\ WordBits \in Nat \ {0}
  BY FS_Interval, BitsAssumption
<1>2. S \subseteq 1..(WordBits - 1)
  OBVIOUS
<1>3. IsFiniteSet(S) /\ c \in Nat /\ c <= WordBits - 1
  <2>1. IsFiniteSet(1..(WordBits - 1)) /\ Cardinality(1..(WordBits - 1)) = WordBits - 1
    BY <1>1
  <2>2. QED
    BY <1>2, <2>1, FS_Subset, FS_CardinalityType
<1> HIDE DEF c
<1>4. 2^c <= w
  <2>1. SUFFICES ASSUME w < 2^c PROVE FALSE
    BY <1>1, <1>3, TwosAssumption
  <2>2. \A i \in S : i < c
    <3>1. SUFFICES ASSUME NEW i \in S, c <= i PROVE FALSE
      BY <1>1, <1>3
    <3>2. 2^i = 2^c * 2^(i - c) /\ 2^c \in Nat \ {0} /\ 2^(i - c) \in Nat \ {0}
      <4>1. /\ c \in 0..(3 * WordBits) /\ (i - c) \in 0..(3 * WordBits)
            /\ c + (i - c) = i /\ i <= 3 * WordBits
        BY <1>1, <1>3, <3>1
      <4>2. QED
        BY <4>1, TwosAssumption
    <3>3. 2^i >= 2^c
      BY <3>2
    <3>4. QED
      BY <2>1, <3>1, <3>2, <3>3
  <2>3. c # 0
    <3>1. c = 0 => 2^c = 1
      BY TwosAssumption
    <3>2. QED
      BY <2>1, <3>1
  <2>4. S \subseteq 1..(c - 1)
    BY <1>3, <2>2
  <2>5. Cardinality(S) <= c - 1
    <3>1. /\ IsFiniteSet(1..(c - 1)) /\ Cardinality(1..(c - 1)) = c - 1
      BY <1>1, <1>3, <2>3
    <3>2. S \in SUBSET (1..(c - 1))
      BY <2>4
    <3> HIDE DEF S
    <3>3. QED
      BY <3>1, <3>2, FS_Subset
  <2>6. QED
    BY <1>3, <2>5 DEF c
<1>5. BitLength(w) = 1 + c
  BY DEF BitLength, c
<1>6. QED
  BY <1>1, <1>3, <1>4, <1>5

\* Words above the third weigh 2^96 times a power of two.
LEMMA WeightOfBits ==
    ASSUME NEW u \in 3..5
    PROVE  /\ (u - 3) * WordBits \in 0..(2 * WordBits)
           /\ Weight[u] = B3 * 2^((u - 3) * WordBits)
<1>1. WordBits \in Nat \ {0} /\ Base = 2^WordBits /\ Base \in Nat /\ B3 \in Nat
  BY BitsAssumption, BaseType
<1>2. Weight[3] = B3 /\ Weight[4] = B3 * Base /\ Weight[5] = B3 * (Base * Base)
  BY DEF Weight, B2
<1>3. 2^(WordBits + WordBits) = 2^WordBits * 2^WordBits /\ 2^0 = 1
  BY <1>1, TwosAssumption
<1>4. CASE u = 3
  <2>1. (u - 3) * WordBits = 0
    BY <1>1, <1>4
  <2>2. 2^((u - 3) * WordBits) = 1
    BY <1>3, <2>1
  <2>3. QED
    BY <1>1, <1>2, <1>4, <2>1, <2>2
<1>5. CASE u = 4
  <2>1. (u - 3) * WordBits = WordBits
    BY <1>1, <1>5
  <2>2. QED
    BY <1>1, <1>2, <1>5, <2>1
<1>6. CASE u = 5
  <2>1. (u - 3) * WordBits = WordBits + WordBits
    BY <1>1, <1>6
  <2>2. QED
    BY <1>1, <1>2, <1>3, <1>6, <2>1
<1>7. QED
  BY <1>4, <1>5, <1>6

\* A buffer whose first estimate counts n bits above 96 holds at least 2^(96 + n).
LEMMA BitsAbove96 ==
    ASSUME NEW v \in Nat, NEW u \in 3..5, v < Weight[u + 1], v >= Weight[u] - B3,
           (u - 3) * WordBits - 1 + BitLength(v \div Weight[u]) >= 0
    PROVE  LET n == (u - 3) * WordBits - 1 + BitLength(v \div Weight[u])
           IN  n \in 0..(3 * WordBits - 1) /\ v >= B3 * 2^n
<1> DEFINE w == v \div Weight[u]
<1> DEFINE above == (u - 3) * WordBits
<1> DEFINE n == above - 1 + BitLength(w)
<1>1. /\ above \in 0..(2 * WordBits)
      /\ Weight[u] = B3 * 2^above /\ Weight[u] \in Nat \ {0} /\ Weight[u + 1] = Base * Weight[u]
      /\ 2^above \in Nat \ {0} /\ B3 \in Nat /\ WordBits \in Nat \ {0} /\ Base \in Nat
  <2>1. above \in 0..(2 * WordBits) /\ Weight[u] = B3 * 2^above
    BY WeightOfBits
  <2>2. 2^above \in Nat \ {0}
    BY <2>1, TwosAssumption, BitsAssumption
  <2>3. QED
    BY <2>1, <2>2, WeightType, BaseType, BitsAssumption
<1>2. /\ w \in Nat /\ v % Weight[u] \in Nat
      /\ v = w * Weight[u] + (v % Weight[u])
  BY <1>1, DivMod
<1>3. w < Base
  <2>1. v < Weight[u] * Base
    BY <1>1
  <2>2. QED
    BY <1>1, <2>1, QuotientBound
<1> HIDE DEF w, above
<1>4. CASE w # 0
  <2>1. BitLength(w) \in 1..WordBits /\ 2^(BitLength(w) - 1) <= w
    BY <1>1, <1>2, <1>3, <1>4, BitLengthBound
  <2> DEFINE k == BitLength(w) - 1
  <2>2. k \in 0..(WordBits - 1) /\ n = above + k
    BY <1>1, <2>1
  <2>3. n \in 0..(3 * WordBits - 1)
    BY <1>1, <2>2
  <2>4. k \in 0..(3 * WordBits) /\ above \in 0..(3 * WordBits) /\ above + k <= 3 * WordBits
    BY <1>1, <2>2
  <2>5. 2^n = 2^above * 2^k /\ 2^k \in Nat
    BY <2>2, <2>4, TwosAssumption
  <2>6. 2^k <= w
    BY <2>1
  <2> HIDE DEF n, k
  <2>7. w * Weight[u] >= 2^k * Weight[u]
    BY <1>1, <1>2, <2>5, <2>6
  <2>8. 2^k * Weight[u] = B3 * 2^n
    BY <1>1, <2>5
  <2>9. v >= B3 * 2^n
    <3>1. /\ w * Weight[u] \in Nat /\ v >= w * Weight[u]
          /\ 2^k * Weight[u] \in Nat
      BY <1>1, <1>2, <2>5
    <3>2. QED
      BY <1>1, <2>7, <2>8, <3>1
  <2>10. QED
    BY <2>3, <2>9 DEF n, w, above
<1>5. CASE w = 0
  <2>1. BitLength(w) = 0
    BY <1>5 DEF BitLength
  <2>2. n = above - 1 /\ n >= 0
    BY <2>1, <1>1 DEF w, above
  <2>3. n \in 0..(3 * WordBits - 1)
    BY <1>1, <2>2
  <2>4. 2^above = 2 * 2^n /\ 2^n \in Nat \ {0}
    <3>1. n \in 0..(3 * WordBits) /\ 1 \in 0..(3 * WordBits) /\ n + 1 = above
          /\ n + 1 <= 3 * WordBits
      BY <1>1, <2>2, <2>3
    <3>2. 2^(n + 1) = 2^n * 2^1 /\ 2^n \in Nat \ {0} /\ 2^1 = 2
      BY <3>1, TwosAssumption
    <3>3. 2^(n + 1) = 2^above
      BY <3>1
    <3>4. QED
      BY <3>2, <3>3
  <2> HIDE DEF n
  <2>5. Weight[u] - B3 = B3 * (2 * 2^n - 1)
    BY <1>1, <2>4
  <2>6. B3 * (2 * 2^n - 1) >= B3 * 2^n
    BY <1>1, <2>4
  <2>7. v >= B3 * 2^n
    <3>1. B3 * 2^n \in Nat /\ B3 * (2 * 2^n - 1) \in Nat
      BY <1>1, <2>4
    <3>2. QED
      BY <1>1, <2>5, <2>6, <3>1
  <2>8. QED
    BY <2>3, <2>7 DEF n, w, above
<1>6. QED
  BY <1>4, <1>5

\* The first estimate is not too high: with a digit less, more than 96 bits stay.
LEMMA FirstTargetFloor ==
    ASSUME NEW v \in Nat, NEW u \in 0..5, v < Weight[u + 1], u > 2 => v >= Weight[u] - B3,
           FirstTarget(v, u) > 0
    PROVE  /\ FirstTarget(v, u) - 1 \in 0..PowLimit
           /\ v >= B3 * POWERS[FirstTarget(v, u) - 1]
<1> DEFINE n == (u - 3) * WordBits - 1 + BitLength(v \div Weight[u])
<1>1. u > 2
  BY FirstTargetType
<1>2. FirstTarget(v, u) = ((n * LOG_BITS) \div 256) + 1
  BY <1>1 DEF FirstTarget
<1>3. LOG_BITS \in 1..256
  BY LogAssumption
<1>4. n \in Int
  <2>1. /\ v \div Weight[u] \in Nat
    BY WeightType, DivMod
  <2>2. BitLength(v \div Weight[u]) \in Nat
    BY <2>1, BitLengthType
  <2>3. QED
    BY <2>2, BitsAssumption
<1> DEFINE k == (n * LOG_BITS) \div 256
<1> HIDE DEF n
<1>5. n >= 0
  <2>1. SUFFICES ASSUME n < 0 PROVE FALSE
    BY <1>4
  <2>2. n * LOG_BITS \in Int /\ n * LOG_BITS < 0
    BY <1>3, <1>4, <2>1
  <2>3. k < 0
    BY <2>2
  <2>4. QED
    BY <1>2, <2>2, <2>3
<1>6. n \in 0..(3 * WordBits - 1) /\ v >= B3 * 2^n
  BY <1>1, <1>5, BitsAbove96 DEF n
<1>7. k \in Nat /\ k <= PowLimit /\ POWERS[k] <= 2^n
  <2>1. n * LOG_BITS \in Nat
    BY <1>3, <1>4, <1>5
  <2>2. k \in Nat
    BY <2>1
  <2>3. QED
    BY <1>6, <2>2, EstimateAssumption
<1>8. B3 * POWERS[k] <= B3 * 2^n
  <2>1. B3 \in Nat /\ POWERS[k] \in Nat /\ 2^n \in Nat
    <3>1. n \in 0..(3 * WordBits) /\ k \in 0..PowLimit
      BY <1>6, <1>7, BitsAssumption, ScaleAssumption
    <3>2. QED
      BY <3>1, BaseType, PowersType, TwosAssumption
  <2>2. QED
    BY <1>7, <2>1
<1>9. B3 * POWERS[k] \in Nat /\ B3 * 2^n \in Nat
  <2>1. n \in 0..(3 * WordBits) /\ k \in 0..PowLimit
    BY <1>6, <1>7, BitsAssumption, ScaleAssumption
  <2>2. B3 \in Nat /\ POWERS[k] \in Nat /\ 2^n \in Nat
    BY <2>1, BaseType, PowersType, TwosAssumption
  <2>3. QED
    BY <2>2
<1>10. FirstTarget(v, u) - 1 = k
  BY <1>2, <1>7
<1>11. QED
  BY <1>6, <1>7, <1>8, <1>9, <1>10, ScaleAssumption

\* The rounded quotient of a number of at least 2^96 * p exceeds 96 bits.
LEMMA HalfEvenLarge ==
    ASSUME NEW v \in Nat, NEW p \in Nat \ {0}, v >= B3 * p
    PROVE  HalfEven(v, p) > Max96
<1>1. v \div p \in Nat /\ v % p \in Nat /\ v % p < p /\ v = (v \div p) * p + (v % p)
  BY DivMod
<1>2. B3 \in Nat /\ Max96 = B3 - 1
  BY BaseType
<1>3. v \div p >= B3
  <2>1. SUFFICES ASSUME v \div p + 1 <= B3 PROVE FALSE
    BY <1>1, <1>2
  <2>2. (v \div p + 1) * p <= B3 * p
    BY <1>1, <1>2, <2>1
  <2>3. (v \div p + 1) * p = (v \div p) * p + p
    BY <1>1
  <2>4. (v \div p) * p \in Nat /\ B3 * p \in Nat
    BY <1>1, <1>2
  <2>5. QED
    BY <1>1, <2>2, <2>3, <2>4
<1>4. HalfEven(v, p) >= v \div p
  BY <1>1 DEF HalfEven
<1>5. HalfEven(v, p) \in Nat
  BY <1>1 DEF HalfEven
<1>6. QED
  BY <1>1, <1>2, <1>3, <1>4, <1>5

\* Up to the carry a rounding finds, there is one that is nearest and even.
LEMMA HalfEvenUnique ==
    ASSUME NEW v \in Nat, NEW p \in Nat \ {0}, NEW m \in Nat, IsHalfEven(m, v, p)
    PROVE  HalfEven(v, p) = m
<1> DEFINE q == v \div p
<1> DEFINE r == v % p
<1>1. q \in Nat /\ r \in Nat /\ r < p /\ v = q * p + r
  BY DivMod
<1> HIDE DEF q, r
<1> DEFINE d == 2 * (v - m * p)
<1>2. -p <= d /\ d <= p /\ ((d = p \/ d = -p) => m % 2 = 0)
  BY DEF IsHalfEven
<1>3. m * p \in Nat /\ q * p \in Nat /\ (q + 1) * p = q * p + p
      /\ (m + 1) * p = m * p + p /\ (q - 1) * p = q * p - p
  BY <1>1
<1>4. m = q \/ m = q + 1
  <2>1. ASSUME m <= q - 1 PROVE FALSE
    <3>1. (m + 1) * p <= q * p
      BY <1>1, <2>1
    <3>2. QED
      BY <1>1, <1>2, <1>3, <3>1
  <2>2. ASSUME m >= q + 2 PROVE FALSE
    <3>1. (q + 2) * p <= m * p /\ (q + 2) * p = q * p + 2 * p
      BY <1>1, <2>2
    <3>2. QED
      BY <1>1, <1>2, <1>3, <3>1
  <2>3. QED
    BY <1>1, <2>1, <2>2
<1>5. HalfEven(v, p) = IF 2 * r > p \/ (2 * r = p /\ q % 2 = 1) THEN q + 1 ELSE q
  BY DEF HalfEven, q, r
<1>6. CASE m = q
  <2>1. d = 2 * r
    BY <1>1, <1>3, <1>6
  <2>2. QED
    BY <1>1, <1>2, <1>5, <1>6, <2>1
<1>7. CASE m = q + 1
  <2>1. d = 2 * r - 2 * p
    BY <1>1, <1>3, <1>7
  <2>2. 2 * r >= p /\ (2 * r = p => m % 2 = 0)
    BY <1>1, <1>2, <2>1
  <2>3. m % 2 = 0 => q % 2 = 1
    BY <1>1, <1>7
  <2>4. QED
    BY <1>1, <1>5, <1>7, <2>2, <2>3
<1>8. QED
  BY <1>4, <1>6, <1>7

\* What the routine knows of the digits it has given up, whatever they were.
KeepInv ==
    TopInUse(arg) =>
        /\ rpc \in {"enter", "divide"} => (upper > 2 => val >= Weight[upper] - B3)
        /\ rpc = "check" => (upper > 2 => val >= Weight[upper])
        /\ rpc \in {"divide", "check"} /\ scale < MAX_SCALE =>
             HalfEven(arg.v, POWERS[arg.s - scale - 1]) > Max96
        /\ RescaleKeepsDigits /\ RescaleOverflows

\* In the middle of a pass: what is still above 96 bits was so before the last digit.
LEMMA WithinLarge ==
    ASSUME RescaleInv, rpc = "check", Within, val >= B3
    PROVE  After \in 1..PowLimit /\ HalfEven(arg.v, POWERS[After]) > Max96
<1>1. After \in 1..PowLimit /\ POWERS[After] \in Nat \ {0}
  BY DroppedRange, PowersType
<1>2. /\ arg.v - val * POWERS[After] \in Nat
      /\ val \in Nat /\ arg.v \in Nat
  BY RestJoins DEF RescaleInv, RescaleTypeOK
<1>3. B3 * POWERS[After] <= val * POWERS[After]
  BY <1>1, <1>2, BaseType
<1>4. B3 * POWERS[After] \in Nat /\ val * POWERS[After] \in Nat
  BY <1>1, <1>2, BaseType
<1>5. arg.v >= B3 * POWERS[After]
  BY <1>2, <1>3, <1>4
<1>6. QED
  BY <1>1, <1>2, <1>5, HalfEvenLarge

LEMMA KeepInit == RescaleInit => KeepInv
<1> SUFFICES ASSUME RescaleInit PROVE KeepInv
  OBVIOUS
<1>1. PICK given \in RescaleArgs : Entered(given)
  BY DEF RescaleInit
<1>2. arg = given /\ val = given.v /\ upper = given.u /\ rpc = "enter"
  BY <1>1 DEF Entered
<1>3. QED
  BY <1>2 DEF KeepInv, TopInUse, RescaleKeepsDigits, RescaleOverflows

\* The estimate exceeds the scale: the integral part exceeds 96 bits.
LEMMA EnterOverflowKeeps == RescaleInv /\ KeepInv /\ EnterOverflow => KeepInv'
<1> SUFFICES ASSUME RescaleInv, KeepInv, EnterOverflow, TopInUse(arg) PROVE KeepInv'
  BY DEF KeepInv, TopInUse, EnterOverflow
<1> DEFINE t0 == FirstTarget(val, upper)
<1>1. /\ rpc = "enter" /\ rpc' = "overflow" /\ arg' = arg /\ t0 > scale
      /\ val = arg.v /\ scale = arg.s /\ upper \in 0..5 /\ val \in Nat /\ val < Weight[upper + 1]
      /\ scale \in 0..PowLimit
  BY LimitAssumption, ScaleAssumption DEF EnterOverflow, RescaleInv, RescaleTypeOK
<1>2. upper > 2 => val >= Weight[upper] - B3
  BY <1>1 DEF KeepInv
<1>3. t0 \in Int
  BY <1>1, FirstTargetType
<1> HIDE DEF t0
<1>4. t0 - 1 \in 0..PowLimit /\ val >= B3 * POWERS[t0 - 1]
  <2>1. t0 > 0
    BY <1>1, <1>3
  <2>2. QED
    BY <1>1, <1>2, <2>1, FirstTargetFloor DEF t0
<1> DEFINE j == t0 - 1 - scale
<1>5. j \in 0..PowLimit /\ scale + j = t0 - 1
  BY <1>1, <1>3, <1>4, ScaleAssumption
<1>6. POWERS[t0 - 1] = POWERS[scale] * POWERS[j]
  BY <1>1, <1>4, <1>5, PowersAdd
<1>7. POWERS[scale] \in Nat \ {0} /\ POWERS[j] \in Nat \ {0} /\ B3 \in Nat
  BY <1>1, <1>5, PowersType, BaseType
<1> HIDE DEF j
<1>8. B3 * POWERS[scale] <= B3 * POWERS[t0 - 1]
  <2>1. POWERS[scale] <= POWERS[scale] * POWERS[j]
    BY <1>7
  <2>2. QED
    BY <1>6, <1>7, <2>1
<1>9. B3 * POWERS[scale] \in Nat /\ B3 * POWERS[t0 - 1] \in Nat
  BY <1>6, <1>7
<1>10. HalfEven(arg.v, POWERS[arg.s]) > Max96
  BY <1>1, <1>4, <1>7, <1>8, <1>9, HalfEvenLarge
<1>11. QED
  BY <1>1, <1>10 DEF KeepInv, TopInUse, RescaleKeepsDigits, RescaleOverflows

\* The digits of the first estimate have to go.
LEMMA EnterKeeps == RescaleInv /\ KeepInv /\ Enter => KeepInv'
<1> SUFFICES ASSUME RescaleInv, KeepInv, Enter, TopInUse(arg) PROVE KeepInv'
  BY DEF KeepInv, TopInUse, Enter
<1> DEFINE t0 == FirstTarget(val, upper)
<1> DEFINE t == IF t0 < scale - MAX_SCALE THEN scale - MAX_SCALE ELSE t0
<1>1. /\ rpc = "enter" /\ t0 <= scale
      /\ UNCHANGED <<arg, val, upper, sticky, remainder>>
      /\ val = arg.v /\ scale = arg.s /\ upper \in 0..5 /\ val \in Nat /\ val < Weight[upper + 1]
      /\ scale \in Nat /\ MAX_SCALE \in Nat
      /\ upper > 2 => val >= Weight[upper] - B3
  BY LimitAssumption, ScaleAssumption DEF Enter, RescaleInv, RescaleTypeOK, KeepInv
<1>2. t0 \in Int
  BY <1>1, FirstTargetType
<1>3. CASE t > 0
  <2>1. target' = t /\ scale' = scale - t /\ rpc' = "divide"
    BY <1>3 DEF Enter
  <2>2. CASE t = t0
    <3>1. t0 - 1 \in 0..PowLimit /\ val >= B3 * POWERS[t0 - 1]
      BY <1>1, <1>3, <2>2, FirstTargetFloor
    <3>2. arg.s - scale' - 1 = t0 - 1
      BY <1>1, <1>2, <2>1, <2>2
    <3>3. HalfEven(arg.v, POWERS[t0 - 1]) > Max96
      BY <1>1, <3>1, PowersType, HalfEvenLarge
    <3>4. QED
      BY <1>1, <2>1, <3>2, <3>3 DEF KeepInv, TopInUse, RescaleKeepsDigits, RescaleOverflows
  <2>3. CASE t = scale - MAX_SCALE
    <3>1. scale' = MAX_SCALE
      BY <1>1, <2>1, <2>3
    <3>2. QED
      BY <1>1, <2>1, <3>1 DEF KeepInv, TopInUse, RescaleKeepsDigits, RescaleOverflows
  <2>4. QED
    BY <2>2, <2>3
<1>4. CASE ~(t > 0)
  <2>1. rpc' = "done" /\ scale' = scale
    BY <1>4 DEF Enter
  <2>2. Dropped' = 0
    BY <1>1, <2>1 DEF Dropped
  <2>3. QED
    BY <1>1, <2>1, <2>2 DEF KeepInv, TopInUse, RescaleKeepsDigits, RescaleOverflows
<1>5. QED
  BY <1>3, <1>4

\* A pass divides by less than a word: the top word goes down by one at most.
LEMMA DivideKeeps == RescaleInv /\ KeepInv /\ Divide => KeepInv'
<1> SUFFICES ASSUME RescaleInv, KeepInv, Divide, TopInUse(arg) PROVE KeepInv'
  BY DEF KeepInv, TopInUse, Divide
<1>1. /\ rpc = "divide" /\ rpc' = "check" /\ UNCHANGED <<arg, scale, target>>
      /\ val' = val \div POWERS[Chunk(target)]
      /\ upper' = IF val' < Weight[upper] /\ upper > 0 THEN upper - 1 ELSE upper
  BY DEF Divide
<1> DEFINE power == POWERS[Chunk(target)]
<1>2. /\ upper \in 0..5 /\ val \in Nat
      /\ upper > 2 => val >= Weight[upper] - B3
  BY <1>1 DEF RescaleInv, RescaleTypeOK, KeepInv
<1>3. power \in Nat \ {0} /\ power <= Base - 1
  <2>1. /\ target \in 1..PowLimit /\ Chunk(target) \in 1..PowLimit
        /\ Chunk(target) <= MAX_I32_SCALE
    BY <1>1, DroppedRange, ChunkType
  <2> DEFINE j == MAX_I32_SCALE - Chunk(target)
  <2>2. j \in 0..PowLimit /\ Chunk(target) + j = MAX_I32_SCALE /\ MAX_I32_SCALE \in 0..PowLimit
    BY <2>1, ScaleAssumption
  <2>3. POWERS[MAX_I32_SCALE] = power * POWERS[j] /\ POWERS[j] \in Nat \ {0} /\ power \in Nat \ {0}
    BY <2>1, <2>2, PowersAdd, PowersType
  <2> HIDE DEF j, power
  <2>4. power <= power * POWERS[j]
    BY <2>3
  <2>5. power * POWERS[j] \in Nat /\ power * POWERS[j] < Base
    BY <2>3, WidthAssumption
  <2>6. QED
    BY <2>3, <2>4, <2>5, BaseType
<1>4. val' \in Nat /\ val % power \in Nat /\ val % power < power /\ val = val' * power + (val % power)
  BY <1>1, <1>2, <1>3, DivMod
<1> HIDE DEF power
<1>5. ASSUME upper' > 2 PROVE val' >= Weight[upper']
  <2>1. CASE upper' = upper
    <3>1. upper > 0
      BY <1>2, <1>5, <2>1
    <3>2. Weight[upper] \in Nat
      BY <1>2, WeightType
    <3>3. QED
      BY <1>1, <1>2, <1>4, <2>1, <3>1, <3>2
  <2>2. CASE upper' = upper - 1
    <3> DEFINE w == Weight[upper - 1]
    <3>1. upper \in 4..5
      BY <1>2, <1>5, <2>2
    <3>2. /\ Weight[upper] = Base * w /\ w \in Nat \ {0}
      <4>1. upper - 1 \in 0..5 /\ (upper - 1) + 1 = upper
        BY <3>1
      <4>2. QED
        BY <4>1, WeightType
    <3>3. B3 <= w /\ B3 \in Nat /\ Base \in Nat /\ Base >= 2
      <4>1. Weight[3] = B3 /\ Weight[4] = B3 * Base /\ B3 \in Nat /\ Base \in Nat /\ Base >= 2
        BY BaseType, WeightType DEF Weight
      <4>2. B3 <= B3 * Base
        BY <4>1
      <4>3. QED
        BY <3>1, <4>1, <4>2
    <3>4. val >= Base * w - w
      <4>1. Base * w \in Nat
        BY <3>2, <3>3
      <4>2. QED
        BY <1>2, <3>1, <3>2, <3>3, <4>1
    <3> HIDE DEF w
    <3>5. SUFFICES ASSUME val' <= w - 1 PROVE FALSE
      BY <1>4, <2>2, <3>2 DEF w
    <3>6. val' * power <= (w - 1) * power
      <4>1. w - 1 \in Int
        BY <3>2
      <4>2. QED
        BY <1>3, <1>4, <3>5, <4>1, MulMono
    <3>7. val < w * power
      <4>1. (w - 1) * power = w * power - 1 * power /\ w * power \in Int /\ val' * power \in Int
        BY <1>3, <1>4, <3>2, Distribute
      <4>2. QED
        BY <1>3, <1>4, <3>6, <4>1
    <3>8. w * power <= w * (Base - 1)
      BY <1>3, <3>2, <3>3
    <3>9. w * (Base - 1) = Base * w - w /\ w * (Base - 1) \in Nat /\ w * power \in Nat
      BY <1>3, <3>2, <3>3
    <3>10. QED
      BY <1>2, <3>4, <3>7, <3>8, <3>9
  <2>3. QED
    BY <1>1, <2>1, <2>2
<1>6. scale' < MAX_SCALE => HalfEven(arg'.v, POWERS[arg'.s - scale' - 1]) > Max96
  BY <1>1 DEF KeepInv
<1>7. QED
  BY <1>1, <1>5, <1>6 DEF KeepInv, RescaleKeepsDigits, RescaleOverflows

\* Nothing more is given up between two chunks.
LEMMA NextChunkKeeps == RescaleInv /\ KeepInv /\ NextChunk => KeepInv'
<1> SUFFICES ASSUME RescaleInv, KeepInv, NextChunk, TopInUse(arg) PROVE KeepInv'
  BY DEF KeepInv, TopInUse, NextChunk
<1>1. rpc = "check" /\ rpc' = "divide" /\ UNCHANGED <<arg, val, upper, scale, sticky, remainder>>
  BY DEF NextChunk
<1>2. upper > 2 => val >= Weight[upper] - B3
  <2>1. upper > 2 => val >= Weight[upper] /\ Weight[upper] \in Nat /\ val \in Nat
    BY <1>1, WeightType DEF KeepInv, RescaleInv, RescaleTypeOK
  <2>2. QED
    BY <2>1, BaseType
<1>3. QED
  BY <1>1, <1>2 DEF KeepInv, RescaleKeepsDigits, RescaleOverflows

\* One digit more, because what is left exceeds 96 bits.
LEMMA OneMoreKeeps == RescaleInv /\ KeepInv /\ OneMore => KeepInv'
<1> SUFFICES ASSUME RescaleInv, KeepInv, OneMore, TopInUse(arg) PROVE KeepInv'
  BY DEF KeepInv, TopInUse, OneMore
<1>1. /\ rpc = "check" /\ target <= MAX_I32_SCALE /\ upper > 2
      /\ UNCHANGED <<arg, val, upper, sticky, remainder>>
      /\ upper \in 3..5 /\ val \in Nat
  BY DEF OneMore, RescaleInv, RescaleTypeOK
<1>2. val >= Weight[upper] /\ Weight[upper] \in Nat
  BY <1>1, WeightType DEF KeepInv
<1>3. Weight[upper] >= B3
  <2>1. 2^((upper - 3) * WordBits) \in Nat \ {0} /\ Weight[upper] = B3 * 2^((upper - 3) * WordBits)
    <3>1. (upper - 3) * WordBits \in 0..(3 * WordBits)
      BY <1>1, WeightOfBits, BitsAssumption
    <3>2. QED
      BY <1>1, <3>1, WeightOfBits, TwosAssumption
  <2>2. QED
    BY <2>1, BaseType
<1>4. Within
  BY <1>1 DEF RescaleInv, CarriedWithin
<1>5. After \in 1..PowLimit /\ HalfEven(arg.v, POWERS[After]) > Max96
  <2>1. val >= B3
    BY <1>1, <1>2, <1>3, BaseType
  <2>2. QED
    BY <1>1, <1>4, <2>1, WithinLarge
<1>6. After = arg.s - scale /\ arg.s \in Nat /\ scale \in Nat
  <2>1. target \in 1..PowLimit /\ Chunk(target) = target
    BY <1>1, DroppedRange, ChunkType
  <2>2. QED
    BY <2>1 DEF After, RescaleInv, RescaleTypeOK
<1>7. CASE scale = 0
  <2>1. rpc' = "overflow" /\ scale' = scale
    BY <1>7 DEF OneMore
  <2>2. After = arg.s
    BY <1>6, <1>7
  <2>3. QED
    BY <1>1, <1>5, <2>1, <2>2 DEF KeepInv, RescaleKeepsDigits, RescaleOverflows
<1>8. CASE scale # 0
  <2>1. scale' = scale - 1 /\ rpc' = "divide"
    BY <1>8 DEF OneMore
  <2>2. arg'.s - scale' - 1 = After
    BY <1>1, <1>6, <2>1
  <2>3. val >= Weight[upper] - B3
    BY <1>1, <1>2, BaseType
  <2>4. QED
    BY <1>1, <1>5, <2>1, <2>2, <2>3 DEF KeepInv, RescaleKeepsDigits, RescaleOverflows
<1>9. QED
  BY <1>7, <1>8

LEMMA RoundKeeps == RescaleInv /\ KeepInv /\ Round => KeepInv'
<1> SUFFICES ASSUME RescaleInv, KeepInv, Round, TopInUse(arg) PROVE KeepInv'
  BY DEF KeepInv, TopInUse, Round
<1>1. rpc = "check" /\ rpc' = "done" /\ UNCHANGED <<arg, upper, scale, target, sticky, remainder>>
  BY DEF Round
<1>2. QED
  BY <1>1 DEF KeepInv, RescaleKeepsDigits, RescaleOverflows, Dropped

\* A carry over 96 bits: with the digits kept so far the rounded value does not fit.
LEMMA RoundCarriesKeeps == RescaleInv /\ KeepInv /\ RoundCarries => KeepInv'
<1> SUFFICES ASSUME RescaleInv, KeepInv, RoundCarries, TopInUse(arg) PROVE KeepInv'
  BY DEF KeepInv, TopInUse, RoundCarries
<1>1. /\ rpc = "check" /\ target <= MAX_I32_SCALE /\ upper <= 2
      /\ RoundsUp /\ val = Max96 /\ val' = val + 1 /\ UNCHANGED arg
  BY DEF RoundCarries
<1>2. Within
  BY <1>1, CarriedFacts, BaseType DEF RescaleInv
<1>3. Dropped = After /\ IsHalfEven(val + 1, arg.v, POWERS[After])
  BY <1>1, <1>2, RoundingFacts
<1>4. After \in 1..PowLimit /\ POWERS[After] \in Nat \ {0}
  BY <1>1, DroppedRange, PowersType
<1>5. HalfEven(arg.v, POWERS[After]) > Max96
  <2>1. arg.v \in Nat /\ val + 1 \in Nat /\ val + 1 > Max96
    BY <1>1, BaseType DEF RescaleInv, RescaleTypeOK
  <2>2. QED
    BY <1>3, <1>4, <2>1, HalfEvenUnique
<1>6. After = arg.s - scale /\ arg.s \in Nat /\ scale \in Nat
  BY <1>3 DEF Dropped, RescaleInv, RescaleTypeOK
<1>7. CASE scale = 0
  <2>1. rpc' = "overflow" /\ scale' = scale
    BY <1>7 DEF RoundCarries
  <2>2. After = arg.s
    BY <1>6, <1>7
  <2>3. QED
    BY <1>1, <1>5, <2>1, <2>2 DEF KeepInv, RescaleKeepsDigits, RescaleOverflows
<1>8. CASE scale # 0
  <2>1. upper' = 3 /\ scale' = scale - 1 /\ rpc' = "divide"
    BY <1>8 DEF RoundCarries
  <2>2. arg'.s - scale' - 1 = After
    BY <1>1, <1>6, <2>1
  <2>3. val' >= Weight[upper'] - B3
    <3>1. Weight[3] = B3 /\ B3 \in Nat /\ val' = B3
      BY <1>1, WeightType, BaseType
    <3>2. QED
      BY <2>1, <3>1
  <2>4. QED
    BY <1>1, <1>5, <2>1, <2>2, <2>3 DEF KeepInv, RescaleKeepsDigits, RescaleOverflows
<1>9. QED
  BY <1>7, <1>8

\* What a call that returns owes to the routine that made it.
LEMMA RescaleAnswers ==
    ASSUME RescaleInv, KeepInv, TopInUse(arg), rpc = "done", NEW n \in BOOLEAN
    PROVE  /\ val \in Mantissa /\ scale \in 0..MAX_SCALE
           /\ IsRoundingOf(FromParts(val, n, scale), arg.v, arg.s)
<1>1. /\ val \in Nat /\ val <= Max96 /\ scale \in Nat /\ scale <= MAX_SCALE
      /\ IsHalfEven(val, arg.v, POWERS[Dropped])
      /\ Dropped = arg.s - scale /\ scale <= arg.s /\ arg.s \in 0..(2 * MAX_SCALE) /\ arg.v \in Nat
      /\ MAX_SCALE \in Nat
  BY ScaleAssumption DEF RescaleInv, RescaleTypeOK, RescaleRounded, Dropped
<1>2. val \in Mantissa /\ scale \in 0..MAX_SCALE
  BY <1>1, BaseType DEF Mantissa
<1>3. Dropped > 0 /\ scale < MAX_SCALE => HalfEven(arg.v, POWERS[Dropped - 1]) > Max96
  BY DEF KeepInv, RescaleKeepsDigits
<1>4. Dropped \in 0..PowLimit /\ POWERS[Dropped] \in Nat \ {0} /\ POWERS[0] = 1
  <2>1. Dropped \in 0..PowLimit
    BY <1>1, LimitAssumption, ScaleAssumption
  <2>2. QED
    BY <2>1, PowersType, PowersAssumption
<1>5. CASE val # 0
  <2>1. arg.s - scale - 1 = Dropped - 1
    BY <1>1
  <2>2. scale < SmallerOf(arg.s, MAX_SCALE) => Dropped > 0 /\ scale < MAX_SCALE
    BY <1>1 DEF SmallerOf
  <2>3. QED
    BY <1>1, <1>2, <1>3, <1>5, <2>1, <2>2 DEF IsRoundingOf, FromParts
<1>6. CASE val = 0
  <2>1. 2 * arg.v <= POWERS[Dropped]
    BY <1>1, <1>4, <1>6 DEF IsHalfEven
  <2>2. CASE Dropped = 0
    <3>1. arg.v = 0
      BY <1>1, <1>4, <2>1, <2>2
    <3> DEFINE i == IF arg.s > MAX_SCALE THEN arg.s - MAX_SCALE ELSE 0
    <3>2. i \in 0..PowLimit
      BY <1>1, LimitAssumption, ScaleAssumption
    <3>3. 2 * arg.v <= POWERS[i]
      BY <3>1, <3>2, PowersType
    <3>4. QED
      BY <1>2, <1>6, <3>3 DEF IsRoundingOf, FromParts
  <2>3. CASE Dropped > 0 /\ scale = MAX_SCALE
    <3>1. Dropped = IF arg.s > MAX_SCALE THEN arg.s - MAX_SCALE ELSE 0
      BY <1>1, <2>3
    <3>2. QED
      BY <1>2, <1>6, <2>1, <3>1 DEF IsRoundingOf, FromParts
  <2>4. CASE Dropped > 0 /\ scale < MAX_SCALE
    <3> DEFINE p == POWERS[Dropped - 1]
    <3> DEFINE q == arg.v \div p
    <3>1. p \in Nat \ {0} /\ POWERS[Dropped] = p * Ten
      <4>1. Dropped - 1 \in 0..PowLimit /\ 1 \in 0..PowLimit /\ (Dropped - 1) + 1 = Dropped
        BY <1>1, <1>4, <2>4, ScaleAssumption
      <4>2. QED
        BY <1>4, <4>1, PowersAdd, PowersType, PowersAssumption
    <3> HIDE DEF p
    <3>2. q \in Nat /\ arg.v % p \in Nat /\ arg.v = q * p + (arg.v % p)
      BY <1>1, <3>1, DivMod
    <3>3. q + 1 >= HalfEven(arg.v, p) /\ HalfEven(arg.v, p) \in Nat
      BY <3>2 DEF HalfEven
    <3>4. q >= Max96 /\ Max96 \in Nat
      <4>1. HalfEven(arg.v, p) > Max96
        BY <1>3, <2>4 DEF p
      <4>2. QED
        BY <3>2, <3>3, <4>1, BaseType
    <3> HIDE DEF q
    <3>5. Max96 * p <= q * p /\ Max96 * p \in Int /\ q * p \in Int
      BY <3>1, <3>2, <3>4, MulMono
    <3>6. (2 * Max96) * p > Ten * p
      <4>1. Ten \in Nat /\ Ten + 1 <= 2 * Max96
        BY BaseAssumption, BaseType
      <4>2. (Ten + 1) * p <= (2 * Max96) * p
        BY <3>1, <3>4, <4>1, MulMono
      <4>3. (Ten + 1) * p = Ten * p + 1 * p /\ Ten * p \in Int
        BY <3>1, <4>1, Distribute
      <4>4. (2 * Max96) * p \in Int
        BY <3>1, <3>4
      <4>5. QED
        BY <3>1, <4>2, <4>3, <4>4
    <3>7. (2 * Max96) * p = 2 * (Max96 * p) /\ Ten * p = p * Ten /\ p * Ten \in Int
      BY <3>1, <3>4, BaseAssumption, MulAssoc
    <3>8. 2 * arg.v >= 2 * (Max96 * p)
      BY <3>2, <3>5, <1>1
    <3>9. FALSE
      BY <1>1, <2>1, <3>1, <3>5, <3>6, <3>7, <3>8
    <3>10. QED
      BY <3>9
  <2>5. QED
    BY <1>1, <2>2, <2>3, <2>4
<1>7. QED
  BY <1>2, <1>5, <1>6

\* A routine that calls this one hands over a buffer it can take.
LEMMA RescaleCallInv ==
    ASSUME RescaleIdle, NEW given \in RescaleArgs, RescaleCall(given)
    PROVE  (RescaleInv /\ KeepInv)'
<1>1. /\ arg' = given /\ val' = given.v /\ upper' = given.u /\ scale' = given.s /\ rpc' = "enter"
      /\ target' = 0 /\ sticky' = FALSE /\ remainder' = 0
  BY DEF RescaleCall, RescaleIdle
<1>2. /\ given \in [v : 0..(B3 * B3 - 1), u : 0..5, s : 0..(2 * MAX_SCALE)]
      /\ given.v < Weight[given.u + 1]
  BY DEF RescaleArgs
<1>3. given \in [v : Nat, u : 0..5, s : 0..(2 * MAX_SCALE)]
  BY <1>2
<1>4. RescaleTypeOK'
  <2>1. target' \in 0..(2 * MAX_SCALE)
    BY <1>1, ScaleAssumption
  <2>2. sticky' \in BOOLEAN
    BY <1>1, Zenon
  <2>3. QED
    BY <1>1, <1>3, <2>1, <2>2 DEF RescaleTypeOK
<1>5. RescaleInv'
  BY <1>1, <1>2, <1>3, <1>4, ScaleAssumption DEF RescaleInv, RescaleRounded
<1>6. KeepInv'
  BY <1>1 DEF KeepInv, TopInUse, RescaleKeepsDigits, RescaleOverflows
<1>7. QED
  BY <1>5, <1>6

\* Before it is called nothing is known, and nothing claimed.
LEMMA IdleInv == RescaleIdle => RescaleInv /\ KeepInv
<1> SUFFICES ASSUME RescaleIdle PROVE RescaleInv /\ KeepInv
  OBVIOUS
<1>1. /\ arg = [v |-> 0, u |-> 0, s |-> 0] /\ val = 0 /\ upper = 0 /\ scale = 0
      /\ target = 0 /\ sticky = FALSE /\ remainder = 0 /\ rpc = "idle"
  BY DEF RescaleIdle, NoCall
<1>2. arg \in [v : Nat, u : 0..5, s : 0..(2 * MAX_SCALE)] /\ 0 \in 0..(2 * MAX_SCALE)
  BY <1>1, ScaleAssumption
<1>3. sticky \in BOOLEAN
  BY <1>1, Zenon
<1>4. QED
  BY <1>1, <1>2, <1>3 DEF RescaleInv, RescaleTypeOK, RescaleRounded, KeepInv, RescaleKeepsDigits,
                          RescaleOverflows

\* Every step keeps what is known of the digits given up.
LEMMA KeepStep == RescaleInv /\ KeepInv /\ [RescaleNext]_rvars => KeepInv'
<1>1. ASSUME RescaleInv, KeepInv, RescaleNext PROVE KeepInv'
  BY <1>1, EnterOverflowKeeps, EnterKeeps, DivideKeeps, NextChunkKeeps, OneMoreKeeps, RoundKeeps,
     RoundCarriesKeeps DEF RescaleNext
<1>2. ASSUME KeepInv, UNCHANGED rvars PROVE KeepInv'
  BY <1>2 DEF KeepInv, rvars, TopInUse, RescaleKeepsDigits, RescaleOverflows, Dropped
<1>3. QED
  BY <1>1, <1>2

\* KeepInv is an invariant of Buf24::rescale.
LEMMA KeepInvariant == RescaleSpec => []KeepInv
  BY KeepInit, KeepStep, RescaleInvariant, PTL DEF RescaleSpec

\* For every call whose `upper` is in use, no digit is dropped that could have
\* been kept: the fixed point estimate, the extra digits and the carries cost none.
THEOREM RescaleKeeps == RescaleSpec => []RescaleKeepsDigits
<1>1. KeepInv => RescaleKeepsDigits
  BY DEF KeepInv, RescaleKeepsDigits
<1>2. QED
  BY <1>1, KeepInvariant, PTL

\* For every such call, an overflow is reported only when the integral part
\* needs more than 96 bits.
THEOREM RescaleOverflowsTruly == RescaleSpec => []RescaleOverflows
<1>1. KeepInv => RescaleOverflows
  BY DEF KeepInv, RescaleOverflows
<1>2. QED
  BY <1>1, KeepInvariant, PTL

-----------------------------------------------------------------------------
(***************************************************************************)
(* Words and their products.                                               *)
(***************************************************************************)
\* A product of words leaves room for two more words in a double word.
LEMMA WordProduct ==
    ASSUME NEW f \in 0..(Base - 1), NEW g \in 0..(Base - 1)
    PROVE  f * g \in Nat /\ f * g <= B2 - 2 * Base + 1
<1>1. Base \in Nat /\ Base >= 2 /\ B2 = Base * Base /\ B2 \in Nat
  BY BaseType DEF B2
<1>2. f * g <= (Base - 1) * g /\ f * g \in Int /\ g * (Base - 1) <= (Base - 1) * (Base - 1)
  BY <1>1, MulMono
<1>3. (Base - 1) * g = g * (Base - 1) /\ (Base - 1) * g \in Int
  BY <1>1
<1>4. (Base - 1) * (Base - 1) = B2 - 2 * Base + 1
  BY <1>1
<1>5. f * g >= 0
  BY <1>1
<1>6. QED
  BY <1>1, <1>2, <1>3, <1>4, <1>5

\* A wrapping sum and the carry seen in it are the sum.
LEMMA WrapCarry ==
    ASSUME NEW f \in 0..(B2 - 1), NEW g \in 0..(B2 - 1)
    PROVE  /\ WrappingAdd(f, g) \in 0..(B2 - 1)
           /\ Carried(WrappingAdd(f, g), g) \in {0, 1}
           /\ f + g = WrappingAdd(f, g) + B2 * Carried(WrappingAdd(f, g), g)
           /\ f + g < B2 => WrappingAdd(f, g) = f + g
<1>1. B2 \in Nat \ {0}
  BY BaseType
<1>2. CASE f + g < B2
  <2>1. (f + g) \div B2 = 0 /\ (f + g) % B2 = f + g
    <3>1. f + g \in Nat /\ f + g = 0 * B2 + (f + g)
      BY <1>1
    <3>2. QED
      BY <1>1, <1>2, <3>1, QuotientUnique
  <2>2. QED
    BY <1>1, <1>2, <2>1 DEF WrappingAdd, Carried
<1>3. CASE f + g >= B2
  <2>1. (f + g) % B2 = f + g - B2
    <3>1. f + g \in Nat /\ f + g = 1 * B2 + (f + g - B2) /\ f + g - B2 \in Nat /\ f + g - B2 < B2
      BY <1>1, <1>3
    <3>2. QED
      BY <1>1, <3>1, QuotientUnique
  <2>2. QED
    BY <1>1, <1>3, <2>1 DEF WrappingAdd, Carried
<1>4. QED
  BY <1>1, <1>2, <1>3

\* A word times a mantissa: the three products never wrap.
LEMMA MulByWordExact ==
    ASSUME NEW w \in 0..(Base - 1), NEW m \in Mantissa
    PROVE  MulByWord(w, m) = w * m
<1> DEFINE t0 == w * Lo(m)
<1> DEFINE t1 == WrappingAdd(w * Mid(m), t0 \div Base)
<1> DEFINE t2 == WrappingAdd(t1 \div Base, w * Hi(m))
<1>1. /\ Lo(m) \in 0..(Base - 1) /\ Mid(m) \in 0..(Base - 1) /\ Hi(m) \in 0..(Base - 1)
      /\ m = Lo(m) + Base * Mid(m) + B2 * Hi(m)
  BY WordsOf
<1>2. Base \in Nat /\ Base >= 2 /\ B2 \in Nat /\ B2 = Base * Base /\ B2 >= 2 * Base
  <2>1. Base \in Nat /\ Base >= 2 /\ B2 \in Nat /\ B2 = Base * Base
    BY BaseType DEF B2
  <2>2. 2 * Base <= Base * Base
    BY <2>1, MulMono
  <2>3. QED
    BY <2>1, <2>2
<1>3. /\ w * Lo(m) \in Nat /\ w * Lo(m) <= B2 - 2 * Base + 1
      /\ w * Mid(m) \in Nat /\ w * Mid(m) <= B2 - 2 * Base + 1
      /\ w * Hi(m) \in Nat /\ w * Hi(m) <= B2 - 2 * Base + 1
  BY <1>1, WordProduct
<1>4. /\ Lo(t0) \in 0..(Base - 1) /\ t0 \div Base \in 0..(Base - 1)
      /\ t0 = Lo(t0) + Base * (t0 \div Base)
  <2>1. t0 \in 0..(B2 - 1)
    BY <1>2, <1>3
  <2>2. QED
    BY <2>1, DoubleWord
<1> HIDE DEF t0
<1>5. t1 = w * Mid(m) + t0 \div Base /\ t1 \in 0..(B2 - 1)
  <2> DEFINE p == w * Mid(m)
  <2> DEFINE k == t0 \div Base
  <2>1. p \in 0..(B2 - 1) /\ k \in 0..(B2 - 1) /\ p + k < B2
    BY <1>2, <1>3, <1>4
  <2>2. t1 = WrappingAdd(p, k)
    OBVIOUS
  <2> HIDE DEF t1, p, k
  <2>3. t1 = p + k /\ t1 \in 0..(B2 - 1)
    BY <2>1, <2>2, WrapCarry
  <2>4. QED
    BY <2>3 DEF p, k
<1> HIDE DEF t1
<1>6. /\ Lo(t1) \in 0..(Base - 1) /\ t1 \div Base \in 0..(Base - 1)
      /\ t1 = Lo(t1) + Base * (t1 \div Base)
  BY <1>5, DoubleWord
<1>7. t2 = t1 \div Base + w * Hi(m)
  <2> DEFINE p == w * Hi(m)
  <2> DEFINE k == t1 \div Base
  <2>1. p \in 0..(B2 - 1) /\ k \in 0..(B2 - 1) /\ k + p < B2
    BY <1>2, <1>3, <1>6
  <2>2. t2 = WrappingAdd(k, p)
    OBVIOUS
  <2> HIDE DEF t2, p, k
  <2>3. t2 = k + p
    BY <2>1, <2>2, WrapCarry
  <2>4. QED
    BY <2>3 DEF p, k
<1> HIDE DEF t2
<1>8. MulByWord(w, m) = Lo(t0) + Base * Lo(t1) + B2 * t2
  <2>1. Hi(m) = 0 => w * Hi(m) = 0
    BY <1>1
  <2>2. Hi(m) = 0 => t2 = t1 \div Base
    BY <1>6, <1>7, <2>1
  <2>3. QED
    BY <1>1, <2>2 DEF MulByWord, t0, t1, t2
<1>9. B2 * t2 = Base * (Base * (t1 \div Base)) + B2 * (w * Hi(m))
  <2>1. (t1 \div Base + w * Hi(m)) * B2 = (t1 \div Base) * B2 + (w * Hi(m)) * B2
    BY <1>2, <1>3, <1>6, Distribute
  <2>2. (t1 \div Base) * B2 = Base * (Base * (t1 \div Base))
    BY <1>2, <1>6
  <2>3. t2 \in Int
    BY <1>3, <1>6, <1>7
  <2>4. QED
    BY <1>2, <1>3, <1>6, <1>7, <2>1, <2>2, <2>3
<1>10. Base * t1 = Base * Lo(t1) + Base * (Base * (t1 \div Base))
  BY <1>2, <1>6
<1>11. Base * t1 = Base * (w * Mid(m)) + Base * (t0 \div Base)
  BY <1>2, <1>3, <1>4, <1>5
<1>12. w * m = w * Lo(m) + Base * (w * Mid(m)) + B2 * (w * Hi(m))
  <2>1. \A p, q, r, c, d \in Nat : w * (p + c * q + d * r) = w * p + c * (w * q) + d * (w * r)
    BY <1>2
  <2>2. QED
    BY <1>1, <1>2, <2>1
<1>13. /\ Base * t1 \in Int /\ Base * Lo(t1) \in Int /\ Base * (Base * (t1 \div Base)) \in Int
       /\ B2 * t2 \in Int /\ B2 * (w * Hi(m)) \in Int /\ Base * (w * Mid(m)) \in Int
       /\ Base * (t0 \div Base) \in Int
  BY <1>2, <1>3, <1>4, <1>5, <1>6, <1>7
<1>14. QED
  BY <1>3, <1>4, <1>8, <1>9, <1>10, <1>11, <1>12, <1>13 DEF t0

\* The two low words and what they carry are three of the nine products.
LEMMA LowProductsExact ==
    ASSUME NEW f \in Mantissa, NEW g \in Mantissa
    PROVE  LET lows == LowProducts(f, g)
           IN  /\ lows.low \in Nat /\ lows.carry \in 0..(2 * Base - 2)
               /\ lows.low + B2 * lows.carry
                    = Lo(f) * Lo(g) + Base * (Lo(f) * Mid(g) + Mid(f) * Lo(g))
<1> DEFINE ll == Lo(f) * Lo(g)
<1> DEFINE lm == WrappingAdd(Lo(f) * Mid(g), ll \div Base)
<1> DEFINE ml == WrappingAdd(Mid(f) * Lo(g), lm)
<1> DEFINE c == Carried(ml, lm)
<1>1. /\ Lo(f) \in 0..(Base - 1) /\ Mid(f) \in 0..(Base - 1)
      /\ Lo(g) \in 0..(Base - 1) /\ Mid(g) \in 0..(Base - 1)
  BY WordsOf
<1>2. Base \in Nat /\ Base >= 2 /\ B2 \in Nat /\ B2 = Base * Base /\ B2 >= 2 * Base
  <2>1. Base \in Nat /\ Base >= 2 /\ B2 \in Nat /\ B2 = Base * Base
    BY BaseType DEF B2
  <2>2. 2 * Base <= Base * Base
    BY <2>1, MulMono
  <2>3. QED
    BY <2>1, <2>2
<1>3. /\ Lo(f) * Lo(g) \in Nat /\ Lo(f) * Lo(g) <= B2 - 2 * Base + 1
      /\ Lo(f) * Mid(g) \in Nat /\ Lo(f) * Mid(g) <= B2 - 2 * Base + 1
      /\ Mid(f) * Lo(g) \in Nat /\ Mid(f) * Lo(g) <= B2 - 2 * Base + 1
  BY <1>1, WordProduct
<1>4. /\ Lo(ll) \in 0..(Base - 1) /\ ll \div Base \in 0..(Base - 1)
      /\ ll = Lo(ll) + Base * (ll \div Base)
  <2>1. ll \in 0..(B2 - 1)
    BY <1>2, <1>3
  <2>2. QED
    BY <2>1, DoubleWord
<1> DEFINE p01 == Lo(f) * Mid(g)
<1> DEFINE p10 == Mid(f) * Lo(g)
<1>5. lm = p01 + ll \div Base /\ lm \in 0..(B2 - 1)
  <2> DEFINE k == ll \div Base
  <2>1. p01 \in 0..(B2 - 1) /\ k \in 0..(B2 - 1) /\ p01 + k < B2
    BY <1>2, <1>3, <1>4
  <2>2. lm = WrappingAdd(p01, k)
    OBVIOUS
  <2> HIDE DEF lm, p01, k
  <2>3. lm = p01 + k /\ lm \in 0..(B2 - 1)
    BY <2>1, <2>2, WrapCarry
  <2>4. QED
    BY <2>3 DEF k
<1>6. lm <= B2 - Base
  BY <1>2, <1>3, <1>4, <1>5
<1>7. /\ ml \in 0..(B2 - 1) /\ c \in {0, 1} /\ p10 + lm = ml + B2 * c
  <2>1. p10 \in 0..(B2 - 1) /\ ml = WrappingAdd(p10, lm) /\ c = Carried(ml, lm)
    BY <1>2, <1>3
  <2> HIDE DEF c, ml, lm, p10
  <2>2. QED
    BY <1>5, <2>1, WrapCarry
<1>8. /\ Lo(ml) \in 0..(Base - 1) /\ ml \div Base \in 0..(Base - 1)
      /\ ml = Lo(ml) + Base * (ml \div Base)
  BY <1>7, DoubleWord
<1>9. LowProducts(f, g) = [low |-> Lo(ll) + Base * Lo(ml), carry |-> (ml \div Base) + Base * c]
  BY DEF LowProducts
<1>10. p01 \in Nat /\ p10 \in Nat /\ p01 <= B2 - 2 * Base + 1 /\ p10 <= B2 - 2 * Base + 1 /\ ll \in Nat
  BY <1>3
<1> HIDE DEF c, ml, lm, ll, p01, p10
<1> DEFINE low == Lo(ll) + Base * Lo(ml)
<1> DEFINE carry == (ml \div Base) + Base * c
<1>11. B2 * carry = Base * (Base * (ml \div Base)) + Base * (B2 * c)
  <2>1. \A u, v, B \in Nat : (B * B) * (u + B * v) = B * (B * u) + B * ((B * B) * v)
    OBVIOUS
  <2>2. QED
    BY <1>2, <1>7, <1>8, <2>1
<1>12. Base * ml = Base * Lo(ml) + Base * (Base * (ml \div Base))
  BY <1>2, <1>8
<1>13. Base * (ml + B2 * c) = Base * ml + Base * (B2 * c)
  BY <1>2, <1>7
<1>14. Base * (p10 + lm) = Base * (p01 + p10) + Base * (ll \div Base)
  BY <1>2, <1>4, <1>5, <1>10
<1>15. /\ Base * Lo(ml) \in Nat /\ Base * (Base * (ml \div Base)) \in Nat /\ Base * (B2 * c) \in Nat
       /\ Base * ml \in Nat /\ Base * (p01 + p10) \in Nat /\ Base * (ll \div Base) \in Nat
  <2>1. \A u, v \in Nat : u * v \in Nat
    OBVIOUS
  <2>2. c \in Nat /\ ml \in Nat /\ ml \div Base \in Nat /\ Lo(ml) \in Nat
        /\ p01 + p10 \in Nat /\ ll \div Base \in Nat
    BY <1>4, <1>7, <1>8, <1>10, <1>2
  <2>3. B2 * c \in Nat /\ Base * (ml \div Base) \in Nat
    BY <1>2, <2>1, <2>2
  <2>4. QED
    BY <1>2, <2>1, <2>2, <2>3
<1>16. low + B2 * carry = ll + Base * (p01 + p10)
  BY <1>4, <1>7, <1>11, <1>12, <1>13, <1>14, <1>15
<1>17. low \in Nat
  BY <1>4, <1>15
<1>18. carry \in 0..(2 * Base - 2)
  <2>1. CASE c = 0
    BY <1>2, <1>8, <2>1
  <2>2. CASE c = 1
    <3>1. ml <= B2 - 3 * Base + 1
      <4>1. p10 + lm = ml + B2
        BY <1>2, <1>7, <2>2
      <4>2. QED
        BY <1>2, <1>5, <1>6, <1>7, <1>10, <4>1
    <3>2. ml \div Base <= Base - 2
      <4>1. SUFFICES ASSUME ml \div Base = Base - 1 PROVE FALSE
        BY <1>2, <1>8
      <4>2. Base * (Base - 1) = B2 - Base
        BY <1>2
      <4>3. QED
        BY <1>2, <1>8, <3>1, <4>1, <4>2
    <3>3. QED
      BY <1>2, <1>8, <2>2, <3>2
  <2>3. QED
    BY <1>7, <2>1, <2>2
<1>19. QED
  BY <1>9, <1>16, <1>17, <1>18 DEF ll, p01, p10

\* Two wrapping sums in a row: the low word of the last, and what is carried up.
LEMMA CarryTwice ==
    ASSUME NEW f \in 0..(B2 - 1), NEW g \in 0..(B2 - 1), NEW c \in 0..(B2 - 1)
    PROVE  LET s  == WrappingAdd(f, g)
               t  == WrappingAdd(s, c)
               up == Base * (Carried(s, g) + Carried(t, c)) + (t \div Base)
           IN  /\ Lo(t) \in 0..(Base - 1) /\ up \in 0..(B2 - 1)
               /\ f + g + c = Lo(t) + Base * up
<1> DEFINE s == WrappingAdd(f, g)
<1> DEFINE t == WrappingAdd(s, c)
<1> DEFINE k == Carried(s, g) + Carried(t, c)
<1> DEFINE up == Base * k + (t \div Base)
<1>1. Base \in Nat /\ Base > 2 /\ B2 \in Nat /\ B2 = Base * Base /\ 3 * Base <= Base * Base
  <2>1. Base \in Nat /\ Base > 2 /\ B2 \in Nat /\ B2 = Base * Base
    BY BaseType, BaseAssumption DEF B2
  <2>2. QED
    BY <2>1, MulMono
<1>2. s \in 0..(B2 - 1) /\ Carried(s, g) \in {0, 1} /\ f + g = s + B2 * Carried(s, g)
  BY WrapCarry
<1> HIDE DEF s
<1>3. t \in 0..(B2 - 1) /\ Carried(t, c) \in {0, 1} /\ s + c = t + B2 * Carried(t, c)
  BY <1>2, WrapCarry
<1> HIDE DEF t
<1>4. Lo(t) \in 0..(Base - 1) /\ t \div Base \in 0..(Base - 1) /\ t = Lo(t) + Base * (t \div Base)
  BY <1>3, DoubleWord
<1>5. k \in 0..2 /\ f + g + c = t + B2 * k
  <2>1. B2 * (Carried(s, g) + Carried(t, c)) = B2 * Carried(s, g) + B2 * Carried(t, c)
    BY <1>1, <1>2, <1>3
  <2>2. B2 * Carried(s, g) \in Int /\ B2 * Carried(t, c) \in Int
    <3>1. Carried(s, g) \in Int /\ Carried(t, c) \in Int
      BY <1>2, <1>3
    <3>2. \A u, v \in Int : u * v \in Int
      OBVIOUS
    <3>3. QED
      BY <1>1, <3>1, <3>2
  <2>3. QED
    BY <1>1, <1>2, <1>3, <2>1, <2>2
<1> HIDE DEF k
<1>6. up \in 0..(B2 - 1)
  <2>1. Base * k \in Int /\ 0 <= Base * k /\ Base * k <= 2 * Base
    BY <1>1, <1>5
  <2>2. QED
    BY <1>1, <1>4, <2>1
<1>7. Base * up = B2 * k + Base * (t \div Base)
  <2>1. \A B, p, q \in Nat : B * (B * p + q) = (B * B) * p + B * q
    OBVIOUS
  <2>2. QED
    BY <1>1, <1>4, <1>5, <2>1
<1>8. B2 * k \in Int /\ Base * (t \div Base) \in Int
  BY <1>1, <1>4, <1>5
<1>9. f + g + c = Lo(t) + Base * up
  BY <1>4, <1>5, <1>7, <1>8
<1>10. QED
  BY <1>4, <1>6, <1>9 DEF k, t, s

\* The nine products, with every carry between them, are the product: none of
\* the nine is lost, and neither the middle word nor a sum of carries wraps.
LEMMA MulWordsExact ==
    ASSUME NEW f \in Mantissa, NEW g \in Mantissa
    PROVE  MulWords(f, g) = f * g
<1> DEFINE lows == LowProducts(f, g)
<1> DEFINE mm == Mid(f) * Mid(g) + lows.carry
<1> DEFINE lh == Lo(f) * Hi(g)
<1> DEFINE hl == Hi(f) * Lo(g)
<1> DEFINE mh == Mid(f) * Hi(g)
<1> DEFINE hm == Hi(f) * Mid(g)
<1> DEFINE s5 == WrappingAdd(mm, lh)
<1> DEFINE s6 == WrappingAdd(s5, hl)
<1> DEFINE up6 == Base * (Carried(s5, lh) + Carried(s6, hl)) + (s6 \div Base)
<1> DEFINE s7 == WrappingAdd(mh, up6)
<1> DEFINE s8 == WrappingAdd(s7, hm)
<1> DEFINE up8 == Base * (Carried(s7, up6) + Carried(s8, hm)) + (s8 \div Base)
<1>1. /\ Lo(f) \in 0..(Base - 1) /\ Mid(f) \in 0..(Base - 1) /\ Hi(f) \in 0..(Base - 1)
      /\ Lo(g) \in 0..(Base - 1) /\ Mid(g) \in 0..(Base - 1) /\ Hi(g) \in 0..(Base - 1)
      /\ f = Lo(f) + Base * Mid(f) + B2 * Hi(f) /\ g = Lo(g) + Base * Mid(g) + B2 * Hi(g)
  BY WordsOf
<1>2. /\ Base \in Nat /\ Base >= 2 /\ B2 \in Nat /\ B2 = Base * Base /\ B2 >= 2 * Base
      /\ B3 = (Base * Base) * Base /\ B3 \in Nat
  <2>1. Base \in Nat /\ Base >= 2 /\ B2 \in Nat /\ B2 = Base * Base /\ B3 = (Base * Base) * Base /\ B3 \in Nat
    BY BaseType DEF B2, B3
  <2>2. 2 * Base <= Base * Base
    BY <2>1, MulMono
  <2>3. QED
    BY <2>1, <2>2
<1>3. /\ lows.low \in Nat /\ lows.carry \in 0..(2 * Base - 2)
      /\ lows.low + B2 * lows.carry = Lo(f) * Lo(g) + Base * (Lo(f) * Mid(g) + Mid(f) * Lo(g))
  BY LowProductsExact
<1>4. /\ mm \in 0..(B2 - 1) /\ lh \in 0..(B2 - 1) /\ hl \in 0..(B2 - 1)
      /\ mh \in 0..(B2 - 1) /\ hm \in 0..(B2 - 1) /\ Mid(f) * Mid(g) \in Nat /\ Hi(f) * Hi(g) \in Nat
  <2>1. /\ Mid(f) * Mid(g) \in Nat /\ Mid(f) * Mid(g) <= B2 - 2 * Base + 1
        /\ Lo(f) * Hi(g) \in Nat /\ Lo(f) * Hi(g) <= B2 - 2 * Base + 1
        /\ Hi(f) * Lo(g) \in Nat /\ Hi(f) * Lo(g) <= B2 - 2 * Base + 1
        /\ Mid(f) * Hi(g) \in Nat /\ Mid(f) * Hi(g) <= B2 - 2 * Base + 1
        /\ Hi(f) * Mid(g) \in Nat /\ Hi(f) * Mid(g) <= B2 - 2 * Base + 1
        /\ Hi(f) * Hi(g) \in Nat
    BY <1>1, WordProduct
  <2> HIDE DEF lows
  <2>2. QED
    BY <1>2, <1>3, <2>1
<1>5. MulWords(f, g) = IF Hi(f) = 0 /\ Hi(g) = 0 THEN lows.low + B2 * mm
                       ELSE lows.low + B2 * Lo(s6) + B3 * Lo(s8) + B3 * Base * (Hi(f) * Hi(g) + up8)
  BY DEF MulWords
<1> DEFINE p00 == Lo(f) * Lo(g)
<1> DEFINE p01 == Lo(f) * Mid(g)
<1> DEFINE p10 == Mid(f) * Lo(g)
<1> DEFINE p11 == Mid(f) * Mid(g)
<1> DEFINE p22 == Hi(f) * Hi(g)
<1>6. f * g = p00 + Base * (p01 + p10) + B2 * (lh + p11 + hl) + B3 * (mh + hm) + (B3 * Base) * p22
  <2>1. /\ Lo(f) \in Nat /\ Mid(f) \in Nat /\ Hi(f) \in Nat
        /\ Lo(g) \in Nat /\ Mid(g) \in Nat /\ Hi(g) \in Nat
    BY <1>1, <1>2
  <2>2. (Lo(f) + Base * Mid(f) + B2 * Hi(f)) * (Lo(g) + Base * Mid(g) + B2 * Hi(g))
          = p00 + Base * (p01 + p10) + B2 * (lh + p11 + hl) + B3 * (mh + hm) + (B3 * Base) * p22
    <3>1. (Lo(f) + Base * Mid(f) + (Base * Base) * Hi(f)) * (Lo(g) + Base * Mid(g) + (Base * Base) * Hi(g))
            = p00 + Base * (p01 + p10) + (Base * Base) * (lh + p11 + hl)
              + ((Base * Base) * Base) * (mh + hm) + (((Base * Base) * Base) * Base) * p22
      BY <1>2, <2>1
    <3>2. B2 = Base * Base /\ B3 = (Base * Base) * Base
      BY <1>2
    <3> HIDE DEF p00, p01, p10, p11, p22, lh, hl, mh, hm
    <3>3. QED
      BY <3>1, <3>2
  <2>3. QED
    BY <1>1, <2>2
<1>7. mm = p11 + lows.carry /\ p11 \in Nat /\ p22 \in Nat
  BY <1>4
<1>8. lows.low + B2 * lows.carry = p00 + Base * (p01 + p10)
  BY <1>3
<1>9. (Hi(f) = 0 => hl = 0 /\ hm = 0 /\ p22 = 0) /\ (Hi(g) = 0 => lh = 0 /\ mh = 0 /\ p22 = 0)
  <2>1. \A u \in Int : 0 * u = 0 /\ u * 0 = 0
    OBVIOUS
  <2>2. /\ Lo(f) \in Int /\ Mid(f) \in Int /\ Hi(f) \in Int
        /\ Lo(g) \in Int /\ Mid(g) \in Int /\ Hi(g) \in Int
    BY <1>1, <1>2
  <2>3. ASSUME Hi(f) = 0 PROVE hl = 0 /\ hm = 0 /\ p22 = 0
    BY <2>1, <2>2, <2>3
  <2>4. ASSUME Hi(g) = 0 PROVE lh = 0 /\ mh = 0 /\ p22 = 0
    BY <2>1, <2>2, <2>4
  <2>5. QED
    BY <2>3, <2>4
<1> HIDE DEF lows, mm, lh, hl, mh, hm, p00, p01, p10, p11, p22
<1>10. Lo(s6) \in 0..(Base - 1) /\ up6 \in 0..(B2 - 1) /\ mm + lh + hl = Lo(s6) + Base * up6
  BY <1>4, CarryTwice
<1> HIDE DEF up6, s6, s5
<1>11. Lo(s8) \in 0..(Base - 1) /\ up8 \in 0..(B2 - 1) /\ mh + up6 + hm = Lo(s8) + Base * up8
  BY <1>4, <1>10, CarryTwice
<1> HIDE DEF up8, s8, s7
<1>12. CASE Hi(f) = 0 /\ Hi(g) = 0
  <2>1. f * g = p00 + Base * (p01 + p10) + B2 * p11
    <3>1. B3 * (mh + hm) = 0 /\ (B3 * Base) * p22 = 0 /\ lh + p11 + hl = p11
      BY <1>2, <1>7, <1>9, <1>12
    <3>2. p00 + Base * (p01 + p10) = lows.low + B2 * lows.carry
          /\ lows.low + B2 * lows.carry \in Int /\ B2 * p11 \in Int
      BY <1>2, <1>3, <1>7, <1>8
    <3>3. QED
      BY <1>6, <3>1, <3>2
  <2>2. B2 * mm = B2 * p11 + B2 * lows.carry /\ B2 * p11 \in Int /\ B2 * lows.carry \in Int
    BY <1>2, <1>3, <1>7
  <2>3. MulWords(f, g) = lows.low + B2 * mm
    BY <1>5, <1>12
  <2>4. QED
    BY <1>3, <1>8, <2>1, <2>2, <2>3
<1>13. CASE ~(Hi(f) = 0 /\ Hi(g) = 0)
  <2>1. /\ lows.carry \in Nat /\ lh \in Nat /\ hl \in Nat /\ mh \in Nat /\ hm \in Nat
        /\ Lo(s6) \in Nat /\ up6 \in Nat /\ Lo(s8) \in Nat /\ up8 \in Nat
    BY <1>2, <1>3, <1>4, <1>10, <1>11
  <2>2. p11 + lows.carry + lh + hl = Lo(s6) + Base * up6
    BY <1>7, <1>10
  <2> DEFINE B4 == B3 * Base
  <2>3. B4 \in Nat /\ B3 = B2 * Base
    BY <1>2
  <2> HIDE DEF B4
  <2>4. /\ B2 * (Lo(s6) + Base * up6) = B2 * Lo(s6) + B3 * up6
        /\ B3 * (Lo(s8) + Base * up8) = B3 * Lo(s8) + B4 * up8
    <3>1. \A u, v, B, C \in Nat : C * (u + B * v) = C * u + (C * B) * v
      OBVIOUS
    <3>2. /\ B2 * (Lo(s6) + Base * up6) = B2 * Lo(s6) + (B2 * Base) * up6
          /\ B3 * (Lo(s8) + Base * up8) = B3 * Lo(s8) + (B3 * Base) * up8
      BY <1>2, <2>1, <3>1
    <3>3. QED
      BY <2>3, <3>2 DEF B4
  <2>5. /\ B2 * Lo(s6) + B3 * up6 = B2 * lows.carry + B2 * (lh + p11 + hl)
        /\ B3 * Lo(s8) + B4 * up8 = B3 * up6 + B3 * (mh + hm)
    <3>1. \A u, v, C \in Nat : C * (u + v) = C * u + C * v
      OBVIOUS
    <3>2. Lo(s6) + Base * up6 = lows.carry + (lh + p11 + hl) /\ lh + p11 + hl \in Nat
      BY <1>2, <1>7, <2>1, <2>2
    <3>3. Lo(s8) + Base * up8 = up6 + (mh + hm) /\ mh + hm \in Nat
      BY <1>2, <1>11, <2>1
    <3>4. B2 * (lows.carry + (lh + p11 + hl)) = B2 * lows.carry + B2 * (lh + p11 + hl)
      BY <1>2, <2>1, <3>1, <3>2
    <3>5. B3 * (up6 + (mh + hm)) = B3 * up6 + B3 * (mh + hm)
      BY <1>2, <2>1, <3>1, <3>3
    <3>6. QED
      BY <2>4, <3>2, <3>3, <3>4, <3>5
  <2>6. B4 * (p22 + up8) = B4 * p22 + B4 * up8
    BY <1>7, <2>1, <2>3
  <2>7. /\ B2 * Lo(s6) \in Nat /\ B3 * up6 \in Nat /\ B2 * lows.carry \in Nat
        /\ B2 * (lh + p11 + hl) \in Nat /\ B3 * Lo(s8) \in Nat /\ B4 * up8 \in Nat
        /\ B3 * (mh + hm) \in Nat /\ B4 * p22 \in Nat /\ lows.low \in Nat
    <3>1. \A u, v \in Nat : u * v \in Nat
      OBVIOUS
    <3>2. lh + p11 + hl \in Nat /\ mh + hm \in Nat
      BY <1>7, <2>1
    <3>3. QED
      BY <1>2, <1>3, <1>7, <2>1, <2>3, <3>1, <3>2
  <2>8. MulWords(f, g) = lows.low + B2 * Lo(s6) + B3 * Lo(s8) + B4 * (p22 + up8)
    BY <1>5, <1>13 DEF p22, B4
  <2>9. f * g = (lows.low + B2 * lows.carry) + B2 * (lh + p11 + hl) + B3 * (mh + hm) + B4 * p22
    BY <1>6, <1>8 DEF B4
  <2>10. QED
    BY <2>5, <2>6, <2>7, <2>8, <2>9
<1>14. QED
  BY <1>12, <1>13

\* Whichever of the two routines multiplies, the buffer holds the product.
LEMMA LongProductExact ==
    ASSUME NEW f \in Mantissa, NEW g \in Mantissa
    PROVE  LongProduct(f, g) = f * g
<1>1. f \in Nat /\ g \in Nat /\ Base \in Nat
  BY BaseType DEF Mantissa
<1>2. CASE f < Base
  <2>1. f \in 0..(Base - 1)
    BY <1>1, <1>2
  <2>2. QED
    BY <1>2, <2>1, MulByWordExact DEF LongProduct
<1>3. CASE f >= Base /\ g < Base
  <2>1. g \in 0..(Base - 1) /\ g * f = f * g
    BY <1>1, <1>3
  <2>2. LongProduct(f, g) = MulByWord(g, f)
    BY <1>1, <1>3 DEF LongProduct
  <2>3. QED
    BY <2>1, <2>2, MulByWordExact
<1>4. CASE f >= Base /\ g >= Base
  <2>1. LongProduct(f, g) = MulWords(f, g)
    BY <1>1, <1>4 DEF LongProduct
  <2>2. QED
    BY <2>1, MulWordsExact
<1>5. QED
  BY <1>1, <1>2, <1>3, <1>4

-----------------------------------------------------------------------------
(***************************************************************************)
(* What mul_impl returns is a rounding of the product.                     *)
(***************************************************************************)
\* A rounding to MAX_SCALE digits keeps as many as it may.
LEMMA RoundedToMaxScale ==
    ASSUME NEW m \in Mantissa, NEW v \in Nat, NEW n \in BOOLEAN,
           NEW s \in (MAX_SCALE + 1)..(2 * MAX_SCALE),
           IsHalfEven(m, v, POWERS[s - MAX_SCALE])
    PROVE  IsRoundingOf(FromParts(m, n, MAX_SCALE), v, s)
<1>1. s > MAX_SCALE /\ MAX_SCALE \in Nat /\ s \in Nat /\ m \in Nat
  BY ScaleAssumption, BaseType DEF Mantissa
<1>2. s - MAX_SCALE \in 0..PowLimit
  BY <1>1, LimitAssumption, ScaleAssumption
<1>3. POWERS[s - MAX_SCALE] \in Nat
  BY <1>2, PowersType
<1>4. m = 0 => 2 * v <= POWERS[s - MAX_SCALE]
  BY <1>3 DEF IsHalfEven
<1>5. ~(MAX_SCALE < SmallerOf(s, MAX_SCALE))
  BY <1>1 DEF SmallerOf
<1>6. QED
  BY <1>1, <1>4, <1>5 DEF IsRoundingOf, FromParts

\* The rounding of a double word by a power of ten, an even number, is half to even.
LEMMA FastRoundedRight ==
    ASSUME NEW v \in 0..(B2 - 1), NEW k \in 1..PowLimit
    PROVE  FastRounded(v, k) \in Mantissa /\ IsHalfEven(FastRounded(v, k), v, POWERS[k])
<1> DEFINE p == POWERS[k]
<1> DEFINE q == v \div p
<1> DEFINE r == v % p
<1>1. p \in Nat \ {0} /\ p % 2 = 0 /\ v \in Nat
  BY PowersType, BaseType
<1> HIDE DEF p
<1>2. q \in Nat /\ r \in Nat /\ r < p /\ v = q * p + r /\ q * p \in Int
  BY <1>1, DivMod
<1>3. FastRounded(v, k) = IF v - q * p >= p \div 2 /\ (v - q * p > p \div 2 \/ q % 2 = 1) THEN q + 1 ELSE q
  BY DEF FastRounded, p
<1>4. HalfEven(v, p) = IF 2 * r > p \/ (2 * r = p /\ q % 2 = 1) THEN q + 1 ELSE q
  BY DEF HalfEven
<1> HIDE DEF q, r
<1>5. v - q * p = r /\ p = 2 * (p \div 2) /\ p \div 2 \in Nat
  BY <1>1, <1>2
<1>6. FastRounded(v, k) = HalfEven(v, p)
  BY <1>1, <1>2, <1>3, <1>4, <1>5
<1>7. HalfEven(v, p) <= v /\ HalfEven(v, p) \in Nat /\ IsHalfEven(HalfEven(v, p), v, p)
  <2>1. v * 1 <= v * p
    BY <1>1
  <2>2. v * p \in Int /\ v <= v * p
    BY <1>1, <2>1
  <2>3. QED
    BY <1>1, <2>2, HalfEvenBound, HalfEvenRight
<1>8. QED
  BY <1>1, <1>6, <1>7, BaseType DEF Mantissa, p

\* Two words times each other, with more digits dropped than a u64 has: zero.
LEMMA VanishRight ==
    ASSUME NEW f \in 0..(Base - 1), NEW g \in 0..(Base - 1),
           NEW s \in (MAX_SCALE + MAX_I64_SCALE + 1)..(2 * MAX_SCALE)
    PROVE  IsRoundingOf(ZERO, f * g, s)
<1> DEFINE i == MAX_I64_SCALE + 1
<1> DEFINE j == s - MAX_SCALE - i
<1>1. /\ i \in 0..PowLimit /\ j \in 0..PowLimit /\ i + j \in 0..PowLimit
      /\ i + j = s - MAX_SCALE /\ s > MAX_SCALE
  BY ScaleAssumption, LimitAssumption
<1> HIDE DEF i, j
<1>2. POWERS[s - MAX_SCALE] = POWERS[i] * POWERS[j]
  BY <1>1, PowersAdd
<1>3. POWERS[i] \in Nat /\ POWERS[j] \in Nat /\ POWERS[j] >= 1
  BY <1>1, PowersType
<1>4. POWERS[i] <= POWERS[i] * POWERS[j] /\ POWERS[i] * POWERS[j] \in Int
  <2>1. \A u \in Nat, w \in Nat : w >= 1 => u <= u * w /\ u * w \in Int
    OBVIOUS
  <2>2. QED
    BY <1>3, <2>1
<1>5. f * g \in Nat /\ f * g <= (Base - 1) * (Base - 1) /\ (Base - 1) * (Base - 1) \in Int
  <2>1. Base \in Nat /\ Base >= 2 /\ f \in Nat /\ g \in Nat
    BY BaseType
  <2>2. f * g <= (Base - 1) * g /\ f * g \in Int /\ g * (Base - 1) <= (Base - 1) * (Base - 1)
    BY <2>1, MulMono
  <2>3. (Base - 1) * g = g * (Base - 1) /\ (Base - 1) * g \in Int /\ (Base - 1) * (Base - 1) \in Int
    BY <2>1, MulAssoc
  <2>4. f * g >= 0
    BY <2>1
  <2>5. QED
    BY <2>2, <2>3, <2>4
<1>6. 2 * ((Base - 1) * (Base - 1)) <= POWERS[i]
  <2>1. 2 * (Base - 1) * (Base - 1) = 2 * ((Base - 1) * (Base - 1))
    BY BaseType
  <2>2. QED
    BY <2>1, VanishAssumption DEF i
<1>7. 2 * (f * g) <= POWERS[s - MAX_SCALE]
  BY <1>2, <1>3, <1>4, <1>5, <1>6
<1>8. QED
  BY <1>1, <1>7 DEF IsRoundingOf, ZERO

-----------------------------------------------------------------------------
(***************************************************************************)
(* The invariant of the routine and of the rescale it calls: the rescale   *)
(* is idle until it is called, and then works on the product and its       *)
(* scale, whose last word in use is the one it is told of.                 *)
(***************************************************************************)
ProductCall == [v |-> product, u |-> UpperWord(product), s |-> scaleSum]

MulInv ==
    /\ MulTypeOK
    /\ RescaleInv /\ KeepInv
    /\ mpc \in {"start", "product"} => RescaleIdle
    /\ mpc \in {"product", "rescale"} => product = d1.m * d2.m /\ product # 0
    /\ mpc = "rescale" => rpc # "idle" /\ arg = ProductCall

\* Operands, their product and the sum of their scales.
LEMMA OperandFacts ==
    ASSUME d1 \in Decimal, d2 \in Decimal
    PROVE  /\ d1.m \in Mantissa /\ d2.m \in Mantissa /\ d1.m \in Nat /\ d2.m \in Nat
           /\ d1.m * d2.m \in 0..(Weight[6] - 1)
           /\ scaleSum \in 0..(2 * MAX_SCALE) /\ scaleSum \in Nat /\ MAX_SCALE \in Nat
           /\ negative \in BOOLEAN
<1>1. /\ d1.m \in Mantissa /\ d2.m \in Mantissa /\ d1.s \in 0..MAX_SCALE /\ d2.s \in 0..MAX_SCALE
      /\ d1.neg \in BOOLEAN /\ d2.neg \in BOOLEAN
  BY DEF Decimal
<1>2. d1.m \in Nat /\ d2.m \in Nat /\ B3 \in Nat /\ d1.m <= B3 - 1 /\ d2.m <= B3 - 1 /\ B3 >= 8
  BY <1>1, BaseType DEF Mantissa
<1>3. d1.m * d2.m \in 0..(Weight[6] - 1)
  <2> DEFINE f == d1.m
  <2> DEFINE g == d2.m
  <2>1. f \in Nat /\ g \in Nat /\ f <= B3 - 1 /\ g <= B3 - 1
    BY <1>2
  <2> HIDE DEF f, g
  <2>2. f * g <= (B3 - 1) * g /\ g * (B3 - 1) <= (B3 - 1) * (B3 - 1)
    BY <1>2, <2>1, MulMono
  <2>3. (B3 - 1) * g = g * (B3 - 1) /\ (B3 - 1) * g \in Int /\ f * g \in Nat
    BY <1>2, <2>1
  <2>4. (B3 - 1) * (B3 - 1) = B3 * B3 - 2 * B3 + 1 /\ B3 * B3 \in Int
    BY <1>2
  <2>5. f * g <= B3 * B3 - 1
    BY <1>2, <2>2, <2>3, <2>4
  <2>6. Weight[6] = B3 * B3
    BY WeightType
  <2>7. f * g \in 0..(Weight[6] - 1)
    BY <2>3, <2>4, <2>5, <2>6
  <2>8. QED
    BY <2>7 DEF f, g
<1>4. scaleSum \in 0..(2 * MAX_SCALE) /\ scaleSum \in Nat /\ MAX_SCALE \in Nat
  BY <1>1, ScaleAssumption DEF scaleSum
<1>5. negative \in BOOLEAN
  BY DEF negative
<1>6. QED
  BY <1>1, <1>2, <1>3, <1>4, <1>5

\* The call is one the rescale can take, and its `upper` is in use.
LEMMA ProductCallType ==
    ASSUME d1 \in Decimal, d2 \in Decimal, product \in 0..(Weight[6] - 1)
    PROVE  ProductCall \in RescaleArgs /\ TopInUse(ProductCall)
<1>1. product \in Nat /\ product < Weight[6] /\ Weight[6] = B3 * B3 /\ B3 * B3 \in Nat
  BY WeightType
<1>2. /\ UpperWord(product) \in 0..5
      /\ UpperWord(product) > 0 => Weight[UpperWord(product)] <= product
      /\ product < Weight[UpperWord(product) + 1]
  BY <1>1, UpperWordType
<1>3. scaleSum \in 0..(2 * MAX_SCALE)
  BY OperandFacts
<1>4. ProductCall \in RescaleArgs
  BY <1>1, <1>2, <1>3 DEF RescaleArgs, ProductCall
<1>5. TopInUse(ProductCall)
  <2>1. UpperWord(product) > 2 => product >= Weight[UpperWord(product)] - B3
    BY <1>1, <1>2, BaseType, WeightType
  <2>2. ProductCall.u = UpperWord(product) /\ ProductCall.v = product
    BY DEF ProductCall
  <2>3. QED
    BY <2>1, <2>2 DEF TopInUse
<1>6. QED
  BY <1>4, <1>5

LEMMA MulInitInv == MulInit => MulInv
<1> SUFFICES ASSUME MulInit PROVE MulInv
  OBVIOUS
<1>1. d1 \in Decimal /\ d2 \in Decimal /\ product = 0 /\ returned = ZERO /\ mpc = "start" /\ RescaleIdle
  BY DEF MulInit, MulStarted
<1>2. product \in 0..(Weight[6] - 1)
  BY <1>1, WeightType
<1>3. QED
  BY <1>1, <1>2, ZeroType, IdleInv DEF MulInv, MulTypeOK

\* What a returning action leaves: a decimal, and a rescale that stands still.
LEMMA ReturnInv ==
    ASSUME MulInv, NEW r, r \in Decimal, r.m = 0 => ~r.neg, Returns(r), UNCHANGED <<d1, d2, product, rvars>>
    PROVE  MulInv'
<1>1. (RescaleInv /\ KeepInv)'
  <2>1. UNCHANGED rvars
    OBVIOUS
  <2>2. QED
    BY <2>1, RescaleStep, KeepStep DEF MulInv
<1>2. MulTypeOK'
  BY DEF MulInv, MulTypeOK, Returns
<1>3. mpc' = "done"
  BY DEF Returns
<1>4. QED
  BY <1>1, <1>2, <1>3 DEF MulInv

\* The number a one-word multiplication returns.
FastResult ==
    IF scaleSum <= MAX_SCALE THEN FromParts(d1.m * d2.m, negative, scaleSum)
    ELSE IF scaleSum > MAX_SCALE + MAX_I64_SCALE THEN ZERO
    ELSE FromParts(FastRounded(d1.m * d2.m, scaleSum - MAX_SCALE), negative, MAX_SCALE)

LEMMA FastResultRight ==
    ASSUME d1 \in Decimal, d2 \in Decimal, OneWord(d1), OneWord(d2)
    PROVE  /\ FastResult \in Decimal
           /\ FastResult.m = 0 => ~FastResult.neg
           /\ FastResult.m # 0 => FastResult.neg = negative
           /\ IsRoundingOf(FastResult, d1.m * d2.m, scaleSum)
<1>1. /\ d1.m \in Nat /\ d2.m \in Nat /\ Base \in Nat /\ d1.m < Base /\ d2.m < Base
      /\ scaleSum \in 0..(2 * MAX_SCALE) /\ MAX_SCALE \in Nat /\ negative \in BOOLEAN
  BY OperandFacts, BaseType DEF OneWord
<1>2. d1.m * d2.m \in 0..(B2 - 1) /\ d1.m * d2.m \in Mantissa /\ d1.m * d2.m \in Nat
  <2>1. d1.m \in 0..(Base - 1) /\ d2.m \in 0..(Base - 1)
    BY <1>1
  <2>2. d1.m * d2.m \in Nat /\ d1.m * d2.m <= B2 - 2 * Base + 1
    BY <2>1, WordProduct
  <2>3. QED
    BY <2>2, BaseType DEF Mantissa
<1>3. CASE scaleSum <= MAX_SCALE
  <2>1. scaleSum \in 0..MAX_SCALE
    BY <1>1, <1>3
  <2>2. FastResult = FromParts(d1.m * d2.m, negative, scaleSum)
    BY <1>3 DEF FastResult
  <2>3. QED
    BY <1>1, <1>2, <2>1, <2>2, FromPartsType, ExactRounding
<1>4. CASE scaleSum > MAX_SCALE + MAX_I64_SCALE
  <2>1. scaleSum \in (MAX_SCALE + MAX_I64_SCALE + 1)..(2 * MAX_SCALE)
    BY <1>1, <1>4, ScaleAssumption
  <2>2. FastResult = ZERO
    BY <1>1, <1>4, ScaleAssumption DEF FastResult
  <2>3. d1.m \in 0..(Base - 1) /\ d2.m \in 0..(Base - 1)
    BY <1>1
  <2>4. QED
    BY <2>1, <2>2, <2>3, VanishRight, ZeroType
<1>5. CASE scaleSum > MAX_SCALE /\ scaleSum <= MAX_SCALE + MAX_I64_SCALE
  <2> DEFINE k == scaleSum - MAX_SCALE
  <2>1. k \in 1..PowLimit /\ scaleSum \in (MAX_SCALE + 1)..(2 * MAX_SCALE)
    BY <1>1, <1>5, ScaleAssumption
  <2>2. FastResult = FromParts(FastRounded(d1.m * d2.m, k), negative, MAX_SCALE)
    BY <1>1, <1>5, ScaleAssumption DEF FastResult
  <2>3. FastRounded(d1.m * d2.m, k) \in Mantissa
        /\ IsHalfEven(FastRounded(d1.m * d2.m, k), d1.m * d2.m, POWERS[k])
    BY <1>2, <2>1, FastRoundedRight
  <2>4. MAX_SCALE \in 0..MAX_SCALE
    BY <1>1
  <2>5. QED
    BY <1>1, <1>2, <2>1, <2>2, <2>3, <2>4, FromPartsType, RoundedToMaxScale
<1>6. QED
  BY <1>1, <1>3, <1>4, <1>5, ScaleAssumption

\* A product of up to three words is a mantissa.
LEMMA ProductFits ==
    ASSUME MulInv, UpperWord(product) <= 2, scaleSum <= MAX_SCALE
    PROVE  product \in Mantissa /\ scaleSum \in 0..MAX_SCALE /\ negative \in BOOLEAN
<1>1. product \in Nat /\ product < Weight[6] /\ d1 \in Decimal /\ d2 \in Decimal
  BY WeightType DEF MulInv, MulTypeOK
<1>2. UpperWord(product) \in 0..5 /\ product < Weight[UpperWord(product) + 1]
  BY <1>1, UpperWordType
<1>3. UpperWord(product) + 1 \in 0..3
  BY <1>2
<1>4. product < B3
  BY <1>1, <1>2, <1>3, WeightType, BaseType
<1>5. QED
  BY <1>1, <1>4, BaseType, OperandFacts DEF Mantissa

\* What the rescale of the product returns.
LEMMA ProductRescaled ==
    ASSUME MulInv, mpc = "rescale", rpc = "done"
    PROVE  /\ val \in Mantissa /\ scale \in 0..MAX_SCALE /\ negative \in BOOLEAN
           /\ IsRoundingOf(FromParts(val, negative, scale), d1.m * d2.m, scaleSum)
<1>1. d1 \in Decimal /\ d2 \in Decimal /\ product \in 0..(Weight[6] - 1)
      /\ product = d1.m * d2.m /\ arg = ProductCall /\ RescaleInv /\ KeepInv
  BY DEF MulInv, MulTypeOK
<1>2. TopInUse(arg) /\ negative \in BOOLEAN
  BY <1>1, ProductCallType, OperandFacts
<1>3. arg.v = d1.m * d2.m /\ arg.s = scaleSum
  BY <1>1 DEF ProductCall
<1>4. QED
  BY <1>1, <1>2, <1>3, RescaleAnswers

\* Each action of the routine keeps the invariant.
LEMMA MulStep == MulInv /\ [MulNext]_mulvars => MulInv'
<1> SUFFICES ASSUME MulInv, [MulNext]_mulvars PROVE MulInv'
  OBVIOUS
<1> USE DEF MulInv
<1>1. d1 \in Decimal /\ d2 \in Decimal /\ product \in 0..(Weight[6] - 1)
  BY DEF MulTypeOK
<1>2. CASE MulZero
  BY <1>2, ReturnInv, ZeroType DEF MulZero
<1>3. CASE MulFast
  <2>1. OneWord(d1) /\ OneWord(d2) /\ Returns(FastResult) /\ UNCHANGED <<d1, d2, product, rvars>>
    BY <1>3 DEF MulFast, FastResult
  <2>2. FastResult \in Decimal /\ (FastResult.m = 0 => ~FastResult.neg)
    BY <1>1, <2>1, FastResultRight
  <2>3. QED
    BY <2>1, <2>2, ReturnInv
<1>4. CASE MulMultiply
  <2>1. /\ mpc = "start" /\ d1.m # 0 /\ d2.m # 0 /\ product' = LongProduct(d1.m, d2.m) /\ mpc' = "product"
        /\ UNCHANGED <<d1, d2, returned, rvars>>
    BY <1>4 DEF MulMultiply
  <2>2. product' = d1.m * d2.m /\ product' \in 0..(Weight[6] - 1)
    BY <1>1, <2>1, OperandFacts, LongProductExact
  <2>3. product' # 0
    BY <1>1, <2>1, <2>2, OperandFacts
  <2>4. MulTypeOK'
    BY <2>1, <2>2 DEF MulTypeOK
  <2>5. (RescaleInv /\ KeepInv)'
    BY <2>1, RescaleStep, KeepStep
  <2>6. RescaleIdle'
    BY <2>1 DEF RescaleIdle, rvars
  <2>7. QED
    BY <2>1, <2>2, <2>3, <2>4, <2>5, <2>6
<1>5. CASE MulFits
  <2>1. /\ UpperWord(product) <= 2 /\ scaleSum <= MAX_SCALE
        /\ Returns(FromParts(product, negative, scaleSum)) /\ UNCHANGED <<d1, d2, product, rvars>>
    BY <1>5 DEF MulFits
  <2>2. product \in Mantissa /\ scaleSum \in 0..MAX_SCALE /\ negative \in BOOLEAN
    BY <2>1, ProductFits
  <2>3. QED
    BY <2>1, <2>2, ReturnInv, FromPartsType
<1>6. CASE MulRescale
  <2>1. /\ mpc = "product" /\ RescaleCall(ProductCall) /\ mpc' = "rescale"
        /\ UNCHANGED <<d1, d2, product, returned>>
    BY <1>6 DEF MulRescale, ProductCall
  <2>2. ProductCall \in RescaleArgs
    BY <1>1, ProductCallType
  <2>3. (RescaleInv /\ KeepInv)'
    BY <2>1, <2>2, RescaleCallInv
  <2>4. rpc' = "enter" /\ arg' = ProductCall /\ ProductCall' = ProductCall
    BY <2>1 DEF RescaleCall, ProductCall, scaleSum
  <2>5. MulTypeOK'
    BY <2>1 DEF MulTypeOK
  <2>6. QED
    BY <2>1, <2>3, <2>4, <2>5
<1>7. CASE MulRescaling
  <2>1. mpc = "rescale" /\ RescaleNext /\ UNCHANGED <<d1, d2, product, returned, mpc>>
    BY <1>7 DEF MulRescaling, mvars
  <2>2. (RescaleInv /\ KeepInv)'
    BY <2>1, RescaleStep, KeepStep
  <2>3. arg' = arg /\ rpc' # "idle"
    BY <2>1 DEF RescaleNext, EnterOverflow, Enter, Divide, NextChunk, OneMore, Round, RoundCarries
  <2>4. ProductCall' = ProductCall
    BY <2>1 DEF ProductCall, scaleSum
  <2>5. MulTypeOK'
    BY <2>1 DEF MulTypeOK
  <2>6. QED
    BY <2>1, <2>2, <2>3, <2>4, <2>5
<1>8. CASE MulReturn
  <2>1. mpc = "rescale" /\ rpc = "done" /\ Returns(FromParts(val, negative, scale))
        /\ UNCHANGED <<d1, d2, product, rvars>>
    BY <1>8 DEF MulReturn
  <2>2. val \in Mantissa /\ scale \in 0..MAX_SCALE /\ negative \in BOOLEAN
    BY <2>1, ProductRescaled
  <2>3. QED
    BY <2>1, <2>2, ReturnInv, FromPartsType
<1>9. CASE MulOverflow
  <2>1. mpc' = "overflow" /\ UNCHANGED <<d1, d2, product, returned, rvars>>
    BY <1>9 DEF MulOverflow
  <2>2. MulTypeOK' /\ (RescaleInv /\ KeepInv)'
    BY <2>1, RescaleStep, KeepStep DEF MulTypeOK
  <2>3. QED
    BY <2>1, <2>2
<1>10. CASE UNCHANGED mulvars
  <2>1. UNCHANGED <<d1, d2, product, returned, mpc>> /\ UNCHANGED rvars
    BY <1>10 DEF mulvars, mvars
  <2>2. (RescaleInv /\ KeepInv)'
    BY <2>1, RescaleStep, KeepStep
  <2>3. RescaleIdle => RescaleIdle'
    BY <2>1 DEF RescaleIdle, rvars
  <2>4. MulTypeOK'
    BY <2>1 DEF MulTypeOK
  <2>5. ProductCall' = ProductCall /\ arg' = arg /\ rpc' = rpc
    BY <2>1 DEF ProductCall, scaleSum, rvars
  <2>6. QED
    BY <2>1, <2>2, <2>3, <2>4, <2>5
<1>11. QED
  BY <1>2, <1>3, <1>4, <1>5, <1>6, <1>7, <1>8, <1>9, <1>10 DEF MulNext

LEMMA MulInvariant == MulSpec => []MulInv
  BY MulInitInv, MulStep, PTL DEF MulSpec

\* Whatever mul_impl returns is a decimal, and never a negative zero.
THEOREM MulTypeCorrect == MulSpec => []MulTypeOK
<1>1. MulInv => MulTypeOK
  BY DEF MulInv
<1>2. QED
  BY <1>1, MulInvariant, PTL

\* For every word size the partial products add up to the product: no carry of
\* the wrapping sums is lost or counted twice.
THEOREM MulExact == MulSpec => []MulProductExact
<1>1. MulInv => MulProductExact
  BY DEF MulInv, MulProductExact
<1>2. QED
  BY <1>1, MulInvariant, PTL

-----------------------------------------------------------------------------
(***************************************************************************)
(* The step simulation: every step of Mul is one of RoundedResult, or      *)
(* leaves what was asked and answered as it is.                            *)
(***************************************************************************)
\* RoundedResult speaks of the same numbers.
LEMMA PromiseSame ==
    /\ Promise!ZERO = ZERO /\ Promise!Max96 = Max96
    /\ \A d, v, s : Promise!IsRoundingOf(d, v, s) <=> IsRoundingOf(d, v, s)
    /\ \A v, p : Promise!HalfEven(v, p) = HalfEven(v, p)
  BY DEF Promise!ZERO, ZERO, Promise!Max96, Max96, Promise!B3, B3, Promise!IsRoundingOf, IsRoundingOf,
         Promise!IsHalfEven, IsHalfEven, Promise!HalfEven, HalfEven, Promise!SmallerOf, SmallerOf

\* A decimal returned for the first time is an answer when it is a rounding.
LEMMA ReturnAnswers ==
    ASSUME mpc # "done", mpc # "overflow", NEW r, Returns(r), UNCHANGED <<d1, d2>>,
           IsRoundingOf(r, d1.m * d2.m, scaleSum), r.m # 0 => r.neg = negative
    PROVE  Promise!Answer
<1>1. mpc' = "done" /\ returned' = r
  BY DEF Returns
<1>2. MulAnswer = Promise!None96
  BY PromiseSame DEF MulAnswer, Promise!None96
<1>3. MulAnswer' = [kind |-> "decimal", d |-> r]
  BY <1>1 DEF MulAnswer
<1>4. MulAsked' = MulAsked
  BY DEF MulAsked, scaleSum, negative
<1>5. Promise!Allowed(MulAsked, MulAnswer')
  BY <1>3, PromiseSame DEF Promise!Allowed, MulAsked
<1>6. QED
  BY <1>2, <1>4, <1>5 DEF Promise!Answer, Promise!Unanswered

\* A step that neither returns nor overflows shows nothing.
LEMMA SilentStep ==
    ASSUME UNCHANGED <<d1, d2, returned>>, mpc' = mpc \/ {mpc, mpc'} \subseteq {"start", "product", "rescale"}
    PROVE  UNCHANGED <<MulAsked, MulAnswer>>
<1>1. MulAsked' = MulAsked
  BY DEF MulAsked, scaleSum, negative
<1>2. MulAnswer' = MulAnswer
  BY DEF MulAnswer
<1>3. QED
  BY <1>1, <1>2

LEMMA MulSimulates == MulInv /\ [MulNext]_mulvars => [Promise!Answer]_<<MulAsked, MulAnswer>>
<1> SUFFICES ASSUME MulInv, [MulNext]_mulvars PROVE [Promise!Answer]_<<MulAsked, MulAnswer>>
  OBVIOUS
<1>1. d1 \in Decimal /\ d2 \in Decimal
  BY DEF MulInv, MulTypeOK
<1>2. CASE MulZero
  <2>1. /\ mpc = "start" /\ (d1.m = 0 \/ d2.m = 0) /\ Returns(ZERO) /\ UNCHANGED <<d1, d2>>
    BY <1>2 DEF MulZero
  <2>2. d1.m * d2.m = 0
    BY <1>1, <2>1, OperandFacts
  <2>3. POWERS[IF scaleSum > MAX_SCALE THEN scaleSum - MAX_SCALE ELSE 0] \in Nat
    <3>1. (IF scaleSum > MAX_SCALE THEN scaleSum - MAX_SCALE ELSE 0) \in 0..PowLimit
      BY <1>1, OperandFacts, ScaleAssumption
    <3>2. QED
      BY <3>1, PowersType
  <2>4. IsRoundingOf(ZERO, d1.m * d2.m, scaleSum)
    BY <2>2, <2>3, ZeroType DEF IsRoundingOf
  <2>5. QED
    BY <2>1, <2>4, ReturnAnswers, ZeroType
<1>3. CASE MulFast
  <2>1. mpc = "start" /\ OneWord(d1) /\ OneWord(d2) /\ Returns(FastResult) /\ UNCHANGED <<d1, d2>>
    BY <1>3 DEF MulFast, FastResult
  <2>2. QED
    BY <1>1, <2>1, FastResultRight, ReturnAnswers
<1>4. CASE MulMultiply \/ MulRescale
  <2>1. UNCHANGED <<d1, d2, returned>> /\ {mpc, mpc'} \subseteq {"start", "product", "rescale"}
    BY <1>4 DEF MulMultiply, MulRescale
  <2>2. QED
    BY <2>1, SilentStep
<1>5. CASE MulFits
  <2>1. /\ mpc = "product" /\ UpperWord(product) <= 2 /\ scaleSum <= MAX_SCALE
        /\ Returns(FromParts(product, negative, scaleSum)) /\ UNCHANGED <<d1, d2>>
        /\ product = d1.m * d2.m
    BY <1>5 DEF MulFits, MulInv
  <2>2. product \in Mantissa /\ scaleSum \in 0..MAX_SCALE /\ negative \in BOOLEAN
    BY <2>1, ProductFits
  <2>3. QED
    BY <2>1, <2>2, ExactRounding, FromPartsType, ReturnAnswers
<1>6. CASE MulRescaling
  BY <1>6, SilentStep DEF MulRescaling, mvars
<1>7. CASE MulReturn
  <2>1. mpc = "rescale" /\ rpc = "done" /\ Returns(FromParts(val, negative, scale)) /\ UNCHANGED <<d1, d2>>
    BY <1>7 DEF MulReturn
  <2>2. /\ val \in Mantissa /\ scale \in 0..MAX_SCALE /\ negative \in BOOLEAN
        /\ IsRoundingOf(FromParts(val, negative, scale), d1.m * d2.m, scaleSum)
    BY <2>1, ProductRescaled
  <2>3. QED
    BY <2>1, <2>2, FromPartsType, ReturnAnswers
<1>8. CASE MulOverflow
  <2>1. mpc = "rescale" /\ rpc = "overflow" /\ mpc' = "overflow" /\ UNCHANGED <<d1, d2, product, returned, rvars>>
    BY <1>8 DEF MulOverflow
  <2>2. /\ arg = ProductCall /\ product = d1.m * d2.m /\ KeepInv /\ product \in 0..(Weight[6] - 1)
    BY <2>1 DEF MulInv, MulTypeOK
  <2>3. HalfEven(d1.m * d2.m, POWERS[scaleSum]) > Max96
    <3>1. TopInUse(arg)
      BY <1>1, <2>2, ProductCallType
    <3>2. arg.v = d1.m * d2.m /\ arg.s = scaleSum
      BY <2>2 DEF ProductCall
    <3>3. QED
      BY <2>1, <2>2, <3>1, <3>2 DEF KeepInv, RescaleOverflows
  <2>4. MulAnswer = Promise!None96 /\ MulAnswer' = Promise!Overflow96
    BY <2>1, PromiseSame DEF MulAnswer, Promise!None96, Promise!Overflow96
  <2>5. MulAsked' = MulAsked
    BY <2>1 DEF MulAsked, scaleSum, negative
  <2>6. Promise!Allowed(MulAsked, MulAnswer')
    BY <2>3, <2>4, PromiseSame DEF Promise!Allowed, MulAsked
  <2>7. QED
    BY <2>4, <2>5, <2>6 DEF Promise!Answer, Promise!Unanswered
<1>9. CASE UNCHANGED mulvars
  BY <1>9, SilentStep DEF mulvars, mvars
<1>10. QED
  BY <1>2, <1>3, <1>4, <1>5, <1>6, <1>7, <1>8, <1>9 DEF MulNext

\* For every pair of decimals, mul_impl answers at most once, and only with the
\* exact product rounded once, half to even, with the operands' sign and every
\* digit that fits, or with an overflow of a product that has none that fits.
THEOREM MulKeepsPromise == MulSpec => Promise!PromiseSafety
<1>1. MulInit => Promise!Unanswered
  BY PromiseSame DEF MulInit, MulStarted, Promise!Unanswered, Promise!None96, MulAnswer
<1>2. QED
  BY <1>1, MulInvariant, MulSimulates, PTL DEF MulSpec, Promise!PromiseSafety

-----------------------------------------------------------------------------
(***************************************************************************)
(* Sums and differences.                                                   *)
(***************************************************************************)
\* The operand that is scaled, and the other, over the common scale.
Lhs == IF y.s < x.s THEN y ELSE x
Rhs == IF y.s < x.s THEN x ELSE y
Scaled(d) == d.m * POWERS[CommonScale - d.s]
Due == IF factor > 0 THEN POWERS[factor] ELSE 1

\* (-1)^neg * (l + r), or (-1)^neg * (l - r), is what the call asks for.
SumIs(l, r, neg) ==
    /\ Magnitude = IF Minus THEN (IF l < r THEN r - l ELSE l - r) ELSE l + r
    /\ ~Minus /\ l + r > 0 => (ExactSum < 0 <=> neg)
    /\ Minus /\ l > r => (ExactSum < 0 <=> neg)
    /\ Minus /\ l < r => (ExactSum < 0 <=> ~neg)

\* An answer that keeps what add_impl and sub_impl promise.
Rounded(d) ==
    /\ IsRoundingOf(d, Magnitude, CommonScale)
    /\ d.m # 0 => (d.neg <=> ExactSum < 0)

\* The integral part of the sum does not fit.
TooLarge == HalfEven(Magnitude, POWERS[CommonScale]) > Max96

\* The buffer during the loops that carry and borrow: word `index` is owed, or
\* the loop has borrowed it from a buffer of four words and stops at the next.
Carrying ==
    /\ ~Minus
    /\ buf + Weight[index] = wide + b
    /\ index <= uw + 1 /\ buf < Weight[uw + 1] /\ Weight[uw] <= wide

Borrowing ==
    /\ Minus /\ wide % B3 < b
    /\ \/ BorrowMiscounts
       \/ index = 3 /\ buf = wide - b + B3 /\ Weight[uw] <= wide /\ wide < Weight[uw + 1]
       \/ index = 4 /\ uw = 3 /\ buf = wide - b /\ buf < B3

\* The call of Buf24::rescale.
AddCall == [v |-> buf % Weight[uw + 1], u |-> uw, s |-> CommonScale]

\* The inductive invariant.
AddInv ==
    /\ AddTypeOK /\ ScalingExact /\ SumRounded
    /\ RescaleInv /\ KeepInv
    /\ apc \in {"start", "low", "mid", "high", "buffer", "carry", "borrow", "rescale"} => RescaleIdle
    /\ apc \notin {"start", "done", Overflow} => x.m # 0 /\ y.m # 0 /\ x.s # y.s /\ b = Rhs.m
    /\ apc \in {"low", "mid", "high"} => factor >= 1
    /\ apc = "low" => a < Base
    /\ apc = "mid" => a < B2
    /\ apc = "buffer" => B3 <= buf /\ factor >= 1 - MAX_I32_SCALE
    /\ apc \in {"carry", "borrow", "rescale", "rescaling"} => wide = Scaled(Lhs) /\ B3 <= wide
    /\ apc = "carry" => Carrying
    /\ apc = "borrow" => Borrowing
    /\ apc = "rescale" /\ ~BorrowMiscounts => AddCall.v = Magnitude /\ TopInUse(AddCall)
    /\ apc = "rescaling" => rpc # "idle" /\ arg.s = CommonScale
    /\ apc = "rescaling" /\ ~BorrowMiscounts => arg.v = Magnitude /\ TopInUse(arg)

-----------------------------------------------------------------------------
(***************************************************************************)
(* Sums and differences of 96 bits, as the code wraps them.                *)
(***************************************************************************)
\* B2, B3 and what a high word is worth.
LEMMA HighWeight ==
    /\ B2 \in Nat \ {0} /\ B3 \in Nat \ {0} /\ Base \in Nat \ {0}
    /\ \A h, k \in Int : /\ (h + k) * B2 = h * B2 + k * B2
                         /\ (h - k) * B2 = h * B2 - k * B2
                         /\ h * B2 \in Int
                         /\ h < k => h * B2 <= k * B2 - B2
    /\ Base * B2 = B3 /\ 1 * B2 = B2
<1>1. B2 \in Nat \ {0} /\ B3 \in Nat \ {0} /\ Base \in Nat \ {0}
  BY BaseType
<1>2. ASSUME NEW h \in Int, NEW k \in Int
      PROVE  /\ (h + k) * B2 = h * B2 + k * B2
             /\ (h - k) * B2 = h * B2 - k * B2
             /\ h * B2 \in Int
             /\ h < k => h * B2 <= k * B2 - B2
  <2>1. (h + k) * B2 = h * B2 + k * B2 /\ (h - k) * B2 = h * B2 - k * B2 /\ h * B2 \in Int /\ k * B2 \in Int
    BY <1>1, Distribute
  <2>2. ASSUME h < k PROVE h * B2 <= k * B2 - B2
    <3>1. (h + 1) * B2 <= k * B2
      BY <1>1, <2>2, MulMono
    <3>2. (h + 1) * B2 = h * B2 + 1 * B2
      BY <1>1, Distribute
    <3>3. QED
      BY <1>1, <2>1, <3>1, <3>2
  <2>3. QED
    BY <2>1, <2>2
<1>3. Base * B2 = B3 /\ 1 * B2 = B2
  <2>1. B3 = B2 * Base
    BY <1>1 DEF B2, B3
  <2>2. QED
    BY <1>1, <2>1, MulAssoc
<1>4. QED
  BY <1>1, <1>2, <1>3

\* The borrow reported is the borrow of the whole difference.
LEMMA WrappingSubExact ==
    ASSUME NEW l \in Mantissa, NEW r \in Mantissa
    PROVE  /\ WrappingSub96(l, r).borrow <=> l < r
           /\ WrappingSub96(l, r).v = IF l < r THEN l - r + B3 ELSE l - r
<1> DEFINE d == WrappingSub96(l, r)
<1> DEFINE lh == Hi(l)
<1> DEFINE rh == Hi(r)
<1> DEFINE ll == Low64(l)
<1> DEFINE rl == Low64(r)
<1> DEFINE low == (ll - rl) % B2
<1> DEFINE hi == (lh - rh) % Base
<1> DEFINE hi1 == (hi - 1) % Base
<1>1. /\ lh \in 0..(Base - 1) /\ rh \in 0..(Base - 1) /\ ll \in 0..(B2 - 1) /\ rl \in 0..(B2 - 1)
      /\ l = lh * B2 + ll /\ r = rh * B2 + rl
  BY HighLow
<1>2. /\ B2 \in Nat \ {0} /\ B3 \in Nat \ {0} /\ Base \in Nat \ {0} /\ Base >= 2
  BY HighWeight, BaseType
<1>3. d = IF low > ll THEN [v |-> hi1 * B2 + low, borrow |-> hi1 >= lh]
                            ELSE [v |-> hi * B2 + low, borrow |-> hi > lh]
  BY DEF WrappingSub96, Join
<1> HIDE DEF d
<1> HIDE DEF lh, rh, ll, rl
<1>4. low = IF ll < rl THEN ll - rl + B2 ELSE ll - rl
  BY <1>1, <1>2, WrapMod
<1>5. hi = IF lh < rh THEN lh - rh + Base ELSE lh - rh
  BY <1>1, <1>2, WrapMod
<1> HIDE DEF low, hi
<1>6. hi \in 0..(Base - 1) /\ low \in 0..(B2 - 1)
  BY <1>1, <1>2, <1>4, <1>5
<1>7. hi1 = IF hi < 1 THEN hi - 1 + Base ELSE hi - 1
  <2>1. 1 \in 0..(Base - 1)
    BY <1>2
  <2>2. QED
    BY <1>2, <1>6, <2>1, WrapMod
<1> HIDE DEF hi1
<1>8. /\ lh * B2 \in Int /\ rh * B2 \in Int /\ hi * B2 \in Int /\ hi1 * B2 \in Int
      /\ lh < rh => lh * B2 <= rh * B2 - B2
      /\ rh < lh => rh * B2 <= lh * B2 - B2
  BY <1>1, <1>2, <1>5, <1>6, <1>7, HighWeight
<1>9. /\ lh < rh => hi * B2 = lh * B2 - rh * B2 + B3
      /\ lh >= rh => hi * B2 = lh * B2 - rh * B2
      /\ hi < 1 => hi1 * B2 = hi * B2 - B2 + B3
      /\ hi >= 1 => hi1 * B2 = hi * B2 - B2
  <2>1. lh \in Int /\ rh \in Int /\ hi \in Int /\ Base \in Int /\ lh - rh \in Int /\ hi - 1 \in Int /\ 1 \in Int
    BY <1>1, <1>2, <1>6
  <2>2. /\ (lh - rh) * B2 = lh * B2 - rh * B2
        /\ ((lh - rh) + Base) * B2 = (lh - rh) * B2 + Base * B2
        /\ (hi - 1) * B2 = hi * B2 - 1 * B2
        /\ ((hi - 1) + Base) * B2 = (hi - 1) * B2 + Base * B2
        /\ Base * B2 = B3 /\ 1 * B2 = B2
    BY <2>1, HighWeight
  <2>3. QED
    BY <1>1, <1>2, <1>5, <1>6, <1>7, <1>8, <2>1, <2>2
<1>10. ASSUME ll < rl
       PROVE  (d.borrow <=> l < r) /\ d.v = IF l < r THEN l - r + B3 ELSE l - r
  <2>1. low > ll
    BY <1>1, <1>2, <1>4, <1>10
  <2>2. d = [v |-> hi1 * B2 + low, borrow |-> hi1 >= lh]
    BY <1>3, <2>1
  <2>3. l < r <=> lh <= rh
    BY <1>1, <1>2, <1>8, <1>10
  <2>4. hi1 >= lh <=> lh <= rh
    BY <1>1, <1>2, <1>5, <1>6, <1>7
  <2>5. hi1 * B2 + low = IF lh <= rh THEN l - r + B3 ELSE l - r
    BY <1>1, <1>2, <1>4, <1>5, <1>6, <1>8, <1>9, <1>10
  <2>6. d.borrow <=> hi1 >= lh
    BY <2>2, Zenon
  <2>7. d.v = hi1 * B2 + low
    BY <2>2, Zenon
  <2>8. d.borrow <=> l < r
    BY <2>3, <2>4, <2>6, Zenon
  <2>9. d.v = IF l < r THEN l - r + B3 ELSE l - r
    BY <2>3, <2>5, <2>7
  <2>10. QED
    BY <2>8, <2>9, Zenon
<1>11. ASSUME ~(ll < rl)
       PROVE  (d.borrow <=> l < r) /\ d.v = IF l < r THEN l - r + B3 ELSE l - r
  <2>1. ~(low > ll)
    BY <1>1, <1>2, <1>4, <1>11
  <2>2. d = [v |-> hi * B2 + low, borrow |-> hi > lh]
    BY <1>3, <2>1
  <2>3. l < r <=> lh < rh
    BY <1>1, <1>2, <1>8, <1>11
  <2>4. hi > lh <=> lh < rh
    BY <1>1, <1>2, <1>5, <1>6
  <2>5. hi * B2 + low = IF lh < rh THEN l - r + B3 ELSE l - r
    BY <1>1, <1>2, <1>4, <1>5, <1>6, <1>8, <1>9, <1>11
  <2>6. d.borrow <=> hi > lh
    BY <2>2, Zenon
  <2>7. d.v = hi * B2 + low
    BY <2>2, Zenon
  <2>8. d.borrow <=> l < r
    BY <2>3, <2>4, <2>6, Zenon
  <2>9. d.v = IF l < r THEN l - r + B3 ELSE l - r
    BY <2>3, <2>5, <2>7
  <2>10. QED
    BY <2>8, <2>9, Zenon
<1>12. QED
  BY <1>10, <1>11, Zenon DEF d

\* The carry reported is the carry of the whole sum.
LEMMA WrappingAddExact ==
    ASSUME NEW l \in Mantissa, NEW r \in Mantissa
    PROVE  /\ WrappingAdd96(l, r).carry <=> l + r >= B3
           /\ WrappingAdd96(l, r).v = IF l + r >= B3 THEN l + r - B3 ELSE l + r
<1> DEFINE d == WrappingAdd96(l, r)
<1> DEFINE lh == Hi(l)
<1> DEFINE rh == Hi(r)
<1> DEFINE ll == Low64(l)
<1> DEFINE rl == Low64(r)
<1> DEFINE low == (ll + rl) % B2
<1> DEFINE hi == (lh + rh) % Base
<1> DEFINE hi1 == (hi + 1) % Base
<1>1. /\ lh \in 0..(Base - 1) /\ rh \in 0..(Base - 1) /\ ll \in 0..(B2 - 1) /\ rl \in 0..(B2 - 1)
      /\ l = lh * B2 + ll /\ r = rh * B2 + rl
  BY HighLow
<1>2. /\ B2 \in Nat \ {0} /\ B3 \in Nat \ {0} /\ Base \in Nat \ {0} /\ Base >= 2
  BY HighWeight, BaseType
<1>3. d = IF low < ll THEN [v |-> hi1 * B2 + low, carry |-> hi1 <= lh]
                            ELSE [v |-> hi * B2 + low, carry |-> hi < lh]
  BY DEF WrappingAdd96, Join
<1> HIDE DEF d
<1> HIDE DEF lh, rh, ll, rl
<1>4. low = IF ll + rl < B2 THEN ll + rl ELSE ll + rl - B2
  BY <1>1, <1>2, WrapMod
<1>5. hi = IF lh + rh < Base THEN lh + rh ELSE lh + rh - Base
  BY <1>1, <1>2, WrapMod
<1> HIDE DEF low, hi
<1>6. hi \in 0..(Base - 1) /\ low \in 0..(B2 - 1)
  BY <1>1, <1>2, <1>4, <1>5
<1>7. hi1 = IF hi + 1 < Base THEN hi + 1 ELSE hi + 1 - Base
  <2>1. 1 \in 0..(Base - 1)
    BY <1>2
  <2>2. QED
    BY <1>2, <1>6, <2>1, WrapMod
<1> HIDE DEF hi1
<1>8. /\ lh * B2 \in Int /\ rh * B2 \in Int /\ hi * B2 \in Int /\ hi1 * B2 \in Int
      /\ (lh + rh) * B2 = lh * B2 + rh * B2
      /\ (lh + rh) * B2 \in Int
      /\ lh + rh < Base => (lh + rh) * B2 <= B3 - B2
      /\ Base < lh + rh => B3 <= (lh + rh) * B2 - B2
      /\ lh + rh = Base => (lh + rh) * B2 = B3
      /\ lh + rh < Base - 1 => (lh + rh) * B2 <= B3 - B2 - B2
      /\ lh + rh = Base - 1 => (lh + rh) * B2 = B3 - B2
  <2>1. lh \in Int /\ rh \in Int /\ hi \in Int /\ hi1 \in Int /\ Base \in Int /\ lh + rh \in Int /\ 1 \in Int
        /\ Base - 1 \in Int
    BY <1>1, <1>2, <1>6, <1>7
  <2>2. Base * B2 = B3 /\ (Base - 1) * B2 = Base * B2 - 1 * B2 /\ 1 * B2 = B2
    BY <2>1, HighWeight
  <2>3. QED
    BY <1>2, <2>1, <2>2, HighWeight
<1>9. /\ lh + rh >= Base => hi * B2 = lh * B2 + rh * B2 - B3
      /\ lh + rh < Base => hi * B2 = lh * B2 + rh * B2
      /\ hi + 1 >= Base => hi1 * B2 = hi * B2 + B2 - B3
      /\ hi + 1 < Base => hi1 * B2 = hi * B2 + B2
  <2>1. lh + rh \in Int /\ hi \in Int /\ Base \in Int /\ hi + 1 \in Int /\ 1 \in Int
    BY <1>1, <1>2, <1>6
  <2>2. /\ ((lh + rh) - Base) * B2 = (lh + rh) * B2 - Base * B2
        /\ (hi + 1) * B2 = hi * B2 + 1 * B2
        /\ ((hi + 1) - Base) * B2 = (hi + 1) * B2 - Base * B2
        /\ Base * B2 = B3 /\ 1 * B2 = B2
    BY <2>1, HighWeight
  <2>3. QED
    BY <1>1, <1>2, <1>5, <1>6, <1>7, <1>8, <2>1, <2>2
<1>10. ASSUME ll + rl >= B2
       PROVE  (d.carry <=> l + r >= B3) /\ d.v = IF l + r >= B3 THEN l + r - B3 ELSE l + r
  <2>1. low < ll
    BY <1>1, <1>2, <1>4, <1>10
  <2>2. d = [v |-> hi1 * B2 + low, carry |-> hi1 <= lh]
    BY <1>3, <2>1
  <2>3. l + r >= B3 <=> lh + rh >= Base - 1
    BY <1>1, <1>2, <1>8, <1>10
  <2>4. hi1 <= lh <=> lh + rh >= Base - 1
    BY <1>1, <1>2, <1>5, <1>6, <1>7
  <2>5. hi1 * B2 + low = IF lh + rh >= Base - 1 THEN l + r - B3 ELSE l + r
    BY <1>1, <1>2, <1>4, <1>5, <1>6, <1>8, <1>9, <1>10
  <2>6. d.carry <=> hi1 <= lh
    BY <2>2, Zenon
  <2>7. d.v = hi1 * B2 + low
    BY <2>2, Zenon
  <2>8. d.carry <=> l + r >= B3
    BY <2>3, <2>4, <2>6, Zenon
  <2>9. d.v = IF l + r >= B3 THEN l + r - B3 ELSE l + r
    BY <2>3, <2>5, <2>7
  <2>10. QED
    BY <2>8, <2>9, Zenon
<1>11. ASSUME ~(ll + rl >= B2)
       PROVE  (d.carry <=> l + r >= B3) /\ d.v = IF l + r >= B3 THEN l + r - B3 ELSE l + r
  <2>1. ~(low < ll)
    BY <1>1, <1>2, <1>4, <1>11
  <2>2. d = [v |-> hi * B2 + low, carry |-> hi < lh]
    BY <1>3, <2>1
  <2>3. l + r >= B3 <=> lh + rh >= Base
    BY <1>1, <1>2, <1>8, <1>11
  <2>4. hi < lh <=> lh + rh >= Base
    BY <1>1, <1>2, <1>5, <1>6
  <2>5. hi * B2 + low = IF lh + rh >= Base THEN l + r - B3 ELSE l + r
    BY <1>1, <1>2, <1>4, <1>5, <1>6, <1>8, <1>9, <1>11
  <2>6. d.carry <=> hi < lh
    BY <2>2, Zenon
  <2>7. d.v = hi * B2 + low
    BY <2>2, Zenon
  <2>8. d.carry <=> l + r >= B3
    BY <2>3, <2>4, <2>6, Zenon
  <2>9. d.v = IF l + r >= B3 THEN l + r - B3 ELSE l + r
    BY <2>3, <2>5, <2>7
  <2>10. QED
    BY <2>8, <2>9, Zenon
<1>12. QED
  BY <1>10, <1>11, Zenon DEF d

\* Two's complement, of anything but zero.
LEMMA NegatedExact ==
    ASSUME NEW m \in Mantissa, m # 0
    PROVE  Negated(m) = B3 - m
<1> DEFINE h == Hi(m)
<1> DEFINE w == Low64(m)
<1> DEFINE low == (B2 - w) % B2
<1>1. h \in 0..(Base - 1) /\ w \in 0..(B2 - 1) /\ m = h * B2 + w
  BY HighLow
<1>2. B2 \in Nat \ {0} /\ B3 \in Nat \ {0} /\ Base \in Nat \ {0}
  BY HighWeight
<1>3. Negated(m) = (IF low = 0 THEN (Base - 1) - h + 1 ELSE (Base - 1) - h) * B2 + low
  BY DEF Negated, Join
<1> HIDE DEF h, w
<1>4. low = IF w = 0 THEN 0 ELSE B2 - w
  <2>1. w = 0 => B2 - w = 1 * B2 + 0 /\ B2 - w \in Int
    BY <1>1, <1>2
  <2>2. w # 0 => B2 - w = 0 * B2 + (B2 - w) /\ B2 - w \in Nat /\ B2 - w < B2
    BY <1>1, <1>2
  <2>3. QED
    BY <1>1, <1>2, <2>1, <2>2, IntQuotientUnique
<1> HIDE DEF low
<1>5. /\ (Base - h) * B2 = Base * B2 - h * B2 /\ ((Base - h) - 1) * B2 = (Base - h) * B2 - 1 * B2
      /\ Base * B2 = B3 /\ 1 * B2 = B2 /\ h * B2 \in Int
  <2>1. Base \in Int /\ h \in Int /\ Base - h \in Int /\ 1 \in Int
    BY <1>1, <1>2
  <2>2. QED
    BY <2>1, HighWeight
<1>6. (Base - 1) - h + 1 = Base - h /\ (Base - 1) - h = (Base - h) - 1
  BY <1>1, <1>2
<1>7. QED
  BY <1>1, <1>2, <1>3, <1>4, <1>5, <1>6

-----------------------------------------------------------------------------
(***************************************************************************)
(* The sum that is asked for.                                              *)
(***************************************************************************)
\* The operands over the common scale.
LEMMA ScaledType ==
    ASSUME x \in Decimal, y \in Decimal
    PROVE  /\ CommonScale \in 0..MAX_SCALE /\ x.s \in 0..CommonScale /\ y.s \in 0..CommonScale
           /\ CommonScale \in 0..PowLimit /\ CommonScale \in {x.s, y.s}
           /\ \A d \in {x, y} :
                /\ d \in Decimal /\ d.m \in Mantissa /\ d.m \in Nat /\ d.neg \in BOOLEAN
                /\ CommonScale - d.s \in 0..MAX_SCALE /\ CommonScale - d.s \in 0..PowLimit
                /\ Scaled(d) \in Nat /\ d.m <= Scaled(d) /\ (d.m = 0 <=> Scaled(d) = 0)
                /\ Scaled(d) <= Max96 * POWERS[CommonScale]
                /\ Scaled(d) <= Max96 * Max96
<1>1. /\ MAX_SCALE \in Nat /\ PowLimit \in Nat /\ MAX_SCALE <= PowLimit
      /\ x.s \in 0..MAX_SCALE /\ y.s \in 0..MAX_SCALE
  BY ScaleAssumption DEF Decimal
<1>2. /\ CommonScale \in 0..MAX_SCALE /\ x.s \in 0..CommonScale /\ y.s \in 0..CommonScale
      /\ CommonScale \in 0..PowLimit /\ CommonScale \in {x.s, y.s}
  BY <1>1 DEF CommonScale
<1>3. ASSUME NEW d \in {x, y}
      PROVE  /\ d \in Decimal /\ d.m \in Mantissa /\ d.m \in Nat /\ d.neg \in BOOLEAN
             /\ CommonScale - d.s \in 0..MAX_SCALE /\ CommonScale - d.s \in 0..PowLimit
             /\ Scaled(d) \in Nat /\ d.m <= Scaled(d) /\ (d.m = 0 <=> Scaled(d) = 0)
             /\ Scaled(d) <= Max96 * POWERS[CommonScale]
             /\ Scaled(d) <= Max96 * Max96
  <2> DEFINE k == CommonScale - d.s
  <2> DEFINE p == POWERS[k]
  <2> DEFINE m == d.m
  <2>1. d \in Decimal /\ d.m \in Mantissa /\ d.neg \in BOOLEAN /\ d.s \in 0..CommonScale
    BY <1>2 DEF Decimal
  <2>2. k \in 0..MAX_SCALE /\ k \in 0..PowLimit /\ k <= CommonScale
    BY <1>1, <1>2, <2>1
  <2>3. m \in Nat /\ m <= Max96 /\ Max96 \in Nat
    BY <2>1, BaseType DEF Mantissa
  <2>4. p \in Nat /\ 1 <= p /\ p <= POWERS[CommonScale] /\ POWERS[CommonScale] \in Nat
    <3> HIDE DEF k
    <3>1. p \in Nat /\ 1 <= p /\ POWERS[CommonScale] \in Nat
      BY <1>2, <2>2, PowersType
    <3>2. p <= POWERS[CommonScale]
      BY <1>2, <2>2, PowersMono
    <3>3. QED
      BY <3>1, <3>2
  <2>5. p <= Max96
    <3>1. MAX_SCALE \in 0..PowLimit /\ k <= MAX_SCALE
      BY <1>1, <2>2
    <3>2. p <= POWERS[MAX_SCALE] /\ POWERS[MAX_SCALE] \in Nat
      <4> HIDE DEF k
      <4>1. QED
        BY <2>2, <3>1, PowersMono, PowersType
    <3>3. POWERS[MAX_SCALE] < B3
      BY WidthAssumption DEF B3
    <3>4. QED
      BY <2>4, <3>2, <3>3, BaseType
  <2>6. Scaled(d) = m * p
    BY DEF Scaled
  <2> HIDE DEF m, p, k
  <2>7. m * p \in Nat /\ m <= m * p /\ (m = 0 <=> m * p = 0)
    <3>1. \A u, v \in Nat : u * v \in Nat /\ (v >= 1 => u <= u * v) /\ 0 * v = 0
      OBVIOUS
    <3>2. QED
      BY <2>3, <2>4, <3>1
  <2>8. m * p <= Max96 * p /\ Max96 * p \in Int
    BY <2>3, <2>4, MulMono
  <2>9. Max96 * p <= Max96 * POWERS[CommonScale] /\ Max96 * p <= Max96 * Max96
        /\ Max96 * POWERS[CommonScale] \in Int /\ Max96 * Max96 \in Int
    <3>1. p * Max96 <= POWERS[CommonScale] * Max96 /\ p * Max96 <= Max96 * Max96
      BY <2>3, <2>4, <2>5, MulMono
    <3>2. p * Max96 = Max96 * p /\ POWERS[CommonScale] * Max96 = Max96 * POWERS[CommonScale]
      BY <2>3, <2>4, MulAssoc
    <3>3. Max96 * POWERS[CommonScale] \in Int /\ Max96 * Max96 \in Int
      BY <2>3, <2>4
    <3>4. QED
      BY <3>1, <3>2, <3>3
  <2>10. m <= Scaled(d) /\ Scaled(d) \in Nat /\ (m = 0 <=> Scaled(d) = 0)
        /\ Scaled(d) <= Max96 * POWERS[CommonScale] /\ Scaled(d) <= Max96 * Max96
    BY <2>3, <2>6, <2>7, <2>8, <2>9
  <2>11. QED
    BY <2>1, <2>2, <2>3, <2>10 DEF k, m
<1>4. QED
  BY <1>2, <1>3

\* The sum, by whether magnitudes are added or subtracted, and by the sign of d1.
LEMMA ExactSumBySign ==
    ASSUME x \in Decimal, y \in Decimal, op \in {"add", "sub"}
    PROVE  /\ Scaled(x) \in Nat /\ Scaled(y) \in Nat /\ x.neg \in BOOLEAN /\ y.neg \in BOOLEAN
           /\ ~Minus => ExactSum = IF x.neg THEN -(Scaled(x) + Scaled(y)) ELSE Scaled(x) + Scaled(y)
           /\ Minus => ExactSum = IF x.neg THEN Scaled(y) - Scaled(x) ELSE Scaled(x) - Scaled(y)
<1>1. /\ Scaled(x) \in Nat /\ Scaled(y) \in Nat /\ x.neg \in BOOLEAN /\ y.neg \in BOOLEAN
      /\ x.m \in Nat /\ y.m \in Nat
      /\ POWERS[CommonScale - x.s] \in Nat /\ POWERS[CommonScale - y.s] \in Nat
  BY ScaledType, PowersType
<1>2. ASSUME NEW d \in {x, y}
      PROVE  Signed(d) = IF d.neg THEN -Scaled(d) ELSE Scaled(d)
  <2>1. \A u, v \in Nat : (-1) * u * v = -(u * v) /\ 1 * u * v = u * v
    OBVIOUS
  <2>2. d.m \in Nat /\ POWERS[CommonScale - d.s] \in Nat
    BY <1>1
  <2>3. QED
    BY <2>1, <2>2 DEF Signed, Scaled
<1> DEFINE l == Scaled(x)
<1> DEFINE r == Scaled(y)
<1>3. /\ Signed(x) = IF x.neg THEN -l ELSE l
      /\ Signed(y) = IF y.neg THEN -r ELSE r
      /\ l \in Nat /\ r \in Nat
  BY <1>1, <1>2
<1> HIDE DEF l, r
<1>4. CASE op = "add"
  <2>1. ExactSum = Signed(x) + Signed(y)
    BY <1>4 DEF ExactSum
  <2>2. Minus <=> ~(x.neg <=> y.neg)
    BY <1>1, <1>4, Zenon DEF Minus
  <2>3. /\ ~Minus => ExactSum = IF x.neg THEN -(l + r) ELSE l + r
        /\ Minus => ExactSum = IF x.neg THEN r - l ELSE l - r
    BY <1>3, <2>1, <2>2
  <2>4. QED
    BY <1>1, <2>3 DEF l, r
<1>5. CASE op = "sub"
  <2>1. ExactSum = Signed(x) - Signed(y)
    BY <1>5 DEF ExactSum
  <2>2. Minus <=> (x.neg <=> y.neg)
    BY <1>1, <1>5, Zenon DEF Minus
  <2>3. /\ ~Minus => ExactSum = IF x.neg THEN -(l + r) ELSE l + r
        /\ Minus => ExactSum = IF x.neg THEN r - l ELSE l - r
    BY <1>3, <2>1, <2>2
  <2>4. QED
    BY <1>1, <2>3 DEF l, r
<1>6. QED
  BY <1>4, <1>5

\* It is what adding or subtracting the scaled operands must give, whichever of
\* them is taken first.
LEMMA SumFacts ==
    ASSUME x \in Decimal, y \in Decimal, op \in {"add", "sub"}
    PROVE  /\ SumIs(Scaled(x), Scaled(y), x.neg)
           /\ SumIs(Scaled(Lhs), Scaled(Rhs), LhsNegative)
           /\ LhsNegative \in BOOLEAN /\ Magnitude \in Nat
<1> DEFINE l == Scaled(x)
<1> DEFINE r == Scaled(y)
<1>1. /\ l \in Nat /\ r \in Nat /\ x.neg \in BOOLEAN
      /\ ~Minus => ExactSum = IF x.neg THEN -(l + r) ELSE l + r
      /\ Minus => ExactSum = IF x.neg THEN r - l ELSE l - r
  BY ExactSumBySign
<1> HIDE DEF l, r
<1>2. /\ Magnitude = IF Minus THEN (IF l < r THEN r - l ELSE l - r) ELSE l + r
      /\ Magnitude \in Nat
  BY <1>1 DEF Magnitude
<1>3. SumIs(l, r, x.neg)
  BY <1>1, <1>2 DEF SumIs
<1>4. CASE y.s < x.s
  <2>1. Lhs = y /\ Rhs = x
    BY <1>4 DEF Lhs, Rhs
  <2>2. LhsNegative \in BOOLEAN /\ (LhsNegative <=> ~(Minus <=> x.neg))
    BY <1>1, <1>4, Zenon DEF LhsNegative, Minus
  <2>3. SumIs(r, l, LhsNegative)
    BY <1>1, <1>2, <2>2 DEF SumIs
  <2>4. QED
    BY <1>2, <1>3, <2>1, <2>2, <2>3 DEF l, r
<1>5. CASE ~(y.s < x.s)
  <2>1. Lhs = x /\ Rhs = y /\ LhsNegative = x.neg
    BY <1>5 DEF Lhs, Rhs, LhsNegative
  <2>2. QED
    BY <1>1, <1>2, <1>3, <2>1 DEF l, r
<1>6. QED
  BY <1>4, <1>5

\* Only magnitudes that are added can exceed 96 bits, and then the sum has the
\* sign of the first operand.
LEMMA TooLargeFacts ==
    ASSUME x \in Decimal, y \in Decimal, op \in {"add", "sub"}, TooLarge
    PROVE  ~Minus /\ (x.neg <=> ExactSum < 0) /\ x.neg \in BOOLEAN
<1> DEFINE l == Scaled(x)
<1> DEFINE r == Scaled(y)
<1> DEFINE p == POWERS[CommonScale]
<1>1. /\ l \in Nat /\ r \in Nat /\ l <= Max96 * p /\ r <= Max96 * p
      /\ p \in Nat \ {0} /\ Max96 \in Nat /\ x.neg \in BOOLEAN
  <2>1. CommonScale \in 0..PowLimit /\ x \in {x, y} /\ y \in {x, y}
    BY ScaledType
  <2>2. p \in Nat \ {0} /\ Max96 \in Nat
    BY <2>1, PowersType, BaseType
  <2>3. l \in Nat /\ r \in Nat /\ l <= Max96 * p /\ r <= Max96 * p /\ x.neg \in BOOLEAN
    BY ScaledType, Zenon
  <2>4. QED
    BY <2>2, <2>3, Zenon
<1>2. SumIs(l, r, x.neg) /\ Magnitude \in Nat
  BY SumFacts
<1>3. HalfEven(Magnitude, p) > Max96
  BY DEF TooLarge
<1> HIDE DEF l, r, p
<1>4. Max96 * p \in Int
  BY <1>1
<1>5. ~Minus
  <2>1. SUFFICES ASSUME Minus PROVE FALSE
    OBVIOUS
  <2>2. Magnitude <= Max96 * p
    BY <1>1, <1>2, <1>4, <2>1 DEF SumIs
  <2>3. HalfEven(Magnitude, p) <= Max96
    BY <1>1, <1>2, <2>2, HalfEvenBound
  <2>4. HalfEven(Magnitude, p) \in Nat
    BY <1>1, <1>2, HalfEvenRight
  <2>5. QED
    BY <1>1, <1>3, <2>3, <2>4
<1>6. l + r > 0
  <2>1. SUFFICES ASSUME l + r = 0 PROVE FALSE
    BY <1>1
  <2>2. Magnitude = 0 /\ 0 <= 0 * p /\ 0 \in Nat
    BY <1>1, <1>2, <1>5, <2>1 DEF SumIs
  <2>3. HalfEven(Magnitude, p) <= 0 /\ HalfEven(Magnitude, p) \in Nat
    BY <1>1, <1>2, <2>2, HalfEvenBound, HalfEvenRight
  <2>4. QED
    BY <1>1, <1>3, <2>3
<1>7. QED
  BY <1>1, <1>2, <1>5, <1>6 DEF SumIs

-----------------------------------------------------------------------------
(***************************************************************************)
(* The answers of the routines that stay within 96 bits.                   *)
(***************************************************************************)
\* A step that answers rightly.
RightReturn == \E d \in Decimal : Rounded(d) /\ Return(d)
RightOverflow == TooLarge /\ Fail

\* reduce_scale rounds 2^96 + m by its last digit, half to even.
LEMMA ReducedRight ==
    ASSUME NEW m \in 0..(B3 - 2)
    PROVE  /\ Reduced(m) = HalfEven(B3 + m, Ten)
           /\ Reduced(m) \in Mantissa /\ Reduced(m) # 0
<1> DEFINE v == B3 + m
<1> DEFINE q == v \div Ten
<1> DEFINE r == v % Ten
<1>1. /\ B3 \in Nat /\ v \in Nat /\ v >= B3 /\ v <= 2 * B3 - 2 /\ Base < B2 /\ B2 < B3
      /\ Ten \in Nat \ {0} /\ Ten >= 2 /\ Ten < Base /\ Ten % 2 = 0 /\ Base \in Nat /\ B2 \in Nat
  BY BaseType, BaseAssumption
<1> HIDE DEF v
<1>2. q \in Nat /\ r \in Nat /\ r < Ten /\ v = q * Ten + r
  BY <1>1, DivMod
<1>3. Reduced(m) = IF r >= Ten \div 2 /\ (r > Ten \div 2 \/ q % 2 = 1) THEN q + 1 ELSE q
  BY DEF Reduced, v
<1>4. HalfEven(v, Ten) = IF 2 * r > Ten \/ (2 * r = Ten /\ q % 2 = 1) THEN q + 1 ELSE q
  BY DEF HalfEven
<1> HIDE DEF q, r
<1>5. Ten = 2 * (Ten \div 2) /\ Ten \div 2 \in Nat
  BY <1>1
<1>6. Reduced(m) = HalfEven(v, Ten)
  BY <1>1, <1>2, <1>3, <1>4, <1>5
<1>7. q * Ten \in Int /\ q >= 1
  <2>1. q * Ten \in Int
    BY <1>1, <1>2
  <2>2. SUFFICES ASSUME q = 0 PROVE FALSE
    BY <1>2, <2>1
  <2>3. q * Ten = 0
    BY <1>1, <2>2
  <2>4. QED
    BY <1>1, <1>2, <2>3
<1>8. Reduced(m) <= Max96
  <2>1. q * 2 <= Ten * q /\ Ten * q = q * Ten
    <3>1. 2 * q <= Ten * q
      BY <1>1, <1>2, MulMono
    <3>2. QED
      BY <1>1, <1>2, <3>1, MulAssoc
  <2>2. 2 * q + r <= 2 * B3 - 2
    BY <1>1, <1>2, <1>7, <2>1
  <2>3. Reduced(m) = q + 1 => r >= 1
    BY <1>1, <1>2, <1>3, <1>5
  <2>4. Reduced(m) = q \/ Reduced(m) = q + 1
    BY <1>3
  <2>5. QED
    BY <1>1, <1>2, <2>2, <2>3, <2>4, BaseType
<1>9. Reduced(m) \in Nat
  BY <1>2, <1>3
<1>10. QED
  BY <1>2, <1>3, <1>6, <1>7, <1>8, <1>9, BaseType DEF v, Mantissa

\* A sum that fits is returned exactly.
LEMMA ExactAnswer ==
    ASSUME x \in Decimal, y \in Decimal, op \in {"add", "sub"}, NEW n \in BOOLEAN,
           NEW m \in Mantissa, m = Magnitude, m > 0 => (ExactSum < 0 <=> n)
    PROVE  FromParts(m, n, CommonScale) \in Decimal /\ Rounded(FromParts(m, n, CommonScale))
<1> DEFINE d == FromParts(m, n, CommonScale)
<1>1. CommonScale \in 0..MAX_SCALE
  BY ScaledType
<1>2. d \in Decimal /\ (d.m # 0 => d.neg = n) /\ IsRoundingOf(d, m, CommonScale)
  BY <1>1, FromPartsType, ExactRounding
<1>3. d.m = m
  BY DEF FromParts
<1>4. m # 0 => m > 0
  BY BaseType DEF Mantissa
<1> HIDE DEF d
<1>5. Rounded(d)
  BY <1>2, <1>3, <1>4 DEF Rounded
<1>6. QED
  BY <1>2, <1>5 DEF d

\* A sum of one bit too many loses one digit.
LEMMA ReducedAnswer ==
    ASSUME x \in Decimal, y \in Decimal, op \in {"add", "sub"}, NEW n \in BOOLEAN,
           NEW m \in 0..(B3 - 2), B3 + m = Magnitude, ExactSum < 0 <=> n, CommonScale # 0
    PROVE  /\ FromParts(Reduced(m), n, CommonScale - 1) \in Decimal
           /\ Rounded(FromParts(Reduced(m), n, CommonScale - 1))
<1> DEFINE v == B3 + m
<1> DEFINE s == CommonScale
<1> DEFINE d == FromParts(Reduced(m), n, s - 1)
<1>1. /\ s \in Nat /\ s - 1 \in 0..MAX_SCALE /\ s <= MAX_SCALE /\ MAX_SCALE \in Nat
      /\ v \in Nat /\ v > Max96
      /\ Ten \in Nat \ {0} /\ POWERS[0] = 1 /\ POWERS[1] = Ten
  <2>1. CommonScale \in 0..MAX_SCALE /\ MAX_SCALE \in Nat
    BY ScaledType, ScaleAssumption
  <2>2. v \in Nat /\ v > Max96
    BY BaseType
  <2>3. Ten \in Nat \ {0} /\ POWERS[0] = 1 /\ POWERS[1] = Ten
    BY BaseAssumption, PowersAssumption
  <2> HIDE DEF v
  <2>4. QED
    BY <2>1, <2>2, <2>3
<1>2. Reduced(m) = HalfEven(v, Ten) /\ Reduced(m) \in Mantissa /\ Reduced(m) # 0
  BY ReducedRight
<1>3. d \in Decimal /\ d.m = Reduced(m) /\ d.s = s - 1 /\ (d.m # 0 => d.neg = n)
  BY <1>1, <1>2, FromPartsType DEF FromParts
<1> HIDE DEF v, s, d
<1>4. IsHalfEven(d.m, v, POWERS[s - d.s])
  <2>1. s - d.s = 1
    BY <1>1, <1>3
  <2>2. QED
    BY <1>1, <1>2, <1>3, <2>1, HalfEvenRight
<1>5. HalfEven(v, POWERS[s - d.s - 1]) > Max96
  <2>1. s - d.s - 1 = 0
    BY <1>1, <1>3
  <2>2. QED
    BY <1>1, <2>1, HalfEvenExact
<1>6. IsRoundingOf(d, v, s)
  BY <1>1, <1>2, <1>3, <1>4, <1>5 DEF IsRoundingOf
<1>7. Rounded(d)
  BY <1>3, <1>6 DEF Rounded, v, s
<1>8. QED
  BY <1>3, <1>7 DEF d, s

\* aligned_add: exact within 96 bits, one digit less in 97, overflow without one.
LEMMA AlignedAddRight ==
    ASSUME x \in Decimal, y \in Decimal, op \in {"add", "sub"},
           NEW l \in Mantissa, NEW r \in Mantissa, NEW n \in BOOLEAN, SumIs(l, r, n),
           AlignedAdd(l, r, n, CommonScale)
    PROVE  RightReturn \/ RightOverflow
<1>1. l \in Nat /\ r \in Nat /\ l <= Max96 /\ r <= Max96 /\ B3 \in Nat /\ Max96 = B3 - 1
  BY BaseType DEF Mantissa
<1>2. CASE Minus
  <2> DEFINE d == WrappingSub96(l, r)
  <2>1. Return(IF d.borrow THEN FromParts(Negated(d.v), ~n, CommonScale) ELSE FromParts(d.v, n, CommonScale))
    BY <1>2 DEF AlignedAdd, AlignedSubtract
  <2>2. (d.borrow <=> l < r) /\ d.v = IF l < r THEN l - r + B3 ELSE l - r
    BY WrappingSubExact
  <2> HIDE DEF d
  <2>3. CASE l < r
    <3>1. d.v = l - r + B3 /\ d.v \in Mantissa /\ d.v # 0
      BY <1>1, <2>2, <2>3 DEF Mantissa
    <3>2. Negated(d.v) = r - l
      BY <1>1, <3>1, NegatedExact
    <3>3. Return(FromParts(r - l, ~n, CommonScale))
      BY <2>1, <2>2, <2>3, <3>2, Zenon
    <3>4. r - l \in Mantissa /\ r - l = Magnitude
      BY <1>1, <1>2, <2>3 DEF SumIs, Mantissa
    <3>5. ExactSum < 0 <=> ~n
      BY <1>1, <1>2, <2>3 DEF SumIs
    <3>6. (~n) \in BOOLEAN
      OBVIOUS
    <3>7. QED
      BY <3>3, <3>4, <3>5, <3>6, ExactAnswer DEF RightReturn
  <2>4. CASE ~(l < r)
    <3>1. d.v = l - r /\ l - r \in Mantissa /\ l - r = Magnitude /\ (l - r > 0 => (ExactSum < 0 <=> n))
      BY <1>1, <1>2, <2>2, <2>4 DEF SumIs, Mantissa
    <3>2. Return(FromParts(l - r, n, CommonScale))
      BY <2>1, <2>2, <2>4, <3>1, Zenon
    <3>3. QED
      BY <3>1, <3>2, ExactAnswer DEF RightReturn
  <2>5. QED
    BY <2>3, <2>4
<1>3. CASE ~Minus
  <2> DEFINE t == WrappingAdd96(l, r)
  <2>1. IF ~t.carry THEN Return(FromParts(t.v, n, CommonScale))
        ELSE IF CommonScale = 0 THEN Fail
        ELSE Return(FromParts(Reduced(t.v), n, CommonScale - 1))
    BY <1>3 DEF AlignedAdd
  <2>2. (t.carry <=> l + r >= B3) /\ t.v = IF l + r >= B3 THEN l + r - B3 ELSE l + r
    BY WrappingAddExact
  <2> HIDE DEF t
  <2>3. Magnitude = l + r /\ (l + r > 0 => (ExactSum < 0 <=> n))
    BY <1>3 DEF SumIs
  <2>4. CASE l + r < B3
    <3>1. ~(l + r >= B3) /\ t.v = l + r /\ l + r \in Mantissa
      BY <1>1, <2>2, <2>4 DEF Mantissa
    <3>2. Return(FromParts(l + r, n, CommonScale))
      BY <2>1, <2>2, <3>1, Zenon
    <3>3. QED
      BY <2>3, <3>1, <3>2, ExactAnswer DEF RightReturn
  <2>5. CASE l + r >= B3 /\ CommonScale = 0
    <3>1. Fail
      BY <2>1, <2>2, <2>5, Zenon
    <3>2. HalfEven(Magnitude, POWERS[CommonScale]) = l + r
      BY <1>1, <2>3, <2>5, HalfEvenExact, PowersAssumption
    <3>3. TooLarge
      BY <1>1, <2>5, <3>2 DEF TooLarge
    <3>4. QED
      BY <3>1, <3>3 DEF RightOverflow
  <2>6. CASE l + r >= B3 /\ CommonScale # 0
    <3>1. t.v = l + r - B3 /\ l + r - B3 \in 0..(B3 - 2) /\ B3 + (l + r - B3) = Magnitude /\ l + r > 0
      BY <1>1, <2>2, <2>3, <2>6, BaseType
    <3>2. Return(FromParts(Reduced(l + r - B3), n, CommonScale - 1))
      BY <2>1, <2>2, <2>6, <3>1, Zenon
    <3>3. QED
      BY <2>3, <2>6, <3>1, <3>2, ReducedAnswer DEF RightReturn
  <2>7. QED
    BY <1>1, <2>4, <2>5, <2>6
<1>4. QED
  BY <1>2, <1>3

\* fast_add: one-word magnitudes.
LEMMA FastAddRight ==
    ASSUME x \in Decimal, y \in Decimal, op \in {"add", "sub"},
           NEW l \in 0..(Base - 1), NEW r \in 0..(Base - 1), NEW n \in BOOLEAN, SumIs(l, r, n),
           FastAdd(l, r, n, CommonScale)
    PROVE  RightReturn
<1>1. /\ l \in Nat /\ r \in Nat /\ l < Base /\ r < Base /\ Base \in Nat /\ B2 \in Nat /\ B3 \in Nat
      /\ Max96 = B3 - 1 /\ Base < B2 /\ B2 < B3 /\ 2 * Base <= B2
  <2>1. Base \in Nat /\ 2 <= Base /\ B2 = Base * Base
    BY BaseType DEF B2
  <2>2. 2 * Base <= Base * Base
    BY <2>1, MulMono
  <2>3. QED
    BY <2>1, <2>2, BaseType
<1>2. l + r \in Mantissa /\ (l < r => r - l \in Mantissa) /\ (~(l < r) => l - r \in Mantissa)
  BY <1>1 DEF Mantissa
<1>3. CASE Minus /\ l < r
  <2>1. Return(FromParts(r - l, ~n, CommonScale))
    BY <1>3 DEF FastAdd
  <2>2. r - l = Magnitude /\ (ExactSum < 0 <=> ~n)
    BY <1>1, <1>3 DEF SumIs
  <2>3. (~n) \in BOOLEAN
    OBVIOUS
  <2>4. QED
    BY <1>2, <1>3, <2>1, <2>2, <2>3, ExactAnswer DEF RightReturn
<1>4. CASE Minus /\ ~(l < r)
  <2>1. Return(FromParts(l - r, n, CommonScale))
    BY <1>4 DEF FastAdd
  <2>2. l - r = Magnitude /\ (l - r > 0 => (ExactSum < 0 <=> n))
    BY <1>1, <1>4 DEF SumIs
  <2>3. QED
    BY <1>2, <1>4, <2>1, <2>2, ExactAnswer DEF RightReturn
<1>5. CASE ~Minus
  <2>1. Return(FromParts(l + r, n, CommonScale))
    BY <1>5 DEF FastAdd
  <2>2. l + r = Magnitude /\ (l + r > 0 => (ExactSum < 0 <=> n))
    BY <1>1, <1>5 DEF SumIs
  <2>3. QED
    BY <1>2, <2>1, <2>2, ExactAnswer DEF RightReturn
<1>6. QED
  BY <1>3, <1>4, <1>5

-----------------------------------------------------------------------------
(***************************************************************************)
(* Scaling.                                                                *)
(***************************************************************************)
\* What a call asks for does not change with the rest.
LEMMA CallSame ==
    ASSUME UNCHANGED call
    PROVE  /\ x' = x /\ y' = y /\ op' = op
           /\ Minus' = Minus /\ CommonScale' = CommonScale /\ LhsNegative' = LhsNegative
           /\ Lhs' = Lhs /\ Rhs' = Rhs /\ Scaled(Lhs)' = Scaled(Lhs)
           /\ ExactSum' = ExactSum /\ Magnitude' = Magnitude
<1>1. x' = x /\ y' = y /\ op' = op
  BY DEF call
<1>2. Minus' = Minus /\ CommonScale' = CommonScale
  BY <1>1 DEF Minus, CommonScale
<1>3. LhsNegative' = LhsNegative
  BY <1>1, <1>2 DEF LhsNegative
<1>4. Lhs' = Lhs /\ Rhs' = Rhs
  BY <1>1 DEF Lhs, Rhs
<1>5. Scaled(Lhs)' = Scaled(Lhs)
  BY <1>2, <1>4 DEF Scaled
<1>6. ExactSum' = ExactSum
  BY <1>1, <1>2 DEF ExactSum, Signed
<1>7. Magnitude' = Magnitude
  BY <1>6 DEF Magnitude
<1>8. QED
  BY <1>1, <1>2, <1>3, <1>4, <1>5, <1>6, <1>7

\* Nor does a rescale that is not running.
LEMMA RescaleSame ==
    ASSUME RescaleInv, KeepInv, UNCHANGED rvars
    PROVE  (RescaleInv /\ KeepInv)' /\ (RescaleIdle => RescaleIdle')
<1>1. (RescaleInv /\ KeepInv)'
  BY RescaleStep, KeepStep
<1>2. RescaleIdle => RescaleIdle'
  BY DEF rvars, RescaleIdle
<1>3. QED
  BY <1>1, <1>2

\* The scaled operand and the other one, when the scales differ.
LEMMA LhsFacts ==
    ASSUME x \in Decimal, y \in Decimal, op \in {"add", "sub"}, x.s # y.s
    PROVE  /\ Lhs.m \in Mantissa /\ Rhs.m \in Mantissa /\ LhsNegative \in BOOLEAN
           /\ CommonScale - Lhs.s \in 1..MAX_SCALE
           /\ Scaled(Lhs) = Lhs.m * POWERS[CommonScale - Lhs.s]
           /\ Scaled(Lhs) \in Nat /\ Scaled(Lhs) <= Max96 * Max96
           /\ Scaled(Lhs) + Rhs.m < Weight[6]
           /\ SumIs(Scaled(Lhs), Rhs.m, LhsNegative)
<1>1. Lhs \in {x, y} /\ Rhs \in {x, y}
  BY DEF Lhs, Rhs
<1>2. /\ Lhs.m \in Mantissa /\ Rhs.m \in Mantissa /\ Scaled(Lhs) \in Nat /\ Scaled(Lhs) <= Max96 * Max96
      /\ Rhs.m \in Nat
  BY <1>1, ScaledType
<1>3. CommonScale - Lhs.s \in 1..MAX_SCALE /\ CommonScale - Rhs.s = 0
  BY ScaleAssumption DEF CommonScale, Lhs, Rhs, Decimal
<1>4. Scaled(Rhs) = Rhs.m
  BY <1>2, <1>3, PowersAssumption DEF Scaled
<1>5. SumIs(Scaled(Lhs), Rhs.m, LhsNegative) /\ LhsNegative \in BOOLEAN
  BY <1>4, SumFacts
<1>6. Scaled(Lhs) + Rhs.m < Weight[6]
  <2>1. Max96 = B3 - 1 /\ B3 \in Nat /\ B3 >= 8 /\ Weight[6] = B3 * B3
    BY BaseType, WeightType
  <2>2. Max96 * Max96 = B3 * B3 - 2 * B3 + 1 /\ B3 * B3 \in Int
    BY <2>1
  <2>3. Rhs.m <= B3 - 1
    BY <1>2, <2>1 DEF Mantissa
  <2>4. QED
    BY <1>2, <2>1, <2>2, <2>3
<1>7. QED
  BY <1>2, <1>3, <1>5, <1>6 DEF Scaled

\* What is still due after f powers of ten less the chunk of one pass.
DueAfter(f) == IF f - MAX_I32_SCALE > 0 THEN POWERS[f - MAX_I32_SCALE] ELSE 1

\* One pass of a loop multiplies by a word, and what is due divides by it.
LEMMA PassFacts ==
    ASSUME NEW f \in 1..MAX_SCALE, NEW v \in Nat
    PROVE  /\ Power(f) \in Nat /\ 1 <= Power(f) /\ Power(f) < Base
           /\ DueAfter(f) \in Nat /\ 1 <= DueAfter(f)
           /\ v * Power(f) \in Nat /\ v <= v * Power(f)
           /\ v * Power(f) <= (v * Power(f)) * DueAfter(f)
           /\ (v * Power(f)) * DueAfter(f) = v * POWERS[f]
           /\ f <= MAX_I32_SCALE => DueAfter(f) = 1 /\ Power(f) = POWERS[f]
           /\ f > MAX_I32_SCALE => Power(f) = POWERS[MAX_I32_SCALE]
<1>1. /\ MAX_I32_SCALE \in 1..PowLimit /\ f \in 1..PowLimit /\ f \in Nat /\ MAX_I32_SCALE \in Nat
      /\ POWERS[MAX_I32_SCALE] < Base /\ Base \in Nat /\ PowLimit \in Nat
  BY ScaleAssumption, WidthAssumption, BaseType
<1>2. CASE f <= MAX_I32_SCALE
  <2>1. Power(f) = POWERS[f] /\ DueAfter(f) = 1
    BY <1>1, <1>2, ChunkType DEF Power, DueAfter
  <2>2. POWERS[f] \in Nat /\ 1 <= POWERS[f] /\ POWERS[f] <= POWERS[MAX_I32_SCALE]
    <3>1. f \in 0..PowLimit /\ MAX_I32_SCALE \in 0..PowLimit
      BY <1>1
    <3>2. QED
      BY <1>2, <3>1, PowersType, PowersMono
  <2>3. POWERS[f] < Base
    BY <1>1, <2>2, PowersType
  <2>4. v * POWERS[f] \in Nat /\ v <= v * POWERS[f]
    <3>1. \A u, w \in Nat : u * w \in Nat /\ (w >= 1 => u <= u * w)
      OBVIOUS
    <3>2. QED
      BY <2>2, <3>1
  <2>5. (v * POWERS[f]) * 1 = v * POWERS[f]
    BY <2>4
  <2>6. ~(f > MAX_I32_SCALE)
    BY <1>1, <1>2
  <2> HIDE DEF DueAfter
  <2>7. QED
    BY <2>1, <2>2, <2>3, <2>4, <2>5, <2>6
<1>3. CASE f > MAX_I32_SCALE
  <2> DEFINE g == f - MAX_I32_SCALE
  <2> DEFINE p == POWERS[MAX_I32_SCALE]
  <2>1. Power(f) = p /\ DueAfter(f) = POWERS[g]
    BY <1>1, <1>3, ChunkType DEF Power, DueAfter
  <2>2. g \in 0..PowLimit /\ MAX_I32_SCALE \in 0..PowLimit /\ MAX_I32_SCALE + g = f
    BY <1>1, <1>3
  <2> HIDE DEF g
  <2>3. POWERS[g] \in Nat /\ 1 <= POWERS[g] /\ p \in Nat /\ 1 <= p /\ POWERS[f] = p * POWERS[g]
    <3>1. POWERS[g] \in Nat /\ 1 <= POWERS[g] /\ p \in Nat /\ 1 <= p
      BY <2>2, PowersType
    <3>2. MAX_I32_SCALE + g \in 0..PowLimit
      BY <1>1, <2>2
    <3>3. POWERS[MAX_I32_SCALE + g] = p * POWERS[g]
      BY <2>2, <3>2, PowersAdd
    <3>4. QED
      BY <2>2, <3>1, <3>3
  <2>4. p < Base
    BY <1>1
  <2> HIDE DEF p
  <2>5. v * p \in Nat /\ v <= v * p /\ v * p <= (v * p) * POWERS[g]
    <3>1. \A u, w \in Nat : u * w \in Nat /\ (w >= 1 => u <= u * w)
      OBVIOUS
    <3>2. v * p \in Nat
      BY <2>3, <3>1
    <3>3. QED
      BY <2>3, <3>1, <3>2
  <2>6. (v * p) * POWERS[g] = v * (p * POWERS[g])
    BY <2>3, MulAssoc
  <2>7. QED
    BY <1>1, <1>3, <2>1, <2>3, <2>4, <2>5, <2>6 DEF p
<1>4. QED
  BY <1>1, <1>2, <1>3

\* ScalingExact, by its parts.
LEMMA ScalingParts ==
    ScalingExact <=> /\ apc \in {"low", "mid", "high"} => a * Due = Scaled(Lhs)
                     /\ apc = "buffer" => /\ buf * Due = Scaled(Lhs)
                                          /\ Weight[uw] <= buf /\ buf < Weight[uw + 1]
  BY DEF ScalingExact, Due, Scaled, Lhs

\* A step that returns or overflows, and is right to do so, keeps the invariant.
LEMMA FinishInv ==
    ASSUME AddInv, x.m # 0, y.m # 0, RightReturn \/ RightOverflow,
           UNCHANGED <<call, b, buf, uw, index, wide, rvars>>,
           a' \in Mantissa, factor' \in -MAX_I32_SCALE..MAX_SCALE
    PROVE  AddInv'
<1>1. x \in Decimal /\ y \in Decimal /\ op \in {"add", "sub"}
  BY DEF AddInv, AddTypeOK
<1>2. (RescaleInv /\ KeepInv)'
  BY RescaleSame DEF AddInv
<1>3. /\ x' = x /\ y' = y /\ op' = op
      /\ CommonScale' = CommonScale /\ ExactSum' = ExactSum /\ Magnitude' = Magnitude
  BY CallSame
<1>4. CASE RightReturn
  <2>1. PICK d \in Decimal : Rounded(d) /\ result' = d /\ apc' = "done"
    BY <1>4 DEF RightReturn, Return
  <2>2. AddTypeOK'
    BY <1>3, <2>1 DEF AddInv, AddTypeOK, Overflow
  <2>3. IsRoundingOf(d, Magnitude, CommonScale) /\ (d.m # 0 => (d.neg <=> ExactSum < 0)) /\ d.neg \in BOOLEAN
    BY <2>1 DEF Rounded, Decimal
  <2>4. SumRounded'
    BY <1>3, <2>1, <2>3 DEF SumRounded, Overflow
  <2>5. QED
    BY <1>2, <2>1, <2>2, <2>4, ScalingParts DEF AddInv, ScalingExact, Overflow
<1>5. CASE RightOverflow
  <2>1. TooLarge /\ apc' = Overflow /\ result' = result
    BY <1>5 DEF RightOverflow, Fail
  <2>2. AddTypeOK'
    BY <1>3, <2>1 DEF AddInv, AddTypeOK, Overflow
  <2>3. (x.neg <=> ExactSum < 0) /\ x.neg \in BOOLEAN
    BY <1>1, <2>1, TooLargeFacts
  <2>4. Saturated'.neg = x.neg
    BY <1>3, <2>1 DEF Saturated
  <2>5. SumRounded'
    BY <1>3, <2>1, <2>3, <2>4 DEF SumRounded, Overflow, TooLarge
  <2>6. QED
    BY <1>2, <2>1, <2>2, <2>5 DEF AddInv, ScalingExact, Overflow
<1>6. QED
  BY <1>4, <1>5

\* A step that goes on scaling keeps it.
LEMMA ContinueInv ==
    ASSUME AddInv, UNCHANGED <<call, index, wide, result, rvars>>, RescaleIdle,
           apc' \in {"low", "mid", "high", "buffer"},
           x.m # 0, y.m # 0, x.s # y.s, b' = Rhs.m,
           a' \in Mantissa, factor' \in -MAX_I32_SCALE..MAX_SCALE,
           buf' \in 0..(Weight[6] - 1), uw' \in 0..5,
           apc' \in {"low", "mid", "high"} => factor' >= 1 /\ a' * POWERS[factor'] = Scaled(Lhs),
           apc' = "low" => a' < Base,
           apc' = "mid" => a' < B2,
           apc' = "buffer" => /\ B3 <= buf' /\ factor' >= 1 - MAX_I32_SCALE
                              /\ buf' * (IF factor' > 0 THEN POWERS[factor'] ELSE 1) = Scaled(Lhs)
                              /\ Weight[uw'] <= buf' /\ buf' < Weight[uw' + 1]
    PROVE  AddInv'
<1>1. x \in Decimal /\ y \in Decimal /\ op \in {"add", "sub"}
  BY DEF AddInv, AddTypeOK
<1>2. (RescaleInv /\ KeepInv)' /\ RescaleIdle'
  BY RescaleSame DEF AddInv
<1>3. x' = x /\ y' = y /\ op' = op /\ Rhs' = Rhs /\ Scaled(Lhs)' = Scaled(Lhs)
  BY CallSame
<1>4. Rhs.m \in Mantissa
  BY <1>1, LhsFacts
<1>5. AddTypeOK'
  BY <1>3, <1>4 DEF AddInv, AddTypeOK
<1>6. apc' \in {"low", "mid", "high"} => a' * Due' = Scaled(Lhs)
  <2>1. factor' \in Int
    BY <1>5, ScaleAssumption DEF AddTypeOK
  <2>2. apc' \in {"low", "mid", "high"} => Due' = POWERS[factor']
    BY <2>1 DEF Due
  <2>3. QED
    BY <2>2
<1>7. apc' = "buffer" => buf' * Due' = Scaled(Lhs)
  BY DEF Due
<1>8. ScalingExact'
  <2>1. Scaled(Lhs)' = (Lhs.m)' * (POWERS[CommonScale - Lhs.s])'
    BY DEF Scaled
  <2>2. Due' = IF factor' > 0 THEN POWERS[factor'] ELSE 1
    BY DEF Due
  <2>3. QED
    BY <1>3, <1>6, <1>7, <2>1, <2>2 DEF ScalingExact, Lhs
<1>9. SumRounded'
  BY DEF SumRounded, Overflow
<1>10. QED
  BY <1>2, <1>3, <1>5, <1>8, <1>9 DEF AddInv, Overflow

\* Zero and anything.
LEMMA AddZeroInv == AddInv /\ AddZero => AddInv'
<1> SUFFICES ASSUME AddInv, AddZero PROVE AddInv'
  OBVIOUS
<1>1. /\ apc = "start" /\ (x.m = 0 \/ y.m = 0) /\ apc' = "done"
      /\ result' = IF x.m # 0 THEN x
                   ELSE IF op = "sub" /\ y.m # 0 THEN [y EXCEPT !.neg = ~y.neg] ELSE y
      /\ UNCHANGED <<call, a, b, factor, buf, uw, index, wide, rvars>>
  BY DEF AddZero, Return
<1>2. x \in Decimal /\ y \in Decimal /\ op \in {"add", "sub"}
  BY DEF AddInv, AddTypeOK
<1>3. /\ x' = x /\ y' = y /\ op' = op
      /\ CommonScale' = CommonScale /\ ExactSum' = ExactSum /\ Magnitude' = Magnitude
  BY <1>1, CallSame
<1>4. /\ SumIs(Scaled(x), Scaled(y), x.neg)
      /\ Scaled(x) \in Nat /\ Scaled(y) \in Nat
      /\ (x.m = 0 <=> Scaled(x) = 0) /\ (y.m = 0 <=> Scaled(y) = 0)
  BY <1>2, SumFacts, ScaledType
<1>5. x.neg \in BOOLEAN /\ y.neg \in BOOLEAN
  BY <1>2, ScaledType
<1>6. /\ result' \in Decimal
      /\ Scaled(result') = Magnitude
      /\ result'.m # 0 => (result'.neg <=> ExactSum < 0)
  <2>1. CASE x.m # 0
    <3>1. result' = x /\ Scaled(y) = 0 /\ Scaled(x) > 0
      BY <1>1, <1>4, <2>1
    <3>2. Magnitude = Scaled(x) /\ (ExactSum < 0 <=> x.neg)
      BY <1>4, <3>1 DEF SumIs
    <3>3. QED
      BY <1>2, <3>1, <3>2
  <2>2. CASE x.m = 0
    <3>1. result'.m = y.m /\ result'.s = y.s /\ result' \in Decimal
      BY <1>1, <1>2, <2>2 DEF Decimal
    <3>2. Scaled(x) = 0 /\ Magnitude = Scaled(y)
      BY <1>4, <2>2 DEF SumIs
    <3>3. Scaled(result') = Scaled(y)
      BY <3>1 DEF Scaled
    <3>4. ASSUME y.m # 0 PROVE result'.neg <=> ExactSum < 0
      <4>1. Scaled(y) > 0
        BY <1>4, <3>4
      <4>2. /\ Minus => (ExactSum < 0 <=> ~x.neg)
            /\ ~Minus => (ExactSum < 0 <=> x.neg)
        BY <1>4, <3>2, <4>1 DEF SumIs
      <4>3. CASE op = "sub"
        <5>1. result' = [y EXCEPT !.neg = ~y.neg]
          BY <1>1, <2>2, <3>4, <4>3
        <5>2. result'.neg <=> ~y.neg
          BY <1>2, <5>1, Zenon DEF Decimal
        <5>3. Minus <=> (x.neg <=> y.neg)
          BY <1>5, <4>3, Zenon DEF Minus
        <5>4. QED
          BY <4>2, <5>2, <5>3, Zenon
      <4>4. CASE op = "add"
        <5>1. result' = y
          BY <1>1, <2>2, <4>4
        <5>2. Minus <=> ~(x.neg <=> y.neg)
          BY <1>5, <4>4, Zenon DEF Minus
        <5>3. QED
          BY <4>2, <5>1, <5>2, Zenon
      <4>5. QED
        BY <1>2, <4>3, <4>4
    <3>5. QED
      BY <3>1, <3>2, <3>3, <3>4
  <2>3. QED
    BY <2>1, <2>2
<1>7. SumRounded'
  BY <1>1, <1>3, <1>6 DEF SumRounded, Scaled, Overflow
<1>8. AddTypeOK'
  BY <1>1, <1>3, <1>6 DEF AddInv, AddTypeOK, Overflow
<1>9. (RescaleInv /\ KeepInv)'
  BY <1>1, RescaleSame DEF AddInv
<1>10. QED
  BY <1>1, <1>7, <1>8, <1>9 DEF AddInv, ScalingExact, Overflow

\* One-word operands, one of them scaled up within a word.
LEMMA AddFastInv == AddInv /\ AddFast => AddInv'
<1> SUFFICES ASSUME AddInv, AddFast PROVE AddInv'
  OBVIOUS
<1>1. /\ x.m # 0 /\ y.m # 0 /\ FastPath
      /\ FastAdd(Scaled(x), Scaled(y), x.neg, CommonScale)
      /\ UNCHANGED <<call, a, b, factor, buf, uw, index, wide, rvars>>
  BY DEF AddFast, Scaled
<1>2. x \in Decimal /\ y \in Decimal /\ op \in {"add", "sub"}
      /\ a \in Mantissa /\ factor \in -MAX_I32_SCALE..MAX_SCALE
  BY DEF AddInv, AddTypeOK
<1>3. /\ Scaled(x) \in Nat /\ Scaled(y) \in Nat /\ x.m \in Nat /\ y.m \in Nat
      /\ SumIs(Scaled(x), Scaled(y), x.neg) /\ x.neg \in BOOLEAN
      /\ x.s \in Nat /\ y.s \in Nat /\ CommonScale \in Nat
  <2>1. CommonScale \in Nat /\ x.s \in Nat /\ y.s \in Nat
    BY <1>2, ScaledType, ScaleAssumption
  <2>2. Scaled(x) \in Nat /\ Scaled(y) \in Nat /\ x.m \in Nat /\ y.m \in Nat /\ x.neg \in BOOLEAN
    BY <1>2, ScaledType, Zenon
  <2>3. QED
    BY <1>2, <2>1, <2>2, SumFacts, Zenon
<1>4. Scaled(x) \in 0..(Base - 1) /\ Scaled(y) \in 0..(Base - 1)
  <2>1. x.m < Base /\ y.m < Base /\ Base \in Nat /\ POWERS[0] = 1
    BY <1>1, BaseType, PowersAssumption DEF FastPath, OneWord
  <2>2. x.m * 1 = x.m /\ y.m * 1 = y.m
    BY <1>3
  <2>3. Scaled(x) < Base
    <3>1. CASE x.s < y.s
      BY <1>1, <1>3, <3>1 DEF FastPath, Rescalable32, Scaled, CommonScale
    <3>2. CASE ~(x.s < y.s)
      <4>1. CommonScale - x.s = 0
        BY <1>3, <3>2 DEF CommonScale
      <4>2. QED
        BY <2>1, <2>2, <4>1 DEF Scaled
    <3>3. QED
      BY <3>1, <3>2
  <2>4. Scaled(y) < Base
    <3>1. CASE y.s < x.s
      <4>1. CommonScale = x.s
        BY <1>3, <3>1 DEF CommonScale
      <4>2. QED
        BY <1>1, <1>3, <3>1, <4>1 DEF FastPath, Rescalable32, Scaled
    <3>2. CASE ~(y.s < x.s)
      <4>1. CommonScale - y.s = 0
        BY <1>3, <3>2 DEF CommonScale
      <4>2. QED
        BY <2>1, <2>2, <4>1 DEF Scaled
    <3>3. QED
      BY <3>1, <3>2
  <2>5. QED
    BY <1>3, <2>1, <2>3, <2>4
<1>5. RightReturn
  BY <1>1, <1>2, <1>3, <1>4, FastAddRight
<1>6. QED
  BY <1>1, <1>2, <1>5, FinishInv

LEMMA AddSameScaleInv == AddInv /\ AddSameScale => AddInv'
<1> SUFFICES ASSUME AddInv, AddSameScale PROVE AddInv'
  OBVIOUS
<1>1. /\ x.m # 0 /\ y.m # 0 /\ x.s = y.s /\ AlignedAdd(x.m, y.m, x.neg, x.s)
      /\ UNCHANGED <<call, a, b, factor, buf, uw, index, wide, rvars>>
  BY DEF AddSameScale
<1>2. x \in Decimal /\ y \in Decimal /\ op \in {"add", "sub"}
      /\ a \in Mantissa /\ factor \in -MAX_I32_SCALE..MAX_SCALE
  BY DEF AddInv, AddTypeOK
<1>3. x.m \in Mantissa /\ y.m \in Mantissa /\ x.m \in Nat /\ y.m \in Nat /\ x.neg \in BOOLEAN
  BY <1>2, ScaledType, Zenon
<1>4. CommonScale = x.s /\ CommonScale - x.s = 0 /\ CommonScale - y.s = 0
  BY <1>1, <1>2, ScaleAssumption DEF CommonScale, Decimal
<1>5. Scaled(x) = x.m /\ Scaled(y) = y.m
  <2>1. x.m * 1 = x.m /\ y.m * 1 = y.m /\ POWERS[0] = 1
    BY <1>3, PowersAssumption
  <2>2. QED
    BY <1>4, <2>1 DEF Scaled
<1>6. SumIs(x.m, y.m, x.neg)
  BY <1>2, <1>5, SumFacts
<1>7. RightReturn \/ RightOverflow
  BY <1>1, <1>2, <1>3, <1>4, <1>6, AlignedAddRight
<1>8. QED
  BY <1>1, <1>2, <1>7, FinishInv

LEMMA StartScalingInv == AddInv /\ StartScaling => AddInv'
<1> SUFFICES ASSUME AddInv, StartScaling PROVE AddInv'
  OBVIOUS
<1>1. /\ apc = "start" /\ x.m # 0 /\ y.m # 0 /\ x.s # y.s
      /\ apc' = IF a' < Base THEN "low" ELSE IF a' < B2 THEN "mid" ELSE "high"
      /\ UNCHANGED <<call, buf, uw, index, wide, result, rvars>>
  BY DEF StartScaling
<1>2. /\ x \in Decimal /\ y \in Decimal /\ op \in {"add", "sub"}
      /\ buf \in 0..(Weight[6] - 1) /\ uw \in 0..5 /\ RescaleIdle
  BY <1>1 DEF AddInv, AddTypeOK
<1>3. a' = Lhs.m /\ b' = Rhs.m /\ factor' = CommonScale - Lhs.s
  BY <1>1, <1>2, ScaleAssumption DEF StartScaling, Lhs, Rhs, CommonScale, Decimal
<1>4. /\ Lhs.m \in Mantissa /\ CommonScale - Lhs.s \in 1..MAX_SCALE
      /\ Scaled(Lhs) = Lhs.m * POWERS[CommonScale - Lhs.s]
  BY <1>1, <1>2, LhsFacts
<1>5. a' \in Mantissa /\ factor' \in -MAX_I32_SCALE..MAX_SCALE /\ factor' >= 1
  BY <1>3, <1>4, ScaleAssumption
<1>6. a' * POWERS[factor'] = Scaled(Lhs)
  BY <1>3, <1>4
<1>7. apc' \in {"low", "mid", "high"} /\ (apc' = "low" => a' < Base) /\ (apc' = "mid" => a' < B2)
  BY <1>1
<1>8. QED
  BY <1>1, <1>2, <1>3, <1>5, <1>6, <1>7, ContinueInv

\* What the invariant says of a pass of the scaling loops.
LEMMA ScalingFacts ==
    ASSUME AddInv, apc \in {"low", "mid", "high", "buffer"}
    PROVE  /\ x \in Decimal /\ y \in Decimal /\ op \in {"add", "sub"}
           /\ x.m # 0 /\ y.m # 0 /\ x.s # y.s /\ b = Rhs.m /\ b \in Mantissa
           /\ a \in Mantissa /\ a \in Nat /\ a < B3
           /\ buf \in 0..(Weight[6] - 1) /\ buf \in Nat /\ uw \in 0..5
           /\ factor \in -MAX_I32_SCALE..MAX_SCALE /\ factor \in Int
           /\ MAX_SCALE \in Nat /\ MAX_I32_SCALE \in Nat \ {0}
           /\ RescaleIdle
           /\ Scaled(Lhs) \in Nat /\ Scaled(Lhs) + b < Weight[6] /\ LhsNegative \in BOOLEAN
           /\ SumIs(Scaled(Lhs), b, LhsNegative)
           /\ apc # "buffer" => factor \in 1..MAX_SCALE /\ a * POWERS[factor] = Scaled(Lhs)
           /\ apc = "buffer" => /\ factor > 0 => factor \in 1..MAX_SCALE /\ buf * POWERS[factor] = Scaled(Lhs)
                                /\ factor <= 0 => buf = Scaled(Lhs)
                                /\ B3 <= buf /\ Weight[uw] <= buf /\ buf < Weight[uw + 1]
<1>1. /\ x \in Decimal /\ y \in Decimal /\ op \in {"add", "sub"}
      /\ x.m # 0 /\ y.m # 0 /\ x.s # y.s /\ b = Rhs.m /\ b \in Mantissa
      /\ a \in Mantissa /\ buf \in 0..(Weight[6] - 1) /\ uw \in 0..5
      /\ factor \in -MAX_I32_SCALE..MAX_SCALE /\ RescaleIdle
      /\ apc # "buffer" => factor >= 1
      /\ apc = "buffer" => B3 <= buf
  BY DEF AddInv, AddTypeOK, Overflow
<1>2. MAX_SCALE \in Nat /\ MAX_I32_SCALE \in Nat \ {0} /\ B3 \in Nat /\ Weight[6] \in Nat /\ Max96 = B3 - 1
  BY ScaleAssumption, BaseType, WeightType
<1>3. factor \in Int /\ a \in Nat /\ a < B3 /\ buf \in Nat
  BY <1>1, <1>2 DEF Mantissa
<1>4. /\ Scaled(Lhs) \in Nat /\ Scaled(Lhs) + b < Weight[6] /\ LhsNegative \in BOOLEAN
      /\ SumIs(Scaled(Lhs), b, LhsNegative)
  BY <1>1, LhsFacts
<1>5. /\ apc \in {"low", "mid", "high"} => a * Due = Scaled(Lhs)
      /\ apc = "buffer" => buf * Due = Scaled(Lhs) /\ Weight[uw] <= buf /\ buf < Weight[uw + 1]
  BY ScalingParts DEF AddInv
<1>6. factor > 0 => Due = POWERS[factor] /\ factor \in 1..MAX_SCALE
  BY <1>1, <1>2 DEF Due
<1>7. factor <= 0 => Due = 1 /\ buf * 1 = buf
  BY <1>3 DEF Due
<1>8. QED
  BY <1>1, <1>2, <1>3, <1>4, <1>5, <1>6, <1>7

\* A number of so many words times one word needs a word more.
LEMMA WordTimes ==
    ASSUME NEW v \in Nat, NEW c \in Nat, NEW p \in Nat, v < c, p < Base
    PROVE  v * p \in Nat /\ v * p < c * Base /\ c * Base \in Nat
<1>1. Base \in Nat /\ Base >= 2 /\ p <= Base /\ v <= c - 1 /\ c - 1 \in Int
  BY BaseType
<1>2. p * v <= Base * v /\ v * Base <= (c - 1) * Base
  BY <1>1, MulMono
<1>3. p * v = v * p /\ Base * v = v * Base /\ (c - 1) * Base = c * Base - 1 * Base /\ c * Base \in Int
      /\ v * Base \in Int /\ v * p \in Int
  BY <1>1, MulAssoc, Distribute
<1>4. \A u, w \in Nat : u * w \in Nat
  OBVIOUS
<1>5. 1 * Base = Base /\ v * p \in Nat /\ c * Base \in Nat
  BY <1>1, <1>4
<1>6. QED
  BY <1>1, <1>2, <1>3, <1>5

\* The widths of the loops, and the last pass of each: when nothing is due, what
\* is in hand is the operand, and aligned_add takes it.
LEMMA LastPassInv ==
    ASSUME AddInv, apc \in {"low", "mid", "high"}, NEW v \in Mantissa, v = Scaled(Lhs),
           AlignedAdd(v, b, LhsNegative, CommonScale),
           a' \in Mantissa, factor' \in -MAX_I32_SCALE..MAX_SCALE,
           UNCHANGED <<call, b, buf, uw, index, wide, rvars>>
    PROVE  AddInv'
<1>1. /\ x \in Decimal /\ y \in Decimal /\ op \in {"add", "sub"} /\ x.m # 0 /\ y.m # 0
      /\ b \in Mantissa /\ LhsNegative \in BOOLEAN /\ SumIs(v, b, LhsNegative)
  BY ScalingFacts
<1>2. RightReturn \/ RightOverflow
  BY <1>1, AlignedAddRight
<1>3. QED
  BY <1>1, <1>2, FinishInv

LEMMA ScaleLowInv == AddInv /\ ScaleLow => AddInv'
<1> SUFFICES ASSUME AddInv, ScaleLow PROVE AddInv'
  OBVIOUS
<1>1. apc = "low" /\ UNCHANGED <<call, b, buf, uw, index, wide, rvars>>
  BY DEF ScaleLow
<1> DEFINE v == a * Power(factor)
<1>2. /\ a \in Nat /\ a < Base /\ a \in Mantissa /\ factor \in 1..MAX_SCALE
      /\ a * POWERS[factor] = Scaled(Lhs) /\ x.m # 0 /\ y.m # 0 /\ x.s # y.s /\ b = Rhs.m
      /\ buf \in 0..(Weight[6] - 1) /\ uw \in 0..5 /\ RescaleIdle
      /\ factor \in -MAX_I32_SCALE..MAX_SCALE /\ MAX_I32_SCALE \in Nat \ {0} /\ MAX_SCALE \in Nat
  BY <1>1, ScalingFacts DEF AddInv
<1>3. /\ Power(factor) \in Nat /\ Power(factor) < Base
      /\ v * DueAfter(factor) = a * POWERS[factor]
      /\ factor <= MAX_I32_SCALE => Power(factor) = POWERS[factor]
      /\ factor > MAX_I32_SCALE => Power(factor) = POWERS[MAX_I32_SCALE]
  BY <1>2, PassFacts
<1>4. v \in Nat /\ v < B2 /\ v \in Mantissa
  <2>1. Base \in Nat /\ B2 \in Nat /\ B2 < B3 /\ B3 \in Nat /\ Max96 = B3 - 1 /\ B2 = Base * Base
    BY BaseType DEF B2
  <2>2. v \in Nat /\ v < B2
    BY <1>2, <1>3, <2>1, WordTimes
  <2> HIDE DEF v
  <2>3. QED
    BY <2>1, <2>2 DEF Mantissa
<1>5. CASE factor <= MAX_I32_SCALE
  <2>1. v = a * POWERS[factor]
    BY <1>3, <1>5
  <2>2. AlignedAdd(v, b, LhsNegative, CommonScale) /\ UNCHANGED <<a, factor>>
    BY <1>5, <2>1 DEF ScaleLow
  <2>3. v = Scaled(Lhs)
    BY <1>2, <2>1
  <2> HIDE DEF v
  <2>4. QED
    BY <1>1, <1>2, <1>4, <2>2, <2>3, LastPassInv
<1>6. CASE ~(factor <= MAX_I32_SCALE)
  <2>1. factor > MAX_I32_SCALE /\ factor \in Nat
    BY <1>2, <1>6
  <2>2. /\ a' = v /\ factor' = factor - MAX_I32_SCALE
        /\ apc' = IF a' < Base THEN "low" ELSE "mid"
        /\ result' = result
    BY <1>3, <1>6, <2>1 DEF ScaleLow
  <2>3. factor' \in -MAX_I32_SCALE..MAX_SCALE /\ factor' >= 1
    BY <1>2, <2>1, <2>2
  <2>4. DueAfter(factor) = POWERS[factor']
    BY <1>2, <2>1, <2>2 DEF DueAfter
  <2> HIDE DEF v
  <2>5. a' * POWERS[factor'] = Scaled(Lhs) /\ a' \in Mantissa /\ a' < B2
    BY <1>2, <1>3, <1>4, <2>2, <2>4
  <2>6. /\ apc' \in {"low", "mid", "high"} /\ (apc' = "low" => a' < Base) /\ (apc' = "mid" => a' < B2)
    BY <2>2, <2>5
  <2>7. QED
    BY <1>1, <1>2, <2>2, <2>3, <2>5, <2>6, ContinueInv
<1>7. QED
  BY <1>5, <1>6

LEMMA ScaleMidInv == AddInv /\ ScaleMid => AddInv'
<1> SUFFICES ASSUME AddInv, ScaleMid PROVE AddInv'
  OBVIOUS
<1> DEFINE v == a * Power(factor)
<1>1. /\ apc = "mid" /\ UNCHANGED <<call, b, buf, uw, index, wide, rvars>>
      /\ a' = v /\ factor' = factor - MAX_I32_SCALE
      /\ IF factor - MAX_I32_SCALE <= 0
         THEN AlignedAdd(v, b, LhsNegative, CommonScale)
         ELSE apc' = (IF a' < B2 THEN "mid" ELSE "high") /\ UNCHANGED result
  BY DEF ScaleMid
<1>2. /\ a \in Nat /\ a < B2 /\ a \in Mantissa /\ factor \in 1..MAX_SCALE
      /\ a * POWERS[factor] = Scaled(Lhs) /\ x.m # 0 /\ y.m # 0 /\ x.s # y.s /\ b = Rhs.m
      /\ buf \in 0..(Weight[6] - 1) /\ uw \in 0..5 /\ RescaleIdle
      /\ factor \in -MAX_I32_SCALE..MAX_SCALE /\ MAX_I32_SCALE \in Nat \ {0} /\ MAX_SCALE \in Nat
  BY <1>1, ScalingFacts DEF AddInv
<1>3. /\ Power(factor) \in Nat /\ Power(factor) < Base
      /\ v * DueAfter(factor) = a * POWERS[factor]
      /\ factor <= MAX_I32_SCALE => DueAfter(factor) = 1
  BY <1>2, PassFacts
<1>4. v \in Nat /\ v \in Mantissa
  <2>1. Base \in Nat /\ B2 \in Nat /\ B3 \in Nat /\ Max96 = B3 - 1 /\ B3 = B2 * Base
    BY BaseType DEF B2, B3
  <2>2. v \in Nat /\ v < B3
    BY <1>2, <1>3, <2>1, WordTimes
  <2> HIDE DEF v
  <2>3. QED
    BY <2>1, <2>2 DEF Mantissa
<1>5. factor' \in -MAX_I32_SCALE..MAX_SCALE /\ a' \in Mantissa
  <2> HIDE DEF v
  <2>1. QED
    BY <1>1, <1>2, <1>4
<1>6. CASE factor <= MAX_I32_SCALE
  <2> HIDE DEF v
  <2>1. AlignedAdd(v, b, LhsNegative, CommonScale)
    BY <1>1, <1>2, <1>6
  <2>2. v = Scaled(Lhs)
    BY <1>2, <1>3, <1>4, <1>6
  <2>3. QED
    BY <1>1, <1>4, <1>5, <2>1, <2>2, LastPassInv
<1>7. CASE ~(factor <= MAX_I32_SCALE)
  <2>1. factor - MAX_I32_SCALE > 0 /\ factor' >= 1
    BY <1>1, <1>2, <1>7
  <2>2. DueAfter(factor) = POWERS[factor']
    BY <1>1, <2>1 DEF DueAfter
  <2> HIDE DEF v
  <2>3. apc' = (IF a' < B2 THEN "mid" ELSE "high") /\ result' = result
    BY <1>1, <1>2, <2>1
  <2>4. a' * POWERS[factor'] = Scaled(Lhs)
    BY <1>1, <1>2, <1>3, <2>2
  <2>5. apc' \in {"mid", "high"} /\ (apc' = "mid" => a' < B2)
    BY <2>3
  <2>6. QED
    BY <1>1, <1>2, <1>5, <2>1, <2>3, <2>4, <2>5, ContinueInv
<1>8. QED
  BY <1>6, <1>7

LEMMA ScaleHighInv == AddInv /\ ScaleHigh => AddInv'
<1> SUFFICES ASSUME AddInv, ScaleHigh PROVE AddInv'
  OBVIOUS
<1> DEFINE v == a * Power(factor)
<1>1. /\ apc = "high" /\ UNCHANGED <<call, b, index, wide, rvars>>
      /\ factor' = factor - MAX_I32_SCALE
      /\ IF v >= B3
         THEN /\ buf' = v /\ uw' = UpperWord(v) /\ apc' = "buffer"
              /\ UNCHANGED <<a, result>>
         ELSE /\ a' = v
              /\ IF factor - MAX_I32_SCALE <= 0
                 THEN AlignedAdd(v, b, LhsNegative, CommonScale)
                 ELSE apc' = "high" /\ UNCHANGED result
              /\ UNCHANGED <<buf, uw>>
  BY DEF ScaleHigh
<1>2. /\ a \in Nat /\ a \in Mantissa /\ factor \in 1..MAX_SCALE
      /\ a * POWERS[factor] = Scaled(Lhs) /\ x.m # 0 /\ y.m # 0 /\ x.s # y.s /\ b = Rhs.m
      /\ buf \in 0..(Weight[6] - 1) /\ uw \in 0..5 /\ RescaleIdle
      /\ factor \in -MAX_I32_SCALE..MAX_SCALE /\ MAX_I32_SCALE \in Nat \ {0} /\ MAX_SCALE \in Nat
      /\ Scaled(Lhs) \in Nat /\ Scaled(Lhs) + b < Weight[6] /\ b \in Mantissa
  BY <1>1, ScalingFacts DEF AddInv
<1>3. /\ v \in Nat /\ v <= v * DueAfter(factor)
      /\ v * DueAfter(factor) = a * POWERS[factor]
      /\ factor <= MAX_I32_SCALE => DueAfter(factor) = 1
  BY <1>2, PassFacts
<1>4. factor' \in -MAX_I32_SCALE..MAX_SCALE /\ factor' >= 1 - MAX_I32_SCALE
  BY <1>1, <1>2
<1>5. B3 \in Nat /\ Max96 = B3 - 1 /\ Weight[6] \in Nat
  BY BaseType, WeightType
<1>6. DueAfter(factor) = IF factor' > 0 THEN POWERS[factor'] ELSE 1
  BY <1>1 DEF DueAfter
<1> HIDE DEF v
<1>7. v \in Nat /\ v < Weight[6]
  BY <1>2, <1>3, <1>5 DEF Mantissa
<1>8. CASE v >= B3
  <2>1. buf' = v /\ uw' = UpperWord(v) /\ apc' = "buffer" /\ UNCHANGED <<a, result>>
    BY <1>1, <1>8
  <2>2. /\ uw' \in 0..5 /\ (uw' > 0 => Weight[uw'] <= v) /\ v < Weight[uw' + 1]
    BY <1>7, <2>1, UpperWordType
  <2>3. Weight[uw'] <= v
    <3>1. Weight[0] = 1 /\ 1 <= v
      BY <1>5, <1>7, <1>8, BaseType, WeightType
    <3>2. uw' = 0 \/ uw' > 0
      BY <2>2
    <3>3. QED
      BY <2>2, <3>1, <3>2
  <2>4. buf' \in 0..(Weight[6] - 1)
    BY <1>5, <1>7, <2>1
  <2>5. buf' * (IF factor' > 0 THEN POWERS[factor'] ELSE 1) = Scaled(Lhs)
    BY <1>2, <1>3, <1>6, <2>1
  <2>6. QED
    BY <1>1, <1>2, <1>4, <1>8, <2>1, <2>2, <2>3, <2>4, <2>5, ContinueInv
<1>9. CASE v < B3 /\ factor <= MAX_I32_SCALE
  <2>1. a' = v /\ AlignedAdd(v, b, LhsNegative, CommonScale) /\ UNCHANGED <<buf, uw>>
    BY <1>1, <1>2, <1>5, <1>7, <1>9
  <2>2. v = Scaled(Lhs) /\ v \in Mantissa
    BY <1>2, <1>3, <1>5, <1>7, <1>9 DEF Mantissa
  <2>3. QED
    BY <1>1, <1>4, <2>1, <2>2, LastPassInv
<1>10. CASE v < B3 /\ factor > MAX_I32_SCALE
  <2>1. a' = v /\ apc' = "high" /\ UNCHANGED <<result, buf, uw>>
    BY <1>1, <1>2, <1>5, <1>7, <1>10
  <2>2. factor' >= 1 /\ v \in Mantissa
    BY <1>1, <1>2, <1>5, <1>7, <1>10 DEF Mantissa
  <2>3. a' * POWERS[factor'] = Scaled(Lhs)
    BY <1>2, <1>3, <1>4, <1>6, <2>1, <2>2
  <2>4. QED
    BY <1>1, <1>2, <1>4, <2>1, <2>2, <2>3, ContinueInv
<1>11. QED
  BY <1>2, <1>5, <1>7, <1>8, <1>9, <1>10

LEMMA ScaleBufferInv == AddInv /\ ScaleBuffer => AddInv'
<1> SUFFICES ASSUME AddInv, ScaleBuffer PROVE AddInv'
  OBVIOUS
<1> DEFINE v == buf * Power(factor)
<1>1. /\ apc = "buffer" /\ factor > 0 /\ UNCHANGED <<call, a, b, index, wide, result, apc, rvars>>
      /\ factor' = factor - MAX_I32_SCALE
      /\ buf' = v /\ uw' = IF v >= Weight[uw + 1] THEN uw + 1 ELSE uw
  BY DEF ScaleBuffer
<1>2. /\ a \in Mantissa /\ factor \in 1..MAX_SCALE /\ buf \in Nat /\ B3 <= buf
      /\ buf * POWERS[factor] = Scaled(Lhs) /\ x.m # 0 /\ y.m # 0 /\ x.s # y.s /\ b = Rhs.m
      /\ uw \in 0..5 /\ RescaleIdle /\ Weight[uw] <= buf /\ buf < Weight[uw + 1]
      /\ MAX_I32_SCALE \in Nat \ {0} /\ MAX_SCALE \in Nat
      /\ Scaled(Lhs) \in Nat /\ Scaled(Lhs) + b < Weight[6] /\ b \in Mantissa
  BY <1>1, ScalingFacts
<1>3. /\ v \in Nat /\ buf <= v /\ v <= v * DueAfter(factor)
      /\ v * DueAfter(factor) = buf * POWERS[factor]
      /\ Power(factor) \in Nat /\ Power(factor) < Base
  BY <1>2, PassFacts
<1>4. factor' \in -MAX_I32_SCALE..MAX_SCALE /\ factor' >= 1 - MAX_I32_SCALE
  BY <1>1, <1>2
<1>5. B3 \in Nat /\ Max96 = B3 - 1 /\ Weight[6] \in Nat /\ Base \in Nat /\ uw + 1 \in 0..6
      /\ Weight[uw] \in Nat /\ Weight[uw + 1] \in Nat
  BY <1>2, BaseType, WeightType
<1>6. DueAfter(factor) = IF factor' > 0 THEN POWERS[factor'] ELSE 1
  BY <1>1 DEF DueAfter
<1>7. v < Weight[uw + 1] * Base
  BY <1>2, <1>3, <1>5, WordTimes
<1> HIDE DEF v
<1>8. v < Weight[6]
  BY <1>2, <1>3, <1>5 DEF Mantissa
<1>9. uw' \in 0..5 /\ Weight[uw'] <= v /\ v < Weight[uw' + 1]
  <2>1. CASE v >= Weight[uw + 1]
    <3>1. uw + 1 # 6
      BY <1>3, <1>5, <1>8, <2>1
    <3>2. uw + 1 \in 0..5 /\ uw' = uw + 1
      BY <1>1, <1>2, <2>1, <3>1
    <3>3. Weight[(uw + 1) + 1] = Base * Weight[uw + 1]
      BY <3>2, WeightType
    <3>4. Base * Weight[uw + 1] = Weight[uw + 1] * Base
      BY <1>5, MulAssoc
    <3>5. QED
      BY <1>7, <2>1, <3>2, <3>3, <3>4
  <2>2. CASE v < Weight[uw + 1]
    BY <1>1, <1>2, <1>3, <1>5, <2>2
  <2>3. QED
    BY <1>3, <1>5, <2>1, <2>2
<1>10. buf' \in 0..(Weight[6] - 1) /\ B3 <= buf'
  BY <1>1, <1>2, <1>3, <1>5, <1>8
<1>11. buf' * (IF factor' > 0 THEN POWERS[factor'] ELSE 1) = Scaled(Lhs)
  BY <1>1, <1>2, <1>3, <1>6
<1>12. QED
  BY <1>1, <1>2, <1>4, <1>9, <1>10, <1>11, ContinueInv

-----------------------------------------------------------------------------
(***************************************************************************)
(* The buffer: adding to it, subtracting from it, and the loops that carry *)
(* and borrow into the words above the third.                              *)
(***************************************************************************)
\* A higher word is worth a whole number of lower ones.
LEMMA WeightMultiple ==
    ASSUME NEW i \in 3..6, NEW j \in i..6
    PROVE  \E k \in Nat \ {0} : Weight[j] = k * Weight[i]
<1>1. /\ Base \in Nat \ {0} /\ B2 \in Nat \ {0} /\ B3 \in Nat \ {0}
      /\ \A n \in 0..6 : Weight[n] \in Nat \ {0}
      /\ Weight[4] = Base * Weight[3] /\ Weight[5] = Base * Weight[4] /\ Weight[6] = Base * Weight[5]
  BY BaseType, WeightType
<1>2. \A u, v \in Nat \ {0} : u * v \in Nat \ {0} /\ 1 * u = u
  OBVIOUS
<1>3. \A v \in Nat : Base * (Base * v) = (Base * Base) * v
  BY <1>1, MulAssoc
<1>4. \A v \in Nat : Base * ((Base * Base) * v) = (Base * (Base * Base)) * v
  BY <1>1, MulAssoc
<1> DEFINE s == Base * Base
<1> DEFINE c == Base * s
<1>5. /\ s \in Nat \ {0} /\ c \in Nat \ {0} /\ 1 \in Nat \ {0}
      /\ Weight[5] = s * Weight[3] /\ Weight[6] = s * Weight[4] /\ Weight[6] = c * Weight[3]
  BY <1>1, <1>2, <1>3, <1>4
<1>6. /\ Weight[3] = 1 * Weight[3] /\ Weight[4] = 1 * Weight[4]
      /\ Weight[5] = 1 * Weight[5] /\ Weight[6] = 1 * Weight[6]
  BY <1>1
<1> HIDE DEF s, c
<1>7. i = 3 => j \in {3, 4, 5, 6}
  OBVIOUS
<1>8. i = 4 => j \in {4, 5, 6}
  OBVIOUS
<1>9. i = 5 => j \in {5, 6}
  OBVIOUS
<1>10. i \in {3, 4, 5, 6} /\ (i = 6 => j = 6)
  OBVIOUS
<1>11. QED
  BY <1>1, <1>5, <1>6, <1>7, <1>8, <1>9, <1>10

\* A larger word outweighs a smaller.
LEMMA WeightMono ==
    ASSUME NEW i \in 0..6, NEW j \in 0..6, Weight[i] < Weight[j]
    PROVE  i < j
<1>1. /\ Base \in Nat /\ Base >= 2
      /\ \A n \in 0..6 : Weight[n] \in Nat \ {0}
      /\ \A n \in 0..5 : Weight[n + 1] = Base * Weight[n]
  BY BaseType, WeightType
<1>2. ASSUME NEW n \in 0..5 PROVE Weight[n] < Weight[n + 1]
  <2>1. Weight[n] \in Nat \ {0} /\ Weight[n + 1] = Base * Weight[n]
    BY <1>1
  <2>2. 2 * Weight[n] <= Base * Weight[n]
    BY <1>1, <2>1, MulMono
  <2> DEFINE w == Weight[n]
  <2>3. w \in Nat /\ w > 0 /\ 2 * w <= Base * w /\ Weight[n + 1] = Base * w
    BY <2>1, <2>2
  <2> DEFINE z == Base * w
  <2> HIDE DEF w, z
  <2>4. w < z
    <3>1. 2 * w <= z /\ w \in Nat /\ w > 0
      BY <2>3 DEF z
    <3>2. z \in Int
      BY <1>1, <2>3 DEF z
    <3>3. QED
      BY <3>1, <3>2
  <2>5. QED
    BY <2>3, <2>4 DEF w, z
<1>3. /\ Weight[0] < Weight[1] /\ Weight[1] < Weight[2] /\ Weight[2] < Weight[3]
      /\ Weight[3] < Weight[4] /\ Weight[4] < Weight[5] /\ Weight[5] < Weight[6]
  <2>1. Weight[0] < Weight[0 + 1] /\ Weight[1] < Weight[1 + 1] /\ Weight[2] < Weight[2 + 1]
        /\ Weight[3] < Weight[3 + 1] /\ Weight[4] < Weight[4 + 1] /\ Weight[5] < Weight[5 + 1]
    BY <1>2
  <2>2. QED
    BY <2>1
<1>4. /\ Weight[0] \in Nat /\ Weight[1] \in Nat /\ Weight[2] \in Nat /\ Weight[3] \in Nat
      /\ Weight[4] \in Nat /\ Weight[5] \in Nat /\ Weight[6] \in Nat
  BY <1>1
<1>5. i \in {0, 1, 2, 3, 4, 5, 6} /\ j \in {0, 1, 2, 3, 4, 5, 6}
  OBVIOUS
<1>6. QED
  BY <1>3, <1>4, <1>5

\* What is below a multiple stays below it when its remainder is replaced.
LEMMA BelowMultiple ==
    ASSUME NEW q \in Nat, NEW w \in Nat \ {0}, NEW r \in Nat, NEW k \in Nat, q * w + r < k * w
    PROVE  q * w + w <= k * w
<1>1. q * w \in Nat /\ k * w \in Nat
  OBVIOUS
<1>2. q < k
  <2>1. SUFFICES ASSUME k <= q PROVE FALSE
    OBVIOUS
  <2>2. k * w <= q * w
    BY <2>1, MulMono
  <2>3. QED
    BY <1>1, <2>2
<1>3. (q + 1) * w <= k * w
  BY <1>2, MulMono
<1>4. (q + 1) * w = q * w + 1 * w
  BY Distribute
<1>5. QED
  BY <1>1, <1>3, <1>4

\* The three low words of a buffer, and what replacing them gives.
LEMMA Low96 ==
    ASSUME NEW v \in Nat, NEW m \in Mantissa, NEW k \in 3..6, v < Weight[k]
    PROVE  /\ v % B3 \in Mantissa /\ v % B3 <= v
           /\ WithLow96(v, m) = v - (v % B3) + m
           /\ WithLow96(v, m) \in Nat /\ WithLow96(v, m) < Weight[k]
<1> DEFINE q == v \div B3
<1> DEFINE r == v % B3
<1>1. /\ B3 \in Nat \ {0} /\ Max96 = B3 - 1 /\ m \in Nat /\ m < B3 /\ Weight[3] = B3 /\ Weight[k] \in Nat
  BY BaseType, WeightType DEF Mantissa
<1>2. q \in Nat /\ r \in Nat /\ r < B3 /\ v = q * B3 + r
  BY <1>1, DivMod
<1>3. PICK n \in Nat \ {0} : Weight[k] = n * B3
  <2>1. 3 \in 3..6 /\ k \in 3..6
    OBVIOUS
  <2>2. QED
    BY <1>1, <2>1, WeightMultiple
<1>4. WithLow96(v, m) = (v - r) + m
  BY DEF WithLow96
<1> HIDE DEF q, r
<1>5. q * B3 + B3 <= n * B3
  BY <1>1, <1>2, <1>3, BelowMultiple
<1>6. q * B3 \in Nat
  BY <1>1, <1>2
<1>7. r \in Mantissa /\ r <= v
  BY <1>1, <1>2, <1>6 DEF Mantissa
<1>8. QED
  BY <1>1, <1>2, <1>3, <1>4, <1>5, <1>6, <1>7 DEF r

\* Word i of a buffer, and what replacing it gives.
LEMMA PartFacts ==
    ASSUME NEW v \in Nat, NEW i \in 3..5, NEW d \in 0..(Base - 1), NEW k \in (i + 1)..6, v < Weight[k]
    PROVE  /\ Part(v, i) \in 0..(Base - 1)
           /\ Part(v, i) * Weight[i] \in Nat /\ Part(v, i) * Weight[i] <= v
           /\ d * Weight[i] \in Nat
           /\ WithPart(v, i, d) = v + d * Weight[i] - Part(v, i) * Weight[i]
           /\ WithPart(v, i, d) \in Nat /\ WithPart(v, i, d) < Weight[k]
<1> DEFINE w == Weight[i]
<1> DEFINE g == v \div w
<1> DEFINE p == g % Base
<1> DEFINE q == g \div Base
<1> DEFINE r == v % w
<1>1. /\ Base \in Nat \ {0} /\ w \in Nat \ {0} /\ Weight[k] \in Nat /\ Weight[i + 1] = Base * w
      /\ Weight[i + 1] \in Nat \ {0} /\ d \in Nat /\ d < Base
  BY BaseType, WeightType
<1>2. Part(v, i) = p /\ WithPart(v, i, d) = v + (d - p) * w
  BY DEF Part, WithPart
<1>3. g \in Nat /\ r \in Nat /\ r < w /\ v = g * w + r
  <2> HIDE DEF w
  <2>1. QED
    BY <1>1, DivMod
<1>4. p \in Nat /\ p < Base /\ q \in Nat /\ g = q * Base + p
  <2> HIDE DEF g
  <2>1. QED
    BY <1>1, <1>3, DivMod
<1>5. PICK n \in Nat \ {0} : Weight[k] = n * Weight[i + 1]
  <2>1. i + 1 \in 3..6 /\ k \in (i + 1)..6
    OBVIOUS
  <2>2. QED
    BY <2>1, WeightMultiple
<1> DEFINE h == Weight[i + 1]
<1> HIDE DEF p, q, g, r, w, h
<1>6. g * w = q * h + p * w /\ (d - p) * w = d * w - p * w
  <2>1. (q * Base + p) * w = (q * Base) * w + p * w /\ (q * Base) * w = q * (Base * w)
    BY <1>1, <1>4, Distribute, MulAssoc
  <2>2. (d - p) * w = d * w - p * w
    BY <1>1, <1>4, Distribute
  <2>3. h = Base * w
    BY <1>1 DEF h, w
  <2>4. QED
    BY <1>4, <2>1, <2>2, <2>3
<1>7. q * h \in Nat /\ p * w \in Nat /\ d * w \in Nat /\ d * w <= h - w
  <2>1. \A u, z \in Nat : u * z \in Nat
    OBVIOUS
  <2>2. q * h \in Nat /\ p * w \in Nat /\ d * w \in Nat
    BY <1>1, <1>4, <2>1 DEF h, w
  <2>3. (d + 1) * w <= Base * w /\ (d + 1) * w = d * w + 1 * w
    BY <1>1, MulMono, Distribute
  <2>4. h = Base * w /\ h \in Nat
    BY <1>1 DEF h, w
  <2>5. QED
    BY <1>1, <2>2, <2>3, <2>4
<1>8. q * h + h <= n * h
  <2>1. q * h + (p * w + r) < n * h
    BY <1>1, <1>3, <1>4, <1>5, <1>6, <1>7 DEF h
  <2>2. h \in Nat \ {0} /\ p * w + r \in Nat
    BY <1>1, <1>3, <1>7 DEF h
  <2>3. QED
    BY <1>4, <2>1, <2>2, BelowMultiple
<1> DEFINE qh == q * h
<1> DEFINE pw == p * w
<1> DEFINE dw == d * w
<1> DEFINE nh == n * h
<1>9. /\ v = qh + pw + r /\ (d - p) * w = dw - pw
      /\ qh \in Nat /\ pw \in Nat /\ dw \in Nat /\ dw <= h - w /\ h \in Nat /\ w \in Nat
      /\ qh + h <= nh /\ nh = Weight[k] /\ Weight[k] \in Nat /\ r \in Nat /\ r < w
  BY <1>1, <1>3, <1>5, <1>6, <1>7, <1>8 DEF h, w
<1> HIDE DEF qh, pw, dw, nh
<1>10. v + (d - p) * w = v + dw - pw
  BY <1>9
<1>11. v + (d - p) * w \in Nat /\ v + (d - p) * w < Weight[k] /\ pw <= v
  BY <1>9, <1>10
<1>12. p \in 0..(Base - 1)
  BY <1>1, <1>4
<1>13. /\ Part(v, i) \in 0..(Base - 1)
       /\ Part(v, i) * w \in Nat /\ Part(v, i) * w <= v
       /\ d * w \in Nat
       /\ WithPart(v, i, d) = v + d * w - Part(v, i) * w
       /\ WithPart(v, i, d) \in Nat /\ WithPart(v, i, d) < Weight[k]
  BY <1>2, <1>9, <1>10, <1>11, <1>12 DEF pw, dw
<1>14. QED
  BY <1>13 DEF w

\* A step that leaves the exact sum in the buffer for the rescale keeps the
\* invariant; so does one whose borrow was miscounted, whatever it leaves.
LEMMA EnterRescaleInv ==
    ASSUME AddInv, RescaleIdle, x.m # 0, y.m # 0, x.s # y.s, b = Rhs.m,
           apc' = "rescale", UNCHANGED <<call, a, b, factor, result, rvars>>,
           buf' \in 0..(Weight[6] - 1), uw' \in 3..5, index' \in 3..5,
           wide' = Scaled(Lhs), B3 <= wide',
           ~BorrowMiscounts' => /\ buf' % Weight[uw' + 1] = Magnitude
                                /\ Magnitude >= Weight[uw'] - B3
    PROVE  AddInv'
<1>1. (RescaleInv /\ KeepInv)' /\ RescaleIdle'
  BY RescaleSame DEF AddInv
<1>2. x' = x /\ y' = y /\ op' = op /\ Rhs' = Rhs /\ Scaled(Lhs)' = Scaled(Lhs) /\ Magnitude' = Magnitude
  BY CallSame
<1>3. AddTypeOK'
  BY <1>2 DEF AddInv, AddTypeOK, Overflow
<1>4. ScalingExact' /\ SumRounded'
  BY DEF ScalingExact, SumRounded, Overflow
<1>5. ~BorrowMiscounts' => AddCall'.v = Magnitude /\ TopInUse(AddCall)'
  BY DEF AddCall, TopInUse
<1>6. QED
  BY <1>1, <1>2, <1>3, <1>4, <1>5 DEF AddInv, Overflow

\* A step of the loops that carry and borrow keeps it.
LEMMA LoopInv ==
    ASSUME AddInv, RescaleIdle, x.m # 0, y.m # 0, x.s # y.s, b = Rhs.m,
           apc' \in {"carry", "borrow"}, UNCHANGED <<call, a, b, factor, result, rvars>>,
           buf' \in 0..(Weight[6] - 1), uw' \in 3..5, index' \in 3..5,
           wide' = Scaled(Lhs), B3 <= wide',
           apc' = "carry" => Carrying', apc' = "borrow" => Borrowing'
    PROVE  AddInv'
<1>1. (RescaleInv /\ KeepInv)' /\ RescaleIdle'
  BY RescaleSame DEF AddInv
<1>2. x' = x /\ y' = y /\ op' = op /\ Rhs' = Rhs /\ Scaled(Lhs)' = Scaled(Lhs)
  BY CallSame
<1>3. AddTypeOK'
  BY <1>2 DEF AddInv, AddTypeOK, Overflow
<1>4. ScalingExact' /\ SumRounded'
  BY DEF ScalingExact, SumRounded, Overflow
<1>5. QED
  BY <1>1, <1>2, <1>3, <1>4 DEF AddInv, Overflow

\* The buffer once nothing is due.
LEMMA BufferFacts ==
    ASSUME AddInv, apc = "buffer", factor <= 0
    PROVE  /\ buf = Scaled(Lhs) /\ buf \in Nat /\ B3 <= buf /\ b \in Mantissa /\ b \in Nat /\ b < B3
           /\ uw \in 3..5 /\ uw + 1 \in 3..6 /\ Weight[uw] <= buf /\ buf < Weight[uw + 1]
           /\ Weight[uw] \in Nat /\ Weight[uw + 1] \in Nat /\ Weight[6] \in Nat /\ buf < Weight[6]
           /\ B3 \in Nat \ {0} /\ Weight[3] = B3
           /\ Scaled(Lhs) + b < Weight[6]
           /\ Minus => Magnitude = buf - b
           /\ ~Minus => Magnitude = buf + b
           /\ x.m # 0 /\ y.m # 0 /\ x.s # y.s /\ b = Rhs.m /\ RescaleIdle
<1>1. /\ x.m # 0 /\ y.m # 0 /\ x.s # y.s /\ b = Rhs.m /\ RescaleIdle
      /\ buf \in Nat /\ b \in Mantissa /\ uw \in 0..5 /\ Scaled(Lhs) \in Nat
      /\ Scaled(Lhs) + b < Weight[6] /\ SumIs(Scaled(Lhs), b, LhsNegative)
      /\ buf = Scaled(Lhs) /\ B3 <= buf /\ Weight[uw] <= buf /\ buf < Weight[uw + 1]
      /\ buf \in 0..(Weight[6] - 1)
  BY ScalingFacts
<1>2. b \in Nat /\ b < B3 /\ B3 \in Nat \ {0}
  BY <1>1, BaseType DEF Mantissa
<1>3. uw + 1 \in 0..6 /\ uw \in 0..6 /\ 3 \in 0..6 /\ 6 \in 0..6
  BY <1>1
<1>4. Weight[3] = B3 /\ Weight[uw + 1] \in Nat /\ Weight[uw] \in Nat /\ Weight[6] \in Nat
  BY <1>3, WeightType
<1>5. 3 < uw + 1
  BY <1>1, <1>2, <1>3, <1>4, WeightMono
<1>6. /\ Minus => Magnitude = buf - b
      /\ ~Minus => Magnitude = buf + b
  BY <1>1, <1>2 DEF SumIs
<1>7. uw \in 3..5 /\ uw + 1 \in 3..6 /\ buf < Weight[6]
  BY <1>1, <1>4, <1>5
<1>8. QED
  BY <1>1, <1>2, <1>4, <1>6, <1>7

\* A number below a word's weight is its own remainder.
LEMMA SmallMod ==
    ASSUME NEW v \in Nat, NEW w \in Nat \ {0}, v < w
    PROVE  v % w = v /\ v \div w = 0
<1>1. v = 0 * w + v /\ 0 \in Nat
  OBVIOUS
<1>2. QED
  BY <1>1, QuotientUnique

LEMMA AddBufferInv == AddInv /\ AddBuffer => AddInv'
<1> SUFFICES ASSUME AddInv, AddBuffer PROVE AddInv'
  OBVIOUS
<1> DEFINE low == buf % B3
<1> DEFINE t == WrappingAdd96(low, b)
<1>1. /\ apc = "buffer" /\ factor <= 0 /\ ~Minus /\ index' = 3 /\ wide' = buf
      /\ buf' = WithLow96(buf, t.v) /\ apc' = IF t.carry THEN "carry" ELSE "rescale"
      /\ UNCHANGED <<call, a, b, factor, uw, result, rvars>>
  BY DEF AddBuffer
<1>2. /\ buf = Scaled(Lhs) /\ buf \in Nat /\ B3 <= buf /\ b \in Mantissa /\ b \in Nat /\ b < B3
      /\ uw \in 3..5 /\ uw + 1 \in 3..6 /\ Weight[uw] <= buf /\ buf < Weight[uw + 1]
      /\ Weight[uw] \in Nat /\ Weight[uw + 1] \in Nat /\ Weight[6] \in Nat /\ buf < Weight[6]
      /\ B3 \in Nat \ {0} /\ Weight[3] = B3
      /\ Scaled(Lhs) + b < Weight[6] /\ Magnitude = buf + b
      /\ x.m # 0 /\ y.m # 0 /\ x.s # y.s /\ b = Rhs.m /\ RescaleIdle
  BY <1>1, BufferFacts
<1>3. low \in Mantissa /\ low <= buf
  BY <1>2, Low96
<1>4. low \in Nat /\ low < B3
  BY <1>2, <1>3, BaseType DEF Mantissa
<1>5. (t.carry <=> low + b >= B3) /\ t.v = IF low + b >= B3 THEN low + b - B3 ELSE low + b
  BY <1>2, <1>3, WrappingAddExact
<1> HIDE DEF low
<1> HIDE DEF t
<1>6. t.v \in Mantissa
  BY <1>2, <1>4, <1>5, BaseType DEF Mantissa
<1>7. /\ buf' = buf - low + t.v
      /\ buf' \in Nat /\ buf' < Weight[uw + 1]
  BY <1>1, <1>2, <1>6, Low96 DEF low
<1>8. buf' < Weight[6]
  <2>1. 6 \in 3..6
    OBVIOUS
  <2>2. QED
    BY <1>1, <1>2, <1>6, <2>1, Low96
<1>9. buf' \in 0..(Weight[6] - 1) /\ index' \in 3..5 /\ uw' = uw
  BY <1>1, <1>2, <1>7, <1>8
<1>10. Minus' = Minus /\ Magnitude' = Magnitude
  BY <1>1, CallSame
<1>11. CASE t.carry
  <2>1. low + b >= B3 /\ t.v = low + b - B3 /\ apc' = "carry"
    BY <1>1, <1>5, <1>11
  <2>2. buf' = buf + b - B3
    BY <1>2, <1>4, <1>7, <2>1
  <2>3. index' = 3 /\ wide' = buf /\ b' = b /\ uw' = uw
    BY <1>1
  <2>4. Carrying'
    <3>1. buf' + Weight[index'] = wide' + b'
      BY <1>2, <2>2, <2>3
    <3>2. index' <= uw' + 1 /\ buf' < Weight[uw' + 1] /\ Weight[uw'] <= wide'
      BY <1>2, <1>7, <2>3
    <3>3. QED
      BY <1>1, <1>10, <3>1, <3>2 DEF Carrying
  <2>5. QED
    BY <1>1, <1>2, <1>9, <2>1, <2>4, LoopInv
<1>12. CASE ~t.carry
  <2>1. ~(low + b >= B3) /\ apc' = "rescale"
    BY <1>1, <1>5, <1>12
  <2>2. t.v = low + b
    BY <1>5, <2>1
  <2>3. buf' = buf + b
    BY <1>2, <1>4, <1>7, <2>2
  <2>4. buf' % Weight[uw' + 1] = Magnitude
    BY <1>1, <1>2, <1>7, <1>9, <2>3, SmallMod
  <2>5. Magnitude >= Weight[uw'] - B3
    BY <1>2, <1>9
  <2>6. QED
    BY <1>1, <1>2, <1>9, <2>1, <2>4, <2>5, EnterRescaleInv
<1>13. QED
  BY <1>11, <1>12

LEMMA SubtractBufferInv == AddInv /\ SubtractBuffer => AddInv'
<1> SUFFICES ASSUME AddInv, SubtractBuffer PROVE AddInv'
  OBVIOUS
<1> DEFINE low == buf % B3
<1> DEFINE t == WrappingSub96(low, b)
<1>1. /\ apc = "buffer" /\ factor <= 0 /\ Minus /\ index' = 3 /\ wide' = buf
      /\ buf' = WithLow96(buf, t.v) /\ apc' = IF t.borrow THEN "borrow" ELSE "rescale"
      /\ UNCHANGED <<call, a, b, factor, uw, result, rvars>>
  BY DEF SubtractBuffer
<1>2. /\ buf = Scaled(Lhs) /\ buf \in Nat /\ B3 <= buf /\ b \in Mantissa /\ b \in Nat /\ b < B3
      /\ uw \in 3..5 /\ uw + 1 \in 3..6 /\ Weight[uw] <= buf /\ buf < Weight[uw + 1]
      /\ Weight[uw] \in Nat /\ Weight[uw + 1] \in Nat /\ Weight[6] \in Nat /\ buf < Weight[6]
      /\ B3 \in Nat \ {0} /\ Weight[3] = B3
      /\ Magnitude = buf - b
      /\ x.m # 0 /\ y.m # 0 /\ x.s # y.s /\ b = Rhs.m /\ RescaleIdle
  BY <1>1, BufferFacts
<1>3. low \in Mantissa /\ low <= buf
  BY <1>2, Low96
<1>4. low \in Nat /\ low < B3
  BY <1>2, <1>3, BaseType DEF Mantissa
<1>5. (t.borrow <=> low < b) /\ t.v = IF low < b THEN low - b + B3 ELSE low - b
  BY <1>2, <1>3, WrappingSubExact
<1> HIDE DEF t
<1>6. wide' % B3 = low
  BY <1>1
<1> HIDE DEF low
<1>7. t.v \in Mantissa
  BY <1>2, <1>4, <1>5, BaseType DEF Mantissa
<1>8. /\ buf' = buf - low + t.v
      /\ buf' \in Nat /\ buf' < Weight[uw + 1]
  BY <1>1, <1>2, <1>7, Low96 DEF low
<1>9. buf' < Weight[6]
  <2>1. 6 \in 3..6
    OBVIOUS
  <2>2. QED
    BY <1>1, <1>2, <1>7, <2>1, Low96
<1>10. buf' \in 0..(Weight[6] - 1) /\ index' \in 3..5 /\ uw' = uw
  BY <1>1, <1>2, <1>8, <1>9
<1>11. Minus' = Minus /\ Magnitude' = Magnitude
  BY <1>1, CallSame
<1>12. CASE t.borrow
  <2>1. low < b /\ apc' = "borrow"
    BY <1>1, <1>5, <1>12
  <2>2. t.v = low - b + B3
    BY <1>5, <2>1
  <2>3. buf' = buf - b + B3
    BY <1>2, <1>4, <1>8, <2>2
  <2>4. index' = 3 /\ wide' = buf /\ b' = b /\ uw' = uw
    BY <1>1
  <2>5. Borrowing'
    <3>1. buf' = wide' - b' + B3 /\ Weight[uw'] <= wide' /\ wide' < Weight[uw' + 1] /\ wide' % B3 < b'
      BY <1>2, <1>6, <2>1, <2>3, <2>4
    <3>2. QED
      BY <1>1, <1>11, <2>4, <3>1 DEF Borrowing
  <2>6. QED
    BY <1>1, <1>2, <1>10, <2>1, <2>5, LoopInv
<1>13. CASE ~t.borrow
  <2>1. ~(low < b) /\ apc' = "rescale"
    BY <1>1, <1>5, <1>13
  <2>2. t.v = low - b
    BY <1>5, <2>1
  <2>3. buf' = buf - b
    BY <1>2, <1>4, <1>8, <2>2
  <2>4. buf' % Weight[uw' + 1] = Magnitude
    BY <1>1, <1>2, <1>8, <1>10, <2>3, SmallMod
  <2>5. Magnitude >= Weight[uw'] - B3
    BY <1>2, <1>10
  <2>6. QED
    BY <1>1, <1>2, <1>10, <2>1, <2>4, <2>5, EnterRescaleInv
<1>14. QED
  BY <1>12, <1>13

\* What the invariant says inside the loops that carry and borrow.
LEMMA LoopFacts ==
    ASSUME AddInv, apc \in {"carry", "borrow"}
    PROVE  /\ buf \in Nat /\ buf < Weight[6] /\ 6 \in 3..6 /\ uw \in 3..5 /\ index \in 3..5
           /\ wide = Scaled(Lhs) /\ wide \in Nat /\ B3 <= wide
           /\ b \in Nat /\ b < B3 /\ wide + b < Weight[6]
           /\ B3 \in Nat \ {0} /\ Weight[3] = B3 /\ Base \in Nat /\ Base >= 2
           /\ \A i \in 0..6 : Weight[i] \in Nat \ {0}
           /\ \A i \in 0..5 : Weight[i + 1] = Base * Weight[i]
           /\ Minus => Magnitude = wide - b
           /\ ~Minus => Magnitude = wide + b
           /\ x.m # 0 /\ y.m # 0 /\ x.s # y.s /\ b = Rhs.m /\ RescaleIdle
<1>1. /\ x \in Decimal /\ y \in Decimal /\ op \in {"add", "sub"}
      /\ x.m # 0 /\ y.m # 0 /\ x.s # y.s /\ b = Rhs.m /\ b \in Mantissa
      /\ buf \in 0..(Weight[6] - 1) /\ uw \in 3..5 /\ index \in 3..5 /\ RescaleIdle
      /\ wide = Scaled(Lhs) /\ B3 <= wide
  BY DEF AddInv, AddTypeOK, Overflow
<1>2. /\ B3 \in Nat \ {0} /\ Weight[3] = B3 /\ Base \in Nat /\ Base >= 2 /\ Max96 = B3 - 1
      /\ \A i \in 0..6 : Weight[i] \in Nat \ {0}
      /\ \A i \in 0..5 : Weight[i + 1] = Base * Weight[i]
      /\ Weight[6] \in Nat
  BY BaseType, WeightType
<1>3. b \in Nat /\ b < B3 /\ buf \in Nat /\ buf < Weight[6] /\ 6 \in 3..6
  BY <1>1, <1>2 DEF Mantissa
<1>4. wide \in Nat /\ wide + b < Weight[6] /\ SumIs(wide, b, LhsNegative)
  BY <1>1, LhsFacts
<1>5. /\ Minus => Magnitude = wide - b
      /\ ~Minus => Magnitude = wide + b
  BY <1>1, <1>2, <1>3, <1>4 DEF SumIs
<1>6. QED
  BY <1>1, <1>2, <1>3, <1>4, <1>5

\* A pass that carries into a word above the last, ends in one that has room, or
\* goes on to the next; a word above the buffer is never reached.
LEMMA CarryInv == AddInv /\ Carry => AddInv'
<1> SUFFICES ASSUME AddInv, Carry PROVE AddInv'
  OBVIOUS
<1> DEFINE p == Part(buf, index)
<1> DEFINE w == (p + 1) % Base
<1> DEFINE h == Weight[index]
<1>1. /\ apc = "carry" /\ UNCHANGED <<call, a, b, factor, wide, result, rvars>>
      /\ IF uw < index
         THEN buf' = WithPart(buf, index, 1) /\ uw' = index /\ apc' = "rescale" /\ UNCHANGED index
         ELSE /\ buf' = WithPart(buf, index, w)
              /\ UNCHANGED uw
              /\ IF w > 0 \/ index = 5
                 THEN apc' = "rescale" /\ UNCHANGED index
                 ELSE index' = index + 1 /\ UNCHANGED apc
  BY DEF Carry
<1>2. /\ buf \in Nat /\ buf < Weight[6] /\ 6 \in 3..6 /\ uw \in 3..5 /\ index \in 3..5
      /\ wide = Scaled(Lhs) /\ wide \in Nat /\ B3 <= wide
      /\ b \in Nat /\ b < B3 /\ wide + b < Weight[6]
      /\ B3 \in Nat \ {0} /\ Base \in Nat /\ Base >= 2
      /\ \A i \in 0..6 : Weight[i] \in Nat \ {0}
      /\ \A i \in 0..5 : Weight[i + 1] = Base * Weight[i]
      /\ x.m # 0 /\ y.m # 0 /\ x.s # y.s /\ b = Rhs.m /\ RescaleIdle
  BY <1>1, LoopFacts
<1>3. /\ ~Minus /\ buf + h = wide + b
      /\ index <= uw + 1 /\ buf < Weight[uw + 1] /\ Weight[uw] <= wide
      /\ Magnitude = wide + b
  BY <1>1, LoopFacts DEF AddInv, Carrying
<1>4. /\ h \in Nat \ {0} /\ Weight[uw + 1] \in Nat /\ Weight[index + 1] \in Nat /\ Weight[uw] \in Nat
      /\ Weight[6] \in Nat /\ Weight[index + 1] = Base * h
      /\ index \in 0..5 /\ index \in 0..6 /\ uw + 1 \in 0..6 /\ index + 1 \in 0..6
  BY <1>2
<1>5. 1 \in 0..(Base - 1) /\ 6 \in (index + 1)..6
  BY <1>2
<1>6. p \in 0..(Base - 1) /\ p * h \in Nat /\ p * h <= buf
  BY <1>2, <1>5, PartFacts
<1>7. w = IF p + 1 < Base THEN p + 1 ELSE p + 1 - Base
  <2> HIDE DEF p
  <2>1. Base \in Nat \ {0} /\ 1 \in 0..(Base - 1) /\ p \in 0..(Base - 1)
    BY <1>2, <1>5, <1>6
  <2>2. QED
    BY <2>1, WrapMod
<1> HIDE DEF w
<1>8. Minus' = Minus /\ Magnitude' = Magnitude
  BY <1>1, CallSame
<1>9. CASE uw < index
  <2>1. index = uw + 1 /\ uw' = index /\ apc' = "rescale" /\ index' = index /\ buf' = WithPart(buf, index, 1)
    BY <1>1, <1>2, <1>3, <1>9
  <2>2. buf < h
    BY <1>3, <2>1
  <2>3. p = 0
    <3>1. buf \div h = 0
      BY <1>2, <1>4, <2>2, SmallMod
    <3>2. 0 % Base = 0
      BY <1>2
    <3>3. QED
      BY <3>1, <3>2 DEF Part
  <2>4. buf' = buf + 1 * h - p * h /\ buf' \in Nat /\ buf' < Weight[6]
    BY <1>2, <1>5, <2>1, PartFacts
  <2> HIDE DEF p
  <2> HIDE DEF h
  <2>5. 1 * h = h /\ 0 * h = 0
    BY <1>4
  <2>6. buf' = buf + h /\ buf' = Magnitude
    BY <1>2, <1>3, <1>4, <2>3, <2>4, <2>5
  <2>7. 2 * h <= Base * h /\ Base * h \in Int
    BY <1>2, <1>4, MulMono
  <2>8. buf' < Base * h
    BY <1>2, <1>4, <2>2, <2>6, <2>7
  <2>9. buf' % Weight[uw' + 1] = Magnitude
    <3>1. Weight[uw' + 1] = Base * h
      BY <1>4, <2>1
    <3>2. Weight[uw' + 1] \in Nat \ {0}
      BY <1>2, <1>4, <2>1
    <3>3. QED
      BY <2>4, <2>6, <2>8, <3>1, <3>2, SmallMod
  <2>10. Magnitude >= Weight[uw'] - B3
    <3>1. Weight[uw'] = h
      BY <2>1 DEF h
    <3>2. QED
      BY <1>2, <1>4, <2>6, <3>1
  <2>11. buf' \in 0..(Weight[6] - 1) /\ uw' \in 3..5 /\ index' \in 3..5
    BY <1>2, <1>4, <2>1, <2>4
  <2>12. QED
    BY <1>1, <1>2, <2>1, <2>9, <2>10, <2>11, EnterRescaleInv
<1>10. CASE ~(uw < index)
  <2>1. w \in 0..(Base - 1) /\ uw + 1 \in (index + 1)..6
    BY <1>2, <1>6, <1>7, <1>10
  <2>2. buf' = WithPart(buf, index, w) /\ uw' = uw
    BY <1>1, <1>10
  <2>3. /\ buf' = buf + w * h - p * h /\ buf' \in Nat /\ w * h \in Nat
        /\ buf' < Weight[6] /\ buf' < Weight[uw + 1]
    BY <1>2, <1>3, <1>5, <2>1, <2>2, PartFacts, ZenonT(60)
  <2> HIDE DEF p
  <2> HIDE DEF h
  <2>4. buf' \in 0..(Weight[6] - 1) /\ uw' \in 3..5
    BY <1>2, <1>4, <2>2, <2>3
  <2>5. CASE p + 1 < Base
    <3>1. w = p + 1 /\ w > 0 /\ p \in Int
      BY <1>6, <1>7, <2>5
    <3>2. w * h = p * h + 1 * h /\ 1 * h = h
      BY <1>4, <3>1, Distribute
    <3>3. buf' = wide + b
      BY <1>2, <1>3, <1>4, <1>6, <2>3, <3>2
    <3>4. apc' = "rescale" /\ index' = index
      BY <1>1, <1>10, <3>1
    <3>5. buf' % Weight[uw' + 1] = Magnitude
      BY <1>2, <1>3, <1>4, <2>2, <2>3, <3>3, SmallMod
    <3>6. Magnitude >= Weight[uw'] - B3
      BY <1>2, <1>3, <1>4, <2>2
    <3>7. QED
      BY <1>1, <1>2, <2>4, <3>4, <3>5, <3>6, EnterRescaleInv
  <2>6. CASE ~(p + 1 < Base)
    <3>1. w = 0 /\ p = Base - 1
      BY <1>2, <1>6, <1>7, <2>6
    <3>2. p * h = Base * h - 1 * h /\ 1 * h = h /\ w * h = 0 /\ Base * h \in Int
      BY <1>2, <1>4, <3>1, Distribute
    <3>3. buf' + Base * h = wide + b
      BY <1>2, <1>3, <1>4, <1>6, <2>3, <3>2, SMTT(30)
    <3>4. index # 5
      <4>1. SUFFICES ASSUME index = 5 PROVE FALSE
        OBVIOUS
      <4>2. Weight[6] = Base * h
        BY <1>4, <4>1
      <4>3. QED
        BY <1>2, <1>4, <2>3, <3>2, <3>3, <4>2
    <3>5. index' = index + 1 /\ apc' = "carry" /\ wide' = wide /\ b' = b
      BY <1>1, <1>10, <3>1, <3>4
    <3>6. Carrying'
      <4>1. Weight[index'] = Base * h
        BY <1>4, <3>5
      <4>2. buf' + Weight[index'] = wide' + b'
        BY <3>3, <3>5, <4>1
      <4>3. index' <= uw' + 1 /\ buf' < Weight[uw' + 1] /\ Weight[uw'] <= wide'
        BY <1>2, <1>3, <1>10, <2>2, <2>3, <3>5
      <4>4. QED
        BY <1>3, <1>8, <4>2, <4>3 DEF Carrying
    <3>7. index' \in 3..5
      BY <1>2, <3>4, <3>5
    <3>8. QED
      BY <1>1, <1>2, <2>4, <3>5, <3>6, <3>7, LoopInv
  <2>7. QED
    BY <2>5, <2>6
<1>11. QED
  BY <1>9, <1>10

\* A pass that borrows.  But for the borrows that are miscounted, the fourth word
\* is 2 or more, or is 1 and the last.
LEMMA BorrowInv == AddInv /\ Borrow => AddInv'
<1> SUFFICES ASSUME AddInv, Borrow PROVE AddInv'
  OBVIOUS
<1> DEFINE p == Part(buf, index)
<1> DEFINE w == (p - 1) % Base
<1> DEFINE h == Weight[index]
<1>1. /\ apc = "borrow" /\ UNCHANGED <<call, a, b, factor, uw, wide, result, rvars>>
      /\ buf' = WithPart(buf, index, w)
      /\ IF w > 0 \/ index = 5
         THEN apc' = "rescale" /\ UNCHANGED index
         ELSE index' = index + 1 /\ UNCHANGED apc
  BY DEF Borrow
<1>2. /\ buf \in Nat /\ buf < Weight[6] /\ 6 \in 3..6 /\ uw \in 3..5 /\ index \in 3..5
      /\ wide = Scaled(Lhs) /\ wide \in Nat /\ B3 <= wide
      /\ b \in Nat /\ b < B3
      /\ B3 \in Nat \ {0} /\ Weight[3] = B3 /\ Base \in Nat /\ Base >= 2
      /\ \A i \in 0..6 : Weight[i] \in Nat \ {0}
      /\ \A i \in 0..5 : Weight[i + 1] = Base * Weight[i]
      /\ x.m # 0 /\ y.m # 0 /\ x.s # y.s /\ b = Rhs.m /\ RescaleIdle
  BY <1>1, LoopFacts
<1>3. Borrowing /\ Minus
  BY <1>1 DEF AddInv, Borrowing
<1>4. Magnitude = wide - b
  BY <1>1, <1>3, LoopFacts
<1>5. /\ h \in Nat \ {0} /\ Weight[6] \in Nat /\ Weight[4] \in Nat /\ Weight[4] = Base * B3
      /\ Weight[uw] \in Nat /\ Weight[uw + 1] \in Nat \ {0} /\ uw \in 0..6 /\ 4 \in 0..6
      /\ uw + 1 \in 0..6
  BY <1>2
<1>6. 1 \in 0..(Base - 1) /\ 6 \in (index + 1)..6
  BY <1>2
<1>7. p \in 0..(Base - 1)
  BY <1>2, <1>6, PartFacts
<1>8. w = IF p < 1 THEN p - 1 + Base ELSE p - 1
  <2> HIDE DEF p
  <2>1. Base \in Nat \ {0} /\ 1 \in 0..(Base - 1) /\ p \in 0..(Base - 1)
    BY <1>2, <1>6, <1>7
  <2>2. QED
    BY <2>1, WrapMod
<1> HIDE DEF w
<1>9. w \in 0..(Base - 1)
  BY <1>2, <1>7, <1>8
<1>10. /\ buf' = buf + w * h - p * h /\ buf' \in Nat /\ w * h \in Nat /\ p * h \in Nat
       /\ buf' < Weight[6]
  <2>1. buf' = WithPart(buf, index, w) /\ buf \in Nat /\ index \in 3..5 /\ buf < Weight[6]
    BY <1>1, <1>2
  <2>2. QED
    BY <1>6, <1>9, <2>1, PartFacts
<1>11. buf' \in 0..(Weight[6] - 1) /\ uw' = uw /\ wide' = wide /\ b' = b /\ index' \in 3..5
       /\ apc' \in {"rescale", "borrow"}
  BY <1>1, <1>2, <1>5, <1>10
<1>12. Minus' = Minus /\ Magnitude' = Magnitude
  BY <1>1, CallSame
<1>13. BorrowMiscounts' <=> BorrowMiscounts
  BY <1>11, <1>12 DEF BorrowMiscounts, Part
<1>14. CASE BorrowMiscounts
  <2>1. CASE apc' = "rescale"
    BY <1>1, <1>2, <1>11, <1>13, <1>14, <2>1, EnterRescaleInv
  <2>2. CASE apc' = "borrow"
    <3>1. Borrowing'
      BY <1>3, <1>11, <1>12, <1>13, <1>14 DEF Borrowing
    <3>2. QED
      BY <1>1, <1>2, <1>11, <2>2, <3>1, LoopInv
  <2>3. QED
    BY <1>11, <2>1, <2>2
<1>15. CASE ~BorrowMiscounts /\ index = 3
  <2> DEFINE k == wide \div B3
  <2> DEFINE low == wide % B3
  <2>1. /\ buf = wide - b + B3 /\ Weight[uw] <= wide /\ wide < Weight[uw + 1] /\ low < b
        /\ h = B3
    BY <1>2, <1>3, <1>15 DEF Borrowing
  <2>2. k \in Nat /\ low \in Nat /\ low < B3 /\ wide = k * B3 + low
    BY <1>2, DivMod
  <2>3. wide < Weight[4] \/ k % Base >= 2
    <3>1. Part(wide, 3) = k % Base
      BY <1>2 DEF Part
    <3>2. k % Base \in Nat
      <4> HIDE DEF k
      <4>1. QED
        BY <1>2, <2>2, DivMod
    <3>3. ~(wide >= Weight[4] /\ k % Base <= 1)
      BY <1>3, <1>15, <2>1, <3>1 DEF BorrowMiscounts
    <3>4. QED
      BY <1>2, <1>5, <3>2, <3>3
  <2> HIDE DEF k, low
  <2>4. p = k % Base
    <3>1. low - b + B3 \in Nat /\ low - b + B3 < B3 /\ buf = k * B3 + (low - b + B3)
      BY <1>2, <2>1, <2>2
    <3> DEFINE r == low - b + B3
    <3> HIDE DEF r
    <3>2. buf \div B3 = k
      BY <1>2, <2>2, <3>1, QuotientUnique DEF r
    <3>3. QED
      BY <2>1, <3>2 DEF Part
  <2> HIDE DEF p
  <2> HIDE DEF h
  <2>5. CASE p >= 2
    <3>1. w = p - 1 /\ w > 0
      BY <1>7, <1>8, <2>5
    <3>2. w * h = p * h - 1 * h /\ 1 * h = h
      BY <1>5, <1>7, <3>1, Distribute
    <3>3. buf' = wide - b
      BY <1>2, <1>5, <1>10, <2>1, <3>2
    <3>4. apc' = "rescale" /\ index' = index
      BY <1>1, <3>1
    <3>5. buf' % Weight[uw' + 1] = Magnitude
      <4>1. buf' < Weight[uw + 1]
        BY <1>2, <1>5, <2>1, <3>3
      <4>2. QED
        BY <1>4, <1>5, <1>10, <1>11, <3>3, <4>1, SmallMod
    <3>6. Magnitude >= Weight[uw'] - B3
      BY <1>2, <1>4, <1>5, <1>11, <2>1
    <3>7. QED
      BY <1>1, <1>2, <1>11, <3>4, <3>5, <3>6, EnterRescaleInv
  <2>6. CASE ~(p >= 2)
    <3>1. wide < Weight[4]
      BY <2>3, <2>4, <2>6
    <3>2. k < Base
      <4>1. wide < B3 * Base
        BY <1>2, <1>5, <3>1, MulAssoc
      <4>2. QED
        BY <1>2, <4>1, QuotientBound DEF k
    <3>3. p = k
      <4>1. Base \in Nat \ {0}
        BY <1>2
      <4>2. QED
        BY <2>2, <2>4, <3>2, <4>1, SmallMod
    <3>4. k # 0
      <4>1. SUFFICES ASSUME k = 0 PROVE FALSE
        OBVIOUS
      <4>2. k * B3 = 0
        BY <1>2, <4>1
      <4>3. QED
        BY <1>2, <2>2, <4>2
    <3>5. k = 1 /\ p = 1 /\ w = 0
      BY <1>7, <1>8, <2>2, <2>6, <3>3, <3>4
    <3>6. w * h = 0 /\ p * h = h /\ k * B3 = B3
      BY <1>2, <1>5, <3>5
    <3>7. buf' = wide - b /\ buf' < B3
      BY <1>2, <1>10, <2>1, <2>2, <3>6
    <3>8. uw = 3
      <4>1. Weight[uw] < Weight[4]
        BY <1>2, <1>5, <2>1, <3>1
      <4>2. uw < 4
        BY <1>5, <4>1, WeightMono
      <4>3. QED
        BY <1>2, <4>2
    <3>9. apc' = "borrow" /\ index' = 4
      BY <1>1, <1>15, <3>5
    <3>10. Borrowing'
      <4>1. wide % B3 < b
        BY <2>1 DEF low
      <4>2. index' = 4 /\ uw' = 3 /\ buf' = wide' - b' /\ buf' < B3 /\ wide' % B3 < b'
        BY <1>11, <3>7, <3>8, <3>9, <4>1
      <4>3. QED
        BY <1>3, <1>12, <4>2 DEF Borrowing
    <3>11. QED
      BY <1>1, <1>2, <1>11, <3>9, <3>10, LoopInv
  <2>7. QED
    BY <2>5, <2>6
<1>16. CASE ~BorrowMiscounts /\ index # 3
  <2>1. index = 4 /\ uw = 3 /\ buf = wide - b /\ buf < B3 /\ h = Weight[4]
    BY <1>3, <1>16 DEF Borrowing
  <2>2. B3 <= Weight[4]
    <3>1. 1 * B3 <= Base * B3 /\ 1 * B3 = B3
      BY <1>2, MulMono
    <3>2. QED
      BY <1>5, <3>1
  <2>3. buf < h
    BY <1>2, <1>5, <2>1, <2>2
  <2>4. p = 0
    <3>1. buf \div h = 0
      BY <1>2, <1>5, <2>3, SmallMod
    <3>2. 0 % Base = 0
      BY <1>2
    <3>3. QED
      BY <3>1, <3>2 DEF Part
  <2> HIDE DEF p
  <2>5. w = Base - 1 /\ w > 0
    BY <1>2, <1>8, <2>4
  <2>6. buf' = w * h + buf
    <3>1. 0 * h = 0
      BY <1>5
    <3>2. QED
      BY <1>2, <1>5, <1>10, <2>4, <3>1
  <2>7. apc' = "rescale" /\ index' = index
    BY <1>1, <2>5
  <2>8. buf' % Weight[uw' + 1] = Magnitude
    <3>1. Weight[uw' + 1] = h
      BY <1>11, <2>1
    <3>2. w \in Nat
      BY <1>9
    <3> HIDE DEF h
    <3>3. h \in Nat \ {0} /\ buf \in Nat /\ buf < h
      BY <1>2, <1>5, <1>10, <2>3
    <3>4. buf' \in Nat
      BY <2>6, <3>2, <3>3
    <3>5. buf' % h = buf
      BY <2>6, <3>2, <3>3, <3>4, QuotientUnique
    <3>6. QED
      BY <1>4, <2>1, <3>1, <3>5
  <2>9. Magnitude >= Weight[uw'] - B3
    BY <1>2, <1>4, <1>11, <2>1
  <2>10. QED
    BY <1>1, <1>2, <1>11, <2>7, <2>8, <2>9, EnterRescaleInv
<1>17. QED
  BY <1>14, <1>15, <1>16

-----------------------------------------------------------------------------
(***************************************************************************)
(* The rescale, and its answer.                                            *)
(***************************************************************************)
LEMMA AddCallRescaleInv == AddInv /\ CallRescale => AddInv'
<1> SUFFICES ASSUME AddInv, CallRescale PROVE AddInv'
  OBVIOUS
<1>1. /\ apc = "rescale" /\ RescaleCall(AddCall) /\ apc' = "rescaling"
      /\ UNCHANGED <<call, a, b, factor, buf, uw, index, wide, result>>
  BY DEF CallRescale, AddCall
<1>2. /\ x \in Decimal /\ y \in Decimal /\ op \in {"add", "sub"}
      /\ buf \in 0..(Weight[6] - 1) /\ uw \in 3..5 /\ RescaleIdle
  BY <1>1 DEF AddInv, AddTypeOK, Overflow
<1>3. AddCall \in RescaleArgs
  <2> DEFINE w == Weight[uw + 1]
  <2> DEFINE v == buf % w
  <2>1. uw \in 0..5 /\ uw + 1 \in 0..6
    BY <1>2
  <2>2. w \in Nat \ {0} /\ Weight[6] = B3 * B3 /\ Weight[6] \in Nat
    BY <2>1, WeightType
  <2>3. buf \in Nat
    BY <1>2, <2>2
  <2> HIDE DEF w
  <2>4. v \in Nat /\ v < w /\ v <= buf
    <3>1. buf \div w \in Nat /\ v \in Nat /\ v < w /\ buf = (buf \div w) * w + v
      BY <2>2, <2>3, DivMod
    <3>2. (buf \div w) * w \in Nat
      BY <2>2, <3>1
    <3> HIDE DEF v
    <3>3. QED
      BY <3>1, <3>2
  <2>5. CommonScale \in 0..(2 * MAX_SCALE)
    BY <1>2, ScaledType, ScaleAssumption
  <2>6. AddCall = [v |-> v, u |-> uw, s |-> CommonScale]
    BY DEF AddCall, w
  <2> HIDE DEF v
  <2>7. v \in 0..(B3 * B3 - 1)
    BY <1>2, <2>2, <2>3, <2>4
  <2>8. v < Weight[uw + 1]
    BY <2>4 DEF w
  <2>9. QED
    BY <2>1, <2>5, <2>6, <2>7, <2>8 DEF RescaleArgs
<1>4. (RescaleInv /\ KeepInv)'
  BY <1>1, <1>2, <1>3, RescaleCallInv
<1>5. /\ x' = x /\ y' = y /\ op' = op /\ Rhs' = Rhs /\ Scaled(Lhs)' = Scaled(Lhs)
      /\ Magnitude' = Magnitude /\ CommonScale' = CommonScale /\ Minus' = Minus
  BY <1>1, CallSame
<1>6. AddTypeOK'
  BY <1>1, <1>5 DEF AddInv, AddTypeOK, Overflow
<1>7. ScalingExact' /\ SumRounded'
  BY <1>1 DEF ScalingExact, SumRounded, Overflow
<1>8. arg' = AddCall /\ rpc' = "enter"
  BY <1>1 DEF RescaleCall
<1>9. rpc' # "idle" /\ arg'.s = CommonScale'
  BY <1>5, <1>8 DEF AddCall
<1>10. BorrowMiscounts' <=> BorrowMiscounts
  BY <1>1, <1>5 DEF BorrowMiscounts, Part
<1>11. ~BorrowMiscounts' => arg'.v = Magnitude' /\ TopInUse(arg)'
  BY <1>1, <1>5, <1>8, <1>10 DEF AddInv, TopInUse
<1>12. QED
  BY <1>1, <1>4, <1>5, <1>6, <1>7, <1>9, <1>11 DEF AddInv, Overflow

LEMMA AddRescalingInv == AddInv /\ Rescaling => AddInv'
<1> SUFFICES ASSUME AddInv, Rescaling PROVE AddInv'
  OBVIOUS
<1>1. apc = "rescaling" /\ RescaleNext /\ UNCHANGED avars
  BY DEF Rescaling
<1>2. (RescaleInv /\ KeepInv)'
  BY <1>1, RescaleStep, KeepStep DEF AddInv
<1>3. arg' = arg /\ rpc' # "idle"
  BY <1>1 DEF RescaleNext, EnterOverflow, Enter, Divide, NextChunk, OneMore, Round, RoundCarries
<1>4. /\ x' = x /\ y' = y /\ op' = op /\ Rhs' = Rhs /\ Scaled(Lhs)' = Scaled(Lhs)
      /\ Magnitude' = Magnitude /\ CommonScale' = CommonScale /\ Minus' = Minus
  BY <1>1, CallSame DEF avars, call
<1>5. UNCHANGED <<a, b, factor, buf, uw, index, wide, result, apc>>
  BY <1>1 DEF avars
<1>6. AddTypeOK'
  BY <1>4, <1>5 DEF AddInv, AddTypeOK
<1>7. ScalingExact' /\ SumRounded'
  BY <1>1, <1>5 DEF ScalingExact, SumRounded, Overflow
<1>8. BorrowMiscounts' <=> BorrowMiscounts
  BY <1>4, <1>5 DEF BorrowMiscounts, Part
<1>9. ~BorrowMiscounts' => arg'.v = Magnitude' /\ TopInUse(arg)'
  BY <1>1, <1>3, <1>4, <1>8 DEF AddInv, TopInUse
<1>10. QED
  BY <1>1, <1>2, <1>3, <1>4, <1>5, <1>6, <1>7, <1>9 DEF AddInv, Overflow

\* A routine that ends after a miscounted borrow promises nothing but its types.
LEMMA MiscountedInv ==
    ASSUME AddInv, BorrowMiscounts, UNCHANGED <<call, a, b, factor, buf, uw, index, wide, rvars>>,
           result' \in Decimal, apc' \in {"done", Overflow}
    PROVE  AddInv'
<1>1. (RescaleInv /\ KeepInv)'
  BY RescaleSame DEF AddInv
<1>2. x' = x /\ y' = y /\ op' = op /\ Minus' = Minus
  BY CallSame
<1>3. AddTypeOK'
  BY <1>2 DEF AddInv, AddTypeOK, Overflow
<1>4. BorrowMiscounts'
  BY <1>2 DEF BorrowMiscounts, Part
<1>5. SumRounded'
  BY <1>4 DEF SumRounded
<1>6. QED
  BY <1>1, <1>3, <1>5 DEF AddInv, ScalingExact, Overflow

\* What the invariant says while the rescale runs.
LEMMA RescalingFacts ==
    ASSUME AddInv, apc = "rescaling"
    PROVE  /\ x \in Decimal /\ y \in Decimal /\ op \in {"add", "sub"}
           /\ x.m # 0 /\ y.m # 0 /\ a \in Mantissa /\ factor \in -MAX_I32_SCALE..MAX_SCALE
           /\ result \in Decimal /\ RescaleInv /\ KeepInv
           /\ LhsNegative \in BOOLEAN /\ (ExactSum < 0 <=> LhsNegative)
           /\ ~BorrowMiscounts => arg.v = Magnitude /\ arg.s = CommonScale /\ TopInUse(arg)
<1>1. /\ x \in Decimal /\ y \in Decimal /\ op \in {"add", "sub"}
      /\ x.m # 0 /\ y.m # 0 /\ x.s # y.s /\ a \in Mantissa /\ factor \in -MAX_I32_SCALE..MAX_SCALE
      /\ result \in Decimal /\ RescaleInv /\ KeepInv
      /\ wide = Scaled(Lhs) /\ B3 <= wide
      /\ ~BorrowMiscounts => arg.v = Magnitude /\ arg.s = CommonScale /\ TopInUse(arg)
  BY DEF AddInv, AddTypeOK, Overflow
<1>2. /\ SumIs(wide, Rhs.m, LhsNegative) /\ LhsNegative \in BOOLEAN
      /\ wide \in Nat /\ Rhs.m \in Mantissa
  BY <1>1, LhsFacts
<1>3. wide > Rhs.m /\ wide + Rhs.m > 0
  BY <1>1, <1>2, BaseType DEF Mantissa
<1>4. ExactSum < 0 <=> LhsNegative
  BY <1>2, <1>3 DEF SumIs
<1>5. QED
  BY <1>1, <1>2, <1>4

LEMMA AddReturnInv == AddInv /\ AddReturn => AddInv'
<1> SUFFICES ASSUME AddInv, AddReturn PROVE AddInv'
  OBVIOUS
<1> DEFINE d == FromParts(val, LhsNegative, scale)
<1>1. /\ apc = "rescaling" /\ rpc = "done" /\ Return(d)
      /\ UNCHANGED <<call, a, b, factor, buf, uw, index, wide, rvars>>
  BY DEF AddReturn
<1>2. /\ x \in Decimal /\ y \in Decimal /\ op \in {"add", "sub"}
      /\ x.m # 0 /\ y.m # 0 /\ a \in Mantissa /\ factor \in -MAX_I32_SCALE..MAX_SCALE
      /\ RescaleInv /\ KeepInv
      /\ LhsNegative \in BOOLEAN /\ (ExactSum < 0 <=> LhsNegative)
      /\ ~BorrowMiscounts => arg.v = Magnitude /\ arg.s = CommonScale /\ TopInUse(arg)
  BY <1>1, RescalingFacts
<1>3. val \in Mantissa /\ scale \in 0..MAX_SCALE
  BY <1>1, <1>2, BaseType, ScaleAssumption DEF RescaleInv, RescaleTypeOK, RescaleRounded, Mantissa
<1>4. d \in Decimal /\ (d.m # 0 => d.neg = LhsNegative)
  BY <1>2, <1>3, FromPartsType
<1>5. result' = d /\ apc' = "done"
  BY <1>1 DEF Return
<1>6. ~BorrowMiscounts => IsRoundingOf(d, Magnitude, CommonScale)
  <2>1. ASSUME ~BorrowMiscounts PROVE IsRoundingOf(d, Magnitude, CommonScale)
    <3>1. IsRoundingOf(d, arg.v, arg.s)
      BY <1>1, <1>2, <2>1, RescaleAnswers
    <3>2. arg.v = Magnitude /\ arg.s = CommonScale
      BY <1>2, <2>1
    <3> HIDE DEF d
    <3>3. QED
      BY <3>1, <3>2
  <2>2. QED
    BY <2>1
<1> HIDE DEF d
<1>7. CASE BorrowMiscounts
  BY <1>1, <1>4, <1>5, <1>7, MiscountedInv
<1>8. CASE ~BorrowMiscounts
  <2>1. Rounded(d)
    BY <1>2, <1>4, <1>6, <1>8 DEF Rounded
  <2>2. RightReturn
    BY <1>1, <1>4, <2>1 DEF RightReturn
  <2>3. a' \in Mantissa /\ factor' \in -MAX_I32_SCALE..MAX_SCALE
    BY <1>1, <1>2
  <2>4. QED
    BY <1>1, <1>2, <2>2, <2>3, FinishInv
<1>9. QED
  BY <1>7, <1>8

LEMMA AddOverflowInv == AddInv /\ AddOverflow => AddInv'
<1> SUFFICES ASSUME AddInv, AddOverflow PROVE AddInv'
  OBVIOUS
<1>1. /\ apc = "rescaling" /\ rpc = "overflow" /\ Fail
      /\ UNCHANGED <<call, a, b, factor, buf, uw, index, wide, rvars>>
  BY DEF AddOverflow
<1>2. /\ x.m # 0 /\ y.m # 0 /\ a \in Mantissa /\ factor \in -MAX_I32_SCALE..MAX_SCALE
      /\ result \in Decimal /\ KeepInv
      /\ ~BorrowMiscounts => arg.v = Magnitude /\ arg.s = CommonScale /\ TopInUse(arg)
  BY <1>1, RescalingFacts
<1>3. apc' = Overflow /\ result' = result
  BY <1>1 DEF Fail
<1>4. CASE BorrowMiscounts
  BY <1>1, <1>2, <1>3, <1>4, MiscountedInv
<1>5. CASE ~BorrowMiscounts
  <2>1. HalfEven(arg.v, POWERS[arg.s]) > Max96
    BY <1>1, <1>2, <1>5 DEF KeepInv, RescaleOverflows
  <2>2. RightOverflow
    BY <1>1, <1>2, <1>5, <2>1 DEF RightOverflow, TooLarge
  <2>3. a' \in Mantissa /\ factor' \in -MAX_I32_SCALE..MAX_SCALE
    BY <1>1, <1>2
  <2>4. QED
    BY <1>1, <1>2, <2>2, <2>3, FinishInv
<1>6. QED
  BY <1>4, <1>5

-----------------------------------------------------------------------------
(***************************************************************************)
(* The theorems.                                                           *)
(***************************************************************************)
LEMMA AddInitInv == AddInit => AddInv
<1> SUFFICES ASSUME AddInit PROVE AddInv
  OBVIOUS
<1>1. PICK c, d \in Decimal, o \in {"add", "sub"} : Started(c, d, o)
  BY DEF AddInit
<1>2. /\ x \in Decimal /\ y \in Decimal /\ op \in {"add", "sub"}
      /\ a = 0 /\ b = 0 /\ factor = 0 /\ buf = 0 /\ uw = 0 /\ result = ZERO
      /\ apc = "start" /\ RescaleIdle
  BY <1>1 DEF Started
<1>3. 0 \in Mantissa /\ 0 \in -MAX_I32_SCALE..MAX_SCALE /\ 0 \in 0..(Weight[6] - 1)
  <2>1. Weight[6] \in Nat \ {0}
    BY WeightType
  <2>2. QED
    BY <2>1, BaseType, ScaleAssumption DEF Mantissa
<1>4. AddTypeOK
  BY <1>2, <1>3, ZeroType DEF AddTypeOK
<1>5. RescaleInv /\ KeepInv
  BY <1>2, IdleInv
<1>6. ScalingExact /\ SumRounded
  BY <1>2 DEF ScalingExact, SumRounded, Overflow
<1>7. QED
  BY <1>2, <1>4, <1>5, <1>6 DEF AddInv, Overflow

\* A step that changes nothing.
LEMMA AddStutterInv == AddInv /\ UNCHANGED allvars => AddInv'
<1> SUFFICES ASSUME AddInv, UNCHANGED allvars PROVE AddInv'
  OBVIOUS
<1>1. UNCHANGED <<call, a, b, factor, buf, uw, index, wide, result, apc, rvars>>
  BY DEF allvars, avars, call
<1>2. /\ x' = x /\ y' = y /\ op' = op /\ Rhs' = Rhs /\ Scaled(Lhs)' = Scaled(Lhs) /\ Lhs' = Lhs
      /\ Magnitude' = Magnitude /\ CommonScale' = CommonScale /\ Minus' = Minus /\ ExactSum' = ExactSum
  BY <1>1, CallSame
<1>3. (RescaleInv /\ KeepInv)' /\ (RescaleIdle => RescaleIdle') /\ arg' = arg /\ rpc' = rpc
  BY <1>1, RescaleSame DEF AddInv, rvars
<1>4. AddTypeOK' /\ ScalingExact'
  BY <1>1, <1>2 DEF AddInv, AddTypeOK, ScalingExact
<1>5. /\ BorrowMiscounts' <=> BorrowMiscounts
      /\ Saturated' = Saturated
  BY <1>1, <1>2 DEF BorrowMiscounts, Part, Saturated
<1>6. SumRounded'
  BY <1>1, <1>2, <1>5 DEF AddInv, SumRounded
<1>7. (Carrying => Carrying') /\ (Borrowing => Borrowing')
  BY <1>1, <1>2, <1>5 DEF Carrying, Borrowing
<1>8. AddCall' = AddCall
  BY <1>1, <1>2 DEF AddCall
<1>9. /\ TopInUse(arg) => TopInUse(arg)'
      /\ TopInUse(AddCall) => TopInUse(AddCall)'
  BY <1>3, <1>8 DEF TopInUse
<1>10. QED
  BY <1>1, <1>2, <1>3, <1>4, <1>5, <1>6, <1>7, <1>8, <1>9 DEF AddInv

\* Each action of the routine keeps the invariant.
LEMMA AddStep == AddInv /\ [AddNext]_allvars => AddInv'
<1> SUFFICES ASSUME AddInv, [AddNext]_allvars PROVE AddInv'
  OBVIOUS
<1>1. CASE AddZero \/ AddFast \/ AddSameScale \/ StartScaling
  BY <1>1, AddZeroInv, AddFastInv, AddSameScaleInv, StartScalingInv
<1>2. CASE ScaleLow \/ ScaleMid \/ ScaleHigh \/ ScaleBuffer
  BY <1>2, ScaleLowInv, ScaleMidInv, ScaleHighInv, ScaleBufferInv
<1>3. CASE AddBuffer \/ SubtractBuffer \/ Carry \/ Borrow
  BY <1>3, AddBufferInv, SubtractBufferInv, CarryInv, BorrowInv
<1>4. CASE CallRescale \/ Rescaling \/ AddReturn \/ AddOverflow
  BY <1>4, AddCallRescaleInv, AddRescalingInv, AddReturnInv, AddOverflowInv
<1>5. CASE UNCHANGED allvars
  BY <1>5, AddStutterInv
<1>6. QED
  BY <1>1, <1>2, <1>3, <1>4, <1>5 DEF AddNext

\* The strengthened invariant, for every call of add_impl and sub_impl.
THEOREM AddInvariant == AddSpec => []AddInv
  BY AddInitInv, AddStep, PTL DEF AddSpec

\* The variables of add_impl and sub_impl keep their types: no number outgrows
\* its words, no word index leaves the buffer, and what is returned is a decimal.
THEOREM AddTypeCorrect == AddSpec => []AddTypeOK
<1>1. AddInv => AddTypeOK
  BY DEF AddInv
<1>2. QED
  BY <1>1, AddInvariant, PTL

\* Scaling an operand up, a word at a time through three widths and a buffer, loses
\* nothing, whatever the operands and their scales.
THEOREM AddScalingExact == AddSpec => []ScalingExact
<1>1. AddInv => ScalingExact
  BY DEF AddInv
<1>2. QED
  BY <1>1, AddInvariant, PTL

\* A sum or a difference is exact, or rounded once, half to even, with the sign
\* of the sum, and overflow is never a mistake, but after the borrows
\* unaligned_add miscounts.
THEOREM AddCorrect == AddSpec => []SumRounded
<1>1. AddInv => SumRounded
  BY DEF AddInv
<1>2. QED
  BY <1>1, AddInvariant, PTL
=============================================================================
