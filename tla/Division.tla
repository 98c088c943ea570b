------------------------------ MODULE Division -------------------------------
(***************************************************************************)
(* div_impl (ops/div.rs): the quotient of two decimals, by long division.  *)
(* The mantissas are divided; while a remainder is left, quotient and      *)
(* remainder are scaled by as large a power of ten as 96 bits allow and    *)
(* the division goes on with the remainder.  One action per pass of the    *)
(* loop.  The code has three copies of the loop, for divisors of one, two  *)
(* and three words; they differ in how the divisor is shifted and in the   *)
(* remainder kept between passes.  The word by word divisions of a pass    *)
(* are integer divisions here, see PartialDivide.                          *)
(***************************************************************************)
EXTENDS Scaling, Limits

VARIABLES
    numer, denom,   \* the operands: dividend and divisor
    quotient,       \* `quotient`, three words
    div_remainder,  \* `remainder`, its three low words
    stale,          \* `remainder.data[3]`, set by a pass and never cleared
    divisor,        \* `divisor`, shifted left
    div_scale,      \* `scale`, which may be negative
    require_unscale,
    strip,          \* the step of unscale
    div_result,     \* what is returned
    pc              \* where the routine is

vars == <<numer, denom, quotient, div_remainder, stale, divisor, div_scale, require_unscale, strip, div_result, pc>>
operands == <<numer, denom>>

sign_negative == numer.neg # denom.neg

\* The words of the divisor decide which of the three loops runs.
Width == IF denom.m < Base THEN 1 ELSE IF denom.m < B2 THEN 2 ELSE 3
Whole == << Base, B2, B3 >>[Width]

\* Operands of two or three words are shifted until the divisor's top bit is set.
Shift == IF Width = 1 THEN 1 ELSE TopShift(denom.m, Whole)

-----------------------------------------------------------------------------
\* unscale_from_overflow: 2^96 + q loses its last digit.
Unscaled(q, sticky) ==
    LET v    == (B3 + q) \div Ten
        r    == (B3 + q) % Ten
        half == Ten \div 2
    IN  IF r > half \/ (r = half /\ (sticky \/ v % 2 = 1)) THEN v + 1 ELSE v

\* The quotient has gone over 96 bits: one digit back, or give up.
FromOverflow(q, s, sticky) ==
    IF s - 1 < 0
    THEN pc' = "overflow" /\ UNCHANGED <<quotient, div_scale>>
    ELSE quotient' = Unscaled(q, sticky) /\ div_scale' = s - 1 /\ pc' = "unscale"

-----------------------------------------------------------------------------
DivStarted(a, b) ==
    /\ numer = a /\ denom = b
    /\ quotient = 0 /\ div_remainder = 0 /\ stale = 0 /\ divisor = 0
    /\ div_scale = 0 /\ require_unscale = FALSE /\ strip = 0
    /\ div_result = ZERO /\ pc = "start"

\* No call: for the models that run another routine.
DivisionIdle ==
    /\ numer = ZERO /\ denom = ZERO
    /\ quotient = 0 /\ div_remainder = 0 /\ stale = 0 /\ divisor = 0
    /\ div_scale = 0 /\ require_unscale = FALSE /\ strip = 0
    /\ div_result = ZERO /\ pc = "idle"

Init == \E a, b \in Decimal : DivStarted(a, b)

DivByZero ==
    /\ pc = "start" /\ denom.m = 0
    /\ pc' = "div_by_zero"
    /\ UNCHANGED <<operands, quotient, div_remainder, stale, divisor, div_scale, require_unscale, strip, div_result>>

ZeroDividend ==
    /\ pc = "start" /\ denom.m # 0 /\ numer.m = 0
    /\ div_result' = ZERO /\ pc' = "done"
    /\ UNCHANGED <<operands, quotient, div_remainder, stale, divisor, div_scale, require_unscale, strip>>

\* The first division.  With three words partial_divide_96 leaves the fourth
\* word of a dividend it has divided where it was.
DivideOnce ==
    /\ pc = "start" /\ denom.m # 0 /\ numer.m # 0
    /\ divisor' = denom.m * Shift
    /\ quotient' = numer.m \div denom.m
    /\ div_remainder' = (numer.m % denom.m) * Shift
    /\ stale' = IF Width = 3 THEN (numer.m * Shift) \div B3 ELSE 0
    /\ div_scale' = numer.s - denom.s
    /\ pc' = "loop"
    /\ UNCHANGED <<operands, require_unscale, strip, div_result>>

\* Mutant of Exact: a scale of zero is not final.
ExactAbove ==
    /\ pc = "loop" /\ div_remainder = 0 /\ div_scale > 0
    /\ pc' = IF require_unscale THEN "unscale" ELSE "return"
    /\ UNCHANGED <<operands, quotient, div_remainder, stale, divisor, div_scale, require_unscale, strip, div_result>>

\* Nothing is left to divide.
Exact ==
    /\ pc = "loop" /\ div_remainder = 0 /\ div_scale >= 0
    /\ pc' = IF require_unscale THEN "unscale" ELSE "return"
    /\ UNCHANGED <<operands, quotient, div_remainder, stale, divisor, div_scale, require_unscale, strip, div_result>>

\* Mutant of ScaleBy: the digits of the remainder are taken before it is scaled.
ScaleByUnscaled(k, sticky) ==
    /\ div_remainder' = (div_remainder * POWERS[k]) % divisor
    /\ quotient' = quotient * POWERS[k]
    /\ div_scale' = div_scale + k /\ pc' = "loop"

\* Scaling by Ten^k: the quotient may overflow by the scaling itself or by the
\* digits of the remainder then added to it.  sticky is the code's flag for a
\* remainder that is lost when the latter happens.
ScaleBy(k, sticky) ==
    LET power == POWERS[k]
        n     == div_remainder * power
        q     == quotient * power + (n \div divisor)
    IN  /\ IF quotient * power > Max96
           THEN pc' = "overflow" /\ UNCHANGED <<quotient, div_remainder, div_scale>>
           ELSE /\ div_remainder' = n % divisor
                /\ IF q > Max96
                   THEN FromOverflow(q - B3, div_scale + k, sticky)
                   ELSE quotient' = q /\ div_scale' = div_scale + k /\ pc' = "loop"

\* An exact quotient with a negative scale is scaled up to an integer.
ScaleExact ==
    /\ pc = "loop" /\ div_remainder = 0 /\ div_scale < 0
    /\ require_unscale' = require_unscale
    /\ ScaleBy(Chunk(-div_scale), FALSE)
    /\ stale' = 0
    /\ UNCHANGED <<operands, divisor, strip, div_result>>

\* `will_overflow`: no more digits can be had.
LastDigit == div_scale = MAX_SCALE \/ FindScale(quotient, div_scale) = 0

\* One and two word divisors: the remainder of the pass is the sticky flag.
ScaleShort ==
    /\ pc = "loop" /\ div_remainder # 0 /\ Width < 3
    /\ ~LastDigit /\ FindScale(quotient, div_scale) # None
    /\ require_unscale' = TRUE
    /\ ScaleBy(FindScale(quotient, div_scale), div_remainder' # 0)
    /\ UNCHANGED <<operands, stale, divisor, strip, div_result>>

\* Three words: the scaled remainder has a fourth word, which is still there
\* after the division, and the flag reads all four.
ScaleLong ==
    /\ pc = "loop" /\ div_remainder # 0 /\ Width = 3
    /\ ~LastDigit /\ FindScale(quotient, div_scale) # None
    /\ require_unscale' = TRUE
    /\ stale' = (div_remainder * POWERS[FindScale(quotient, div_scale)]) \div B3
    /\ ScaleBy(FindScale(quotient, div_scale), div_remainder' # 0 \/ stale' # 0)
    /\ UNCHANGED <<operands, divisor, strip, div_result>>

\* The quotient cannot be brought to a scale that is not negative.
TooLarge ==
    /\ pc = "loop" /\ div_remainder # 0 /\ div_scale # MAX_SCALE
    /\ FindScale(quotient, div_scale) = None
    /\ require_unscale' = TRUE /\ pc' = "overflow"
    /\ UNCHANGED <<operands, quotient, div_remainder, stale, divisor, div_scale, strip, div_result>>

\* Mutants of RoundLast: doubling the remainder wraps; a half rounds up.
RoundLastWraps ==
    /\ pc = "loop" /\ div_remainder # 0 /\ LastDigit
    /\ require_unscale' = TRUE
    /\ quotient' = IF (2 * div_remainder) % Whole > divisor THEN quotient + 1 ELSE quotient
    /\ pc' = "unscale"
    /\ UNCHANGED <<operands, div_remainder, stale, divisor, div_scale, strip, div_result>>
RoundLastUp ==
    /\ pc = "loop" /\ div_remainder # 0 /\ LastDigit
    /\ require_unscale' = TRUE
    /\ quotient' = IF 2 * div_remainder >= divisor /\ quotient < Max96 THEN quotient + 1 ELSE quotient
    /\ pc' = "unscale"
    /\ UNCHANGED <<operands, div_remainder, stale, divisor, div_scale, strip, div_result>>

\* The last digit is rounded by the remainder; round_up may carry over 96 bits.
RoundLast ==
    /\ pc = "loop" /\ div_remainder # 0 /\ LastDigit
    /\ require_unscale' = TRUE
    /\ LET twice == 2 * div_remainder
       IN  IF twice > divisor \/ (twice = divisor /\ quotient % 2 = 1)
           THEN IF quotient = Max96
                THEN FromOverflow(0, div_scale, TRUE)
                ELSE quotient' = quotient + 1 /\ pc' = "unscale" /\ UNCHANGED div_scale
           ELSE pc' = "unscale" /\ UNCHANGED <<quotient, div_scale>>
    /\ UNCHANGED <<operands, div_remainder, stale, divisor, strip, div_result>>

-----------------------------------------------------------------------------
Strips(k) == div_scale >= k /\ quotient % POWERS[k] = 0

\* unscale: trailing zeros, eight at a time while the low word is zero.
UnscaleMany ==
    /\ pc = "unscale" /\ strip = 0
    /\ IF Lo(quotient) = 0 /\ Strips(UnscaleChunk)
       THEN /\ quotient' = quotient \div POWERS[UnscaleChunk]
            /\ div_scale' = div_scale - UnscaleChunk
            /\ UNCHANGED strip
       ELSE strip' = 1 /\ UNCHANGED <<quotient, div_scale>>
    /\ UNCHANGED <<operands, div_remainder, stale, divisor, require_unscale, div_result, pc>>

\* Then four, two and one.  (The code first tests the bits such a multiple has
\* clear; the division decides.)
UnscaleFew ==
    /\ pc = "unscale" /\ strip \in 1..Len(UnscaleSteps)
    /\ LET k == UnscaleSteps[strip]
       IN  IF Strips(k)
           THEN quotient' = quotient \div POWERS[k] /\ div_scale' = div_scale - k
           ELSE UNCHANGED <<quotient, div_scale>>
    /\ strip' = strip + 1
    /\ pc' = IF strip = Len(UnscaleSteps) THEN "return" ELSE pc
    /\ UNCHANGED <<operands, div_remainder, stale, divisor, require_unscale, div_result>>

DivReturn ==
    /\ pc = "return"
    /\ div_result' = FromParts(quotient, sign_negative, div_scale)
    /\ pc' = "done"
    /\ UNCHANGED <<operands, quotient, div_remainder, stale, divisor, div_scale, require_unscale, strip>>

Next ==
    \/ DivByZero \/ ZeroDividend \/ DivideOnce
    \/ Exact \/ ScaleExact \/ ScaleShort \/ ScaleLong \/ TooLarge \/ RoundLast
    \/ UnscaleMany \/ UnscaleFew \/ DivReturn

Spec == Init /\ [][Next]_vars

-----------------------------------------------------------------------------
(***************************************************************************)
(* Reference arithmetic on quotients n * Ten^e / d, e of either sign, by   *)
(* comparing 2 * n * Ten^e with k.                                         *)
(***************************************************************************)
TwiceLess(n, e, k) == IF e >= 0 THEN 2 * n <= (k - 1) \div POWERS[e]
                      ELSE (2 * n) \div POWERS[-e] < k
TwiceEqual(n, e, k) == IF e >= 0 THEN k % POWERS[e] = 0 /\ 2 * n = k \div POWERS[e]
                       ELSE (2 * n) % POWERS[-e] = 0 /\ (2 * n) \div POWERS[-e] = k

\* m is the quotient rounded to a nearest integer.
IsNearest(m, n, e, d) == ~TwiceLess(n, e, (2 * m - 1) * d) /\
                         (TwiceLess(n, e, (2 * m + 1) * d) \/ TwiceEqual(n, e, (2 * m + 1) * d))
IsTie(m, n, e, d) == TwiceEqual(n, e, (2 * m - 1) * d) \/ TwiceEqual(n, e, (2 * m + 1) * d)
IsExact(m, n, e, d) == TwiceEqual(n, e, 2 * m * d)
RoundsAbove96(n, e, d) == ~TwiceLess(n, e, (2 * Max96 + 1) * d)

\* The power of ten between the mantissas' quotient and a mantissa of scale s.
Exponent(s) == s - (numer.s - denom.s)

\* The result had p digits after the point before its zeros were stripped: as
\* many as 96 bits hold, unless fewer were exact.
DigitsKept(p) ==
    LET m == div_result.m * POWERS[p - div_result.s]
    IN  /\ m <= Max96
        /\ IsNearest(m, numer.m, Exponent(p), denom.m)
        /\ \/ IsExact(m, numer.m, Exponent(p), denom.m)
           \/ p = MAX_SCALE
           \/ RoundsAbove96(numer.m, Exponent(p + 1), denom.m)

\* A tie that went over 96 bits with the stale fourth word set.
StaleTie == Width = 3 /\ stale # 0 /\ div_remainder = 0

Quotients == pc = "done" /\ numer.m # 0

\* The values of the routine's variables.
DivTypeOK ==
    /\ numer \in Decimal /\ denom \in Decimal
    /\ quotient \in Mantissa
    /\ div_remainder \in Mantissa /\ (pc = "loop" => div_remainder < divisor)
    /\ stale \in Word
    /\ divisor \in Mantissa
    /\ div_scale \in -MAX_SCALE..MAX_SCALE
    /\ require_unscale \in BOOLEAN /\ strip \in 0..(Len(UnscaleSteps) + 1)
    /\ div_result \in Decimal /\ (pc \in {"unscale", "return"} => div_scale >= 0)
    /\ pc \in {"idle", "start", "loop", "unscale", "return", "done", "overflow", "div_by_zero"}

\* Nothing is lost while digits are produced: between passes the quotient and
\* the remainder together are the dividend, scaled by what the scale has grown.
LongDivisionExact ==
    pc = "loop" =>
        numer.m * POWERS[Exponent(div_scale)] * Shift = quotient * divisor + div_remainder

\* The power that find_scale looks up in its table is the largest that keeps
\* the quotient within 96 bits and the scale within MAX_SCALE.
ScalesByLargest ==
    pc = "loop" /\ div_scale < MAX_SCALE =>
        LET fits == {k \in 0..MAX_I32_SCALE : div_scale + k <= MAX_SCALE /\ quotient * POWERS[k] <= Max96}
            best == CHOOSE k \in fits : \A j \in fits : j <= k
            found == FindScale(quotient, div_scale)
        IN  found = best \/ (found = None /\ best + div_scale < 0)

\* A quotient is rounded to a nearest one with as many digits as can be had, and
\* has the sign of the operands; overflow is reported only for quotients whose
\* integral part exceeds 96 bits.
DivNearest ==
    /\ Quotients =>
        /\ \E p \in div_result.s..MAX_SCALE : DigitsKept(p)
        /\ div_result.m # 0 => div_result.neg = sign_negative
    /\ pc = "overflow" => RoundsAbove96(numer.m, Exponent(0), denom.m)

\* A quotient halfway between two neighbours goes to the even one (one whose
\* zeros were stripped is no longer halfway).  (For the
\* ties excluded here, see DivTiesToEven.)
DivHalfEven ==
    Quotients /\ ~StaleTie /\ IsTie(div_result.m, numer.m, Exponent(div_result.s), denom.m) => div_result.m % 2 = 0

\* Every division returns.
DivTerminates == <>(pc \in {"done", "overflow", "div_by_zero"})

\* What the comments of the code say of every rounding: a tie rounds if the low
\* bit is set.  After a pass of the three word loop the stale fourth word of the
\* remainder is taken for a lost digit and breaks the rule.
DivTiesToEven ==
    Quotients /\ IsTie(div_result.m, numer.m, Exponent(div_result.s), denom.m) => div_result.m % 2 = 0
=============================================================================
