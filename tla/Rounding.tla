------------------------------ MODULE Rounding -------------------------------
(***************************************************************************)
(* Changing the scale of one decimal: rescale, trunc, trunc_with_scale,    *)
(* floor, ceil, round_dp_with_strategy, round_sf_with_strategy and         *)
(* normalize_assign (decimal.rs), over the digit loops of ops/array.rs.    *)
(* One action per pass of a loop; round_sf hands over to the loops of      *)
(* rescale or round_dp, floor and ceil to those of trunc.                  *)
(***************************************************************************)
EXTENDS DecimalBase

\* No mantissa has more than MAX_SCALE + 1 digits.
ASSUME FiguresAssumption == MAX_SCALE + 1 <= PowLimit /\ B3 <= POWERS[MAX_SCALE + 1]

VARIABLES
    call,       \* the call: [op, d |-> the decimal, n |-> scale, places or figures, by |-> strategy]
    m,          \* the mantissa
    neg,        \* the sign
    value_scale,\* `value_scale`
    to,         \* the scale or number of places the loops aim at
    k,          \* digits still to drop or to add: `diff`
    working,    \* `working`, or `offset` in round_dp
    digit,      \* `remainder`: the digit dropped last
    figures,    \* `mantissa_sf`
    exp,        \* `exp`: powers of Ten round_sf still has to multiply by
    pc          \* where the routine is

vars == <<call, m, neg, value_scale, to, k, working, digit, figures, exp, pc>>

Strategies == {"MidpointNearestEven", "MidpointTowardZero", "MidpointAwayFromZero",
               "AwayFromZero", "ToPositiveInfinity", "ToNegativeInfinity", "ToZero"}

\* rescale drops digits with rounding, the others cut them off.
Rounds == call.op = "rescale" \/ call.op = "round_sf"

Called(op, d, n, by) ==
    /\ call = [op |-> op, d |-> d, n |-> n, by |-> by]
    /\ m = d.m /\ neg = d.neg /\ value_scale = d.s
    /\ to = n
    /\ k = 0 /\ working = 0 /\ digit = 0 /\ figures = 0 /\ exp = 0
    /\ pc = CASE op \in {"rescale", "trunc", "floor", "ceil"} -> "rescale"
              [] op = "round_dp" -> "round_dp"
              [] op = "round_sf" -> "round_sf"
              [] op = "normalize" -> "normalize"

Init == \E d \in Decimal, n \in Nat, by \in Strategies :
            \/ \E op \in {"rescale", "trunc", "round_dp", "round_sf"} : Called(op, d, n, by)
            \/ \E op \in {"floor", "ceil", "normalize"} : Called(op, d, 0, by)

\* Before any call.
NoRounding == [op |-> "none", d |-> ZERO, n |-> 0, by |-> "ToZero"]
RoundingIdle ==
    /\ call = NoRounding
    /\ m = 0 /\ neg = FALSE /\ value_scale = 0 /\ to = 0
    /\ k = 0 /\ working = 0 /\ digit = 0 /\ figures = 0 /\ exp = 0
    /\ pc = "idle"

-----------------------------------------------------------------------------
(***************************************************************************)
(* array.rs: rescale::<ROUND>.                                             *)
(***************************************************************************)
\* What follows the loops: floor and ceil may have to step by one.
AfterLoops == IF call.op \in {"floor", "ceil"} THEN "step" ELSE "done"

\* floor and ceil return an integer as it is before they truncate.
RescaleSame ==
    /\ pc = "rescale" /\ value_scale = to
    /\ pc' = "done"
    /\ UNCHANGED <<call, m, neg, value_scale, to, k, working, digit, figures, exp>>

\* Only a zero has its scale held to the maximum.
RescaleZero ==
    /\ pc = "rescale" /\ value_scale # to /\ m = 0
    /\ value_scale' = SmallerOf(to, MAX_SCALE)
    /\ pc' = AfterLoops
    /\ UNCHANGED <<call, m, neg, to, k, working, digit, figures, exp>>

RescaleDown ==
    /\ pc = "rescale" /\ value_scale > to /\ m # 0
    /\ k' = value_scale - to /\ digit' = 0 /\ pc' = "drop"
    /\ UNCHANGED <<call, m, neg, value_scale, to, working, figures, exp>>

\* Mutant of DropDigit: a remainder once found is kept.
DropDigitKeeps ==
    /\ pc = "drop" /\ k > 0 /\ m # 0
    /\ k' = k - 1 /\ m' = m \div Ten
    /\ digit' = IF m % Ten > digit THEN m % Ten ELSE digit
    /\ UNCHANGED <<call, neg, value_scale, to, working, figures, exp, pc>>

DropDigit ==
    /\ pc = "drop" /\ k > 0 /\ m # 0
    /\ k' = k - 1 /\ m' = m \div Ten /\ digit' = m % Ten
    /\ UNCHANGED <<call, neg, value_scale, to, working, figures, exp, pc>>

\* A zero has no more digits to drop, nor one to round by.
DropZero ==
    /\ pc = "drop" /\ k > 0 /\ m = 0
    /\ value_scale' = to /\ pc' = AfterLoops
    /\ UNCHANGED <<call, m, neg, to, k, working, digit, figures, exp>>

DropRound ==
    /\ pc = "drop" /\ k = 0
    /\ m' = IF Rounds /\ digit >= Ten \div 2 THEN m + 1 ELSE m
    /\ value_scale' = to /\ pc' = AfterLoops
    /\ UNCHANGED <<call, neg, to, k, working, digit, figures, exp>>

RescaleUp ==
    /\ pc = "rescale" /\ value_scale < to /\ m # 0
    /\ k' = to - value_scale /\ working' = m /\ pc' = "extend"
    /\ UNCHANGED <<call, m, neg, value_scale, to, digit, figures, exp>>

ExtendDigit ==
    /\ pc = "extend" /\ k > 0 /\ working * Ten <= Max96
    /\ working' = working * Ten /\ m' = working' /\ k' = k - 1
    /\ UNCHANGED <<call, neg, value_scale, to, digit, figures, exp, pc>>

\* Mutant of ExtendStop: the scale asked for is taken for the one reached.
ExtendStopShort ==
    /\ pc = "extend" /\ (k = 0 \/ working * Ten > Max96)
    /\ value_scale' = to /\ pc' = AfterLoops
    /\ UNCHANGED <<call, m, neg, to, k, working, digit, figures, exp>>

\* Every digit is there, or the next would not fit: the scale is what was reached.
ExtendStop ==
    /\ pc = "extend" /\ (k = 0 \/ working * Ten > Max96)
    /\ value_scale' = to - k /\ pc' = AfterLoops
    /\ UNCHANGED <<call, m, neg, to, k, working, digit, figures, exp>>

\* floor of a negative and ceil of a positive number with a fraction.
HasFraction == call.d.m % POWERS[call.d.s] # 0
Step ==
    /\ pc = "step"
    /\ LET away == HasFraction /\ neg = (call.op = "floor")
       IN  m' = IF away THEN m + 1 ELSE m
    /\ pc' = "done"
    /\ UNCHANGED <<call, neg, value_scale, to, k, working, digit, figures, exp>>

-----------------------------------------------------------------------------
(***************************************************************************)
(* round_dp_with_strategy.  The integer part is cut down in chunks of up   *)
(* to nine digits; `offset`, the same quotient, is scaled back up in the   *)
(* same chunks and subtracted to find the part that was cut off.           *)
(***************************************************************************)
\* What follows: round_sf may have to scale back up.
AfterRound == IF exp > 0 THEN "back" ELSE "done"

RoundDpKeeps ==
    /\ pc = "round_dp" /\ value_scale <= to
    /\ pc' = AfterRound
    /\ UNCHANGED <<call, m, neg, value_scale, to, k, working, digit, figures, exp>>

RoundDpZero ==
    /\ pc = "round_dp" /\ value_scale > to /\ m = 0
    /\ value_scale' = to /\ pc' = AfterRound
    /\ UNCHANGED <<call, m, neg, to, k, working, digit, figures, exp>>

RoundDpStart ==
    /\ pc = "round_dp" /\ value_scale > to /\ m # 0
    /\ k' = value_scale - to /\ pc' = "cut"
    /\ UNCHANGED <<call, m, neg, value_scale, to, working, digit, figures, exp>>

\* Mutants of CutChunk: nine digits are counted whatever was cut; none is.
CutChunkWhole ==
    /\ pc = "cut" /\ k > 0
    /\ m' = m \div POWERS[Chunk(k)] /\ k' = k - MAX_I32_SCALE
    /\ UNCHANGED <<call, neg, value_scale, to, working, digit, figures, exp, pc>>
CutChunkUncounted ==
    /\ pc = "cut" /\ k > 0
    /\ m' = m \div POWERS[Chunk(k)]
    /\ UNCHANGED <<call, neg, value_scale, to, k, working, digit, figures, exp, pc>>

CutChunk ==
    /\ pc = "cut" /\ k > 0
    /\ m' = m \div POWERS[Chunk(k)] /\ k' = k - Chunk(k)
    /\ UNCHANGED <<call, neg, value_scale, to, working, digit, figures, exp, pc>>

CutDone ==
    /\ pc = "cut" /\ k = 0
    /\ k' = value_scale - to /\ working' = m /\ pc' = "offset"
    /\ UNCHANGED <<call, m, neg, value_scale, to, digit, figures, exp>>

\* mul_by_u32 discards what overflows three words.
OffsetChunk ==
    /\ pc = "offset" /\ k > 0
    /\ working' = (working * POWERS[Chunk(k)]) % B3 /\ k' = k - Chunk(k)
    /\ UNCHANGED <<call, m, neg, value_scale, to, digit, figures, exp, pc>>

\* `decimal_portion`: what was cut off, and `cap`: half of the last place kept.
Portion == call.d.m - working
Cap == (Ten \div 2) * POWERS[value_scale - to - 1]

\* The match on the strategy: whether one is added to the magnitude kept.
Away(by) ==
    CASE by = "MidpointNearestEven"  -> Portion > Cap \/ (Portion = Cap /\ m % 2 = 1)
      [] by = "MidpointTowardZero"   -> Portion > Cap
      [] by = "MidpointAwayFromZero" -> Portion >= Cap
      [] by = "AwayFromZero"         -> Portion # 0
      [] by = "ToPositiveInfinity"   -> ~neg /\ Portion # 0
      [] by = "ToNegativeInfinity"   -> neg /\ Portion # 0
      [] by = "ToZero"               -> FALSE

\* from_parts: a zero loses its sign.
RoundDp ==
    /\ pc = "offset" /\ k = 0
    /\ m' = IF Away(call.by) THEN m + 1 ELSE m
    /\ neg' = (neg /\ m' # 0)
    /\ value_scale' = to /\ pc' = AfterRound
    /\ UNCHANGED <<call, to, k, working, digit, figures, exp>>

-----------------------------------------------------------------------------
(***************************************************************************)
(* round_sf_with_strategy.                                                 *)
(***************************************************************************)
SfZero ==
    /\ pc = "round_sf" /\ (m = 0 \/ call.n = 0)
    /\ m' = 0 /\ neg' = FALSE /\ value_scale' = 0 /\ pc' = "done"
    /\ UNCHANGED <<call, to, k, working, digit, figures, exp>>

SfStart ==
    /\ pc = "round_sf" /\ m # 0 /\ call.n # 0
    /\ working' = m /\ pc' = "count"
    /\ UNCHANGED <<call, m, neg, value_scale, to, k, digit, figures, exp>>

\* A digit per pass; the last two at once when what is left is a 1.
CountDigit ==
    /\ pc = "count" /\ working # 0
    /\ LET left == working \div Ten
       IN  IF left = 1
           THEN figures' = figures + 2 /\ working' = 0
           ELSE figures' = figures + 1 /\ working' = left
    /\ UNCHANGED <<call, m, neg, value_scale, to, k, digit, exp, pc>>

SfMore ==
    /\ pc = "count" /\ working = 0 /\ call.n > figures
    /\ to' = value_scale + call.n - figures /\ pc' = "rescale"
    /\ UNCHANGED <<call, m, neg, value_scale, k, working, digit, figures, exp>>

SfSame ==
    /\ pc = "count" /\ working = 0 /\ call.n = figures
    /\ pc' = "done"
    /\ UNCHANGED <<call, m, neg, value_scale, to, k, working, digit, figures, exp>>

\* The figures end within the fraction.
SfFraction ==
    /\ pc = "count" /\ working = 0 /\ call.n < figures /\ figures - call.n <= value_scale
    /\ to' = value_scale - (figures - call.n) /\ pc' = "round_dp"
    /\ UNCHANGED <<call, m, neg, value_scale, k, working, digit, figures, exp>>

\* Mutant of SfIntegral: scaled back by the digits of the fraction too.
SfIntegralOverscaled ==
    /\ pc = "count" /\ working = 0 /\ figures - call.n > value_scale
    /\ exp' = figures - call.n /\ value_scale' = figures - call.n
    /\ to' = 0 /\ pc' = "round_dp"
    /\ UNCHANGED <<call, m, neg, k, working, digit, figures>>

\* They end before the point.  The number is divided by Ten^exp first, which is
\* exact: the same mantissa with a scale of at most MAX_SCALE (see Division).
SfIntegral ==
    /\ pc = "count" /\ working = 0 /\ figures - call.n > value_scale
    /\ exp' = figures - call.n - value_scale /\ value_scale' = figures - call.n
    /\ to' = 0 /\ pc' = "round_dp"
    /\ UNCHANGED <<call, m, neg, k, working, digit, figures>>

\* checked_mul of an integer by up to Ten^19 at a time: exact, or an overflow
\* (see Mul).
ScaleBack ==
    /\ pc = "back"
    /\ LET some == SmallerOf(exp, MAX_I64_SCALE)
           p    == m * POWERS[some]
       IN  IF p > Max96
           THEN pc' = "none" /\ UNCHANGED <<m, exp>>
           ELSE m' = p /\ exp' = exp - some /\ pc' = IF exp = some THEN "done" ELSE "back"
    /\ UNCHANGED <<call, neg, value_scale, to, k, working, digit, figures>>

-----------------------------------------------------------------------------
NormalizeZero ==
    /\ pc = "normalize" /\ m = 0
    /\ neg' = FALSE /\ value_scale' = 0 /\ pc' = "done"
    /\ UNCHANGED <<call, m, to, k, working, digit, figures, exp>>

StripZero ==
    /\ pc = "normalize" /\ m # 0 /\ value_scale > 0 /\ m % Ten = 0
    /\ m' = m \div Ten /\ value_scale' = value_scale - 1
    /\ UNCHANGED <<call, neg, to, k, working, digit, figures, exp, pc>>

Normalized ==
    /\ pc = "normalize" /\ m # 0 /\ (value_scale = 0 \/ m % Ten # 0)
    /\ pc' = "done"
    /\ UNCHANGED <<call, m, neg, value_scale, to, k, working, digit, figures, exp>>

Next ==
    \/ RescaleSame \/ RescaleZero \/ RescaleDown \/ DropDigit \/ DropZero \/ DropRound
    \/ RescaleUp \/ ExtendDigit \/ ExtendStop \/ Step
    \/ RoundDpKeeps \/ RoundDpZero \/ RoundDpStart \/ CutChunk \/ CutDone \/ OffsetChunk \/ RoundDp
    \/ SfZero \/ SfStart \/ CountDigit \/ SfMore \/ SfSame \/ SfFraction \/ SfIntegral \/ ScaleBack
    \/ NormalizeZero \/ StripZero \/ Normalized

Spec == Init /\ [][Next]_vars

-----------------------------------------------------------------------------
(***************************************************************************)
(* The strategies by what they say of numbers: r * p stands for v, both    *)
(* with their sign.                                                        *)
(***************************************************************************)
Abs(n) == IF n < 0 THEN -n ELSE n

Follows(by, v, r, p) ==
    LET up     == r * p >= v
        down   == r * p <= v
        inner  == Abs(r * p) <= Abs(v)
        outer  == Abs(r * p) >= Abs(v)
        tie    == 2 * Abs(r * p - v) = p
        beside == Abs(r * p - v) < p
        near   == 2 * Abs(r * p - v) <= p
    IN  CASE by = "MidpointNearestEven"  -> near /\ (tie => r % 2 = 0)
          [] by = "MidpointTowardZero"   -> near /\ (tie => inner)
          [] by = "MidpointAwayFromZero" -> near /\ (tie => outer)
          [] by = "AwayFromZero"         -> beside /\ outer
          [] by = "ToPositiveInfinity"   -> beside /\ up
          [] by = "ToNegativeInfinity"   -> beside /\ down
          [] by = "ToZero"               -> beside /\ inner

\* The strategy of each operation.
Strategy == CASE call.op = "rescale" -> "MidpointAwayFromZero"
              [] call.op = "trunc"   -> "ToZero"
              [] call.op = "floor"   -> "ToNegativeInfinity"
              [] call.op = "ceil"    -> "ToPositiveInfinity"
              [] OTHER               -> call.by

\* The significant figures of a mantissa.
FiguresOf(v) == CHOOSE f \in 0..PowLimit : v < POWERS[f] /\ (f > 0 => POWERS[f - 1] <= v)

\* The digits each operation has to give up.
Surplus ==
    LET d == call.d
    IN  CASE call.op \in {"rescale", "trunc", "round_dp"} /\ d.s > call.n -> d.s - call.n
          [] call.op \in {"floor", "ceil"} -> d.s
          [] call.op = "round_sf" /\ d.m # 0 /\ FiguresOf(d.m) > call.n -> FiguresOf(d.m) - call.n
          [] OTHER -> 0

Sign(n) == IF n THEN -1 ELSE 1
Rescales == call.op \in {"rescale", "trunc"} \/ (call.op = "round_sf" /\ FiguresOf(call.d.m) < call.n)

\* The values of the routine's variables.
RoundingTypeOK ==
    /\ m \in Mantissa /\ neg \in BOOLEAN
    /\ working \in Mantissa /\ digit \in 0..(Ten - 1)
    /\ value_scale \in Nat /\ to \in Nat /\ k \in Nat
    /\ figures \in 0..(MAX_SCALE + 1) /\ exp \in 0..MAX_SCALE
    /\ pc \in {"idle", "rescale", "drop", "extend", "step", "round_dp", "cut", "offset", "round_sf",
               "count", "back", "normalize", "done", "none"}

\* Digits are given up by the strategy the operation names, on the signed value
\* and at the place asked for, however the loops cut the digits: rescale rounds
\* by its last digit alone, round_dp by the part it reconstructs, round_sf on
\* both sides of the point, floor and ceil by stepping from a truncation.
RoundsAsAsked ==
    pc = "done" /\ Surplus > 0 /\ ~(call.op = "round_sf" /\ call.n = 0) =>
        LET unit == POWERS[Surplus]
            r    == m * POWERS[call.d.s - value_scale]
        IN  r % unit = 0 /\ Follows(Strategy, Sign(call.d.neg) * call.d.m, Sign(neg) * (r \div unit), unit)

\* With no digit to give up the value stays as it is.  An operation that adds
\* digits adds as many as were asked for and fit, up to MAX_SCALE (none are asked
\* for beyond it: that they may be added all the same is what ScaleWithinMax says),
\* and normalize leaves no zero at the end.
ValueKept ==
    pc = "done" /\ Surplus = 0 =>
        /\ IF value_scale >= call.d.s
           THEN m = call.d.m * POWERS[IF m = 0 THEN 0 ELSE value_scale - call.d.s]
           ELSE m * POWERS[call.d.s - value_scale] = call.d.m
        /\ m # 0 => neg = call.d.neg
        /\ Rescales /\ m # 0 /\ value_scale < SmallerOf(to, MAX_SCALE) => m * Ten > Max96
        /\ call.op = "normalize" => value_scale = 0 \/ m % Ten # 0

\* round_sf has no answer only if no mantissa is one: every multiple of the last
\* place that the strategy allows exceeds 96 bits.
SfOverflows ==
    pc = "none" =>
        \A r \in 0..(Max96 \div POWERS[Surplus - call.d.s]) :
            ~Follows(Strategy, Sign(call.d.neg) * call.d.m, Sign(call.d.neg) * r, POWERS[Surplus])

\* Every call returns.
RoundingTerminates == pc # "idle" ~> pc \in {"done", "none"}

\* The documentation of rescale says that a scale above the maximum is brought
\* down to it; a decimal never has one.  The loop that adds digits does not look.
ScaleWithinMax == pc = "done" => value_scale <= MAX_SCALE
=============================================================================
