------------------------------- MODULE AddSub --------------------------------
(***************************************************************************)
(* add_impl and sub_impl (ops/add.rs): the sum and the difference of two   *)
(* decimals.  Short mantissas take a one-word path; otherwise the operand  *)
(* of the smaller scale is scaled up, within a double word, then within 96 *)
(* bits, then in a Buf24, one action per pass of the code's loops, and the *)
(* other added to or subtracted from it.  A result in the buffer ends in   *)
(* Buf24::rescale, whose actions are those of Rescale24.                   *)
(***************************************************************************)
EXTENDS Rescale24

VARIABLES
    x, y,       \* the operands d1, d2
    op,         \* "add" or "sub"
    a,          \* the mantissa that is scaled up: lhs, then low64 and high
    b,          \* the mantissa of rhs
    factor,     \* `rescale_factor`: powers of Ten by which `a` is still short
    buf,        \* the Buf24
    uw,         \* `upper_word`
    index,      \* the word of the buffer a carry or a borrow has reached
    wide,       \* the buffer before the addition (kept for the properties)
    result,     \* what is returned
    apc         \* where the routine is

avars == <<x, y, op, a, b, factor, buf, uw, index, wide, result, apc>>
allvars == <<avars, rvars>>
call == <<x, y, op>>

-----------------------------------------------------------------------------
\* `subtract`: magnitudes are subtracted.
Minus == (op = "sub") # (x.neg # y.neg)

\* The common scale, and the sign of the result when the scaled operand is
\* taken as the larger.
CommonScale == IF x.s < y.s THEN y.s ELSE x.s
LhsNegative == IF y.s < x.s THEN Minus # x.neg ELSE x.neg

Overflow == "overflow"
Return(r) == result' = r /\ apc' = "done"
Fail == apc' = Overflow /\ UNCHANGED result

-----------------------------------------------------------------------------
(***************************************************************************)
(* aligned_add.  A number of 96 bits is a u32 `hi` and a u64 `low64`; sums *)
(* and differences wrap, and a wrap is seen in the result being on the     *)
(* wrong side of an operand.                                               *)
(***************************************************************************)
Join(hi, low64) == hi * B2 + low64

\* Mutant of WrappingSub96: the borrow from the high word is dropped.
WrappingSubLoose(l, r) ==
    LET low == (Low64(l) - Low64(r)) % B2
        hi  == (Hi(l) - Hi(r)) % Base
    IN  [v |-> Join(hi, low), borrow |-> hi > Hi(l)]

\* The difference modulo 2^96, and whether the second was the larger.
WrappingSub96(l, r) ==
    LET low == (Low64(l) - Low64(r)) % B2
        hi  == (Hi(l) - Hi(r)) % Base
        hi1 == (hi - 1) % Base
    IN  IF low > Low64(l)
        THEN [v |-> Join(hi1, low), borrow |-> hi1 >= Hi(l)]
        ELSE [v |-> Join(hi, low), borrow |-> hi > Hi(l)]

\* The sum modulo 2^96, and whether it exceeded 96 bits.
WrappingAdd96(l, r) ==
    LET low == (Low64(l) + Low64(r)) % B2
        hi  == (Hi(l) + Hi(r)) % Base
        hi1 == (hi + 1) % Base
    IN  IF low < Low64(l)
        THEN [v |-> Join(hi1, low), carry |-> hi1 <= Hi(l)]
        ELSE [v |-> Join(hi, low), carry |-> hi < Hi(l)]

\* flip_sign: two's complement.
Negated(m) ==
    LET low == (B2 - Low64(m)) % B2
        hi  == (Base - 1) - Hi(m)
    IN  Join(IF low = 0 THEN hi + 1 ELSE hi, low)

\* reduce_scale: a sum of 2^96 + m loses its last digit, rounded half to even.
\* Word by word the code divides 2^96 + m by ten.
Reduced(m) ==
    LET q         == (B3 + m) \div Ten
        remainder_ == (B3 + m) % Ten
        half      == Ten \div 2
    IN  IF remainder_ >= half /\ (remainder_ > half \/ q % 2 = 1) THEN q + 1 ELSE q

AlignedSubtract(l, r, neg, s) ==
    LET d == WrappingSub96(l, r)
    IN  Return(IF d.borrow THEN FromParts(Negated(d.v), ~neg, s) ELSE FromParts(d.v, neg, s))

\* Mutant of AlignedAdd: that no scale is left goes unnoticed.
AlignedAddUnscaled(l, r, neg, s) ==
    LET t == WrappingAdd96(l, r)
    IN  IF Minus THEN AlignedSubtract(l, r, neg, s)
        ELSE Return(IF t.carry THEN FromParts(Reduced(t.v), neg, s - 1) ELSE FromParts(t.v, neg, s))

AlignedAdd(l, r, neg, s) ==
    LET t == WrappingAdd96(l, r)
    IN  IF Minus THEN AlignedSubtract(l, r, neg, s)
        ELSE IF ~t.carry THEN Return(FromParts(t.v, neg, s))
        ELSE IF s = 0 THEN Fail
        ELSE Return(FromParts(Reduced(t.v), neg, s - 1))

\* fast_add: from_parts_raw keeps the scale and the sign of the flags given.
FastAdd(l, r, neg, s) ==
    Return(IF Minus
           THEN IF l < r THEN FromParts(r - l, ~neg, s) ELSE FromParts(l - r, neg, s)
           ELSE FromParts(l + r, neg, s))

-----------------------------------------------------------------------------
Started(d1, d2, o) ==
    /\ x = d1 /\ y = d2 /\ op = o
    /\ a = 0 /\ b = 0 /\ factor = 0
    /\ buf = 0 /\ uw = 0 /\ index = 0 /\ wide = 0
    /\ result = ZERO /\ apc = "start"
    /\ RescaleIdle

AddInit == \E d1, d2 \in Decimal, o \in {"add", "sub"} : Started(d1, d2, o)

\* 0 + y, 0 - y, x + 0 and x - 0 copy the other operand, its scale included.
AddZero ==
    /\ apc = "start" /\ (x.m = 0 \/ y.m = 0)
    /\ Return(IF x.m # 0 THEN x
              ELSE IF op = "sub" /\ y.m # 0 THEN [y EXCEPT !.neg = ~y.neg]
              ELSE y)
    /\ UNCHANGED <<call, a, b, factor, buf, uw, index, wide, rvars>>

\* rescale32: what one word becomes, if a word holds it.
Rescalable32(m, k) == k <= MAX_I32_SCALE /\ m * POWERS[k] < Base

FastPath ==
    /\ OneWord(x) /\ OneWord(y)
    /\ y.s < x.s => Rescalable32(y.m, x.s - y.s)
    /\ x.s < y.s => Rescalable32(x.m, y.s - x.s)

AddFast ==
    /\ apc = "start" /\ x.m # 0 /\ y.m # 0 /\ FastPath
    /\ FastAdd(x.m * POWERS[CommonScale - x.s], y.m * POWERS[CommonScale - y.s],
               x.neg, CommonScale)
    /\ UNCHANGED <<call, a, b, factor, buf, uw, index, wide, rvars>>

AddSameScale ==
    /\ apc = "start" /\ x.m # 0 /\ y.m # 0 /\ ~FastPath /\ x.s = y.s
    /\ AlignedAdd(x.m, y.m, x.neg, x.s)
    /\ UNCHANGED <<call, a, b, factor, buf, uw, index, wide, rvars>>

\* The operand of the smaller scale becomes lhs.
StartScaling ==
    /\ apc = "start" /\ x.m # 0 /\ y.m # 0 /\ ~FastPath /\ x.s # y.s
    /\ IF y.s < x.s
       THEN a' = y.m /\ b' = x.m /\ factor' = x.s - y.s
       ELSE a' = x.m /\ b' = y.m /\ factor' = y.s - x.s
    /\ apc' = IF a' < Base THEN "low" ELSE IF a' < B2 THEN "mid" ELSE "high"
    /\ UNCHANGED <<call, buf, uw, index, wide, result, rvars>>

Power(k) == POWERS[Chunk(k)]

\* while low64 <= U32_MAX: the product fits a double word.
ScaleLow ==
    /\ apc = "low"
    /\ IF factor <= MAX_I32_SCALE
       THEN AlignedAdd(a * POWERS[factor], b, LhsNegative, CommonScale) /\ UNCHANGED <<a, factor>>
       ELSE /\ a' = a * POWERS[MAX_I32_SCALE]
            /\ factor' = factor - MAX_I32_SCALE
            /\ apc' = IF a' < Base THEN "low" ELSE "mid"
            /\ UNCHANGED result
    /\ UNCHANGED <<call, b, buf, uw, index, wide, rvars>>

\* while high == 0: the product of two words fits three.
ScaleMid ==
    /\ apc = "mid"
    /\ a' = a * Power(factor)
    /\ factor' = factor - MAX_I32_SCALE
    /\ IF factor - MAX_I32_SCALE <= 0
       THEN AlignedAdd(a * Power(factor), b, LhsNegative, CommonScale)
       ELSE apc' = (IF a' < B2 THEN "mid" ELSE "high") /\ UNCHANGED result
    /\ UNCHANGED <<call, b, buf, uw, index, wide, rvars>>

\* The loop that stays in 96 bits as long as it can.
ScaleHigh ==
    /\ apc = "high"
    /\ factor' = factor - MAX_I32_SCALE
    /\ LET v == a * Power(factor)
       IN  IF v >= B3
           THEN /\ buf' = v /\ uw' = UpperWord(v) /\ apc' = "buffer"
                /\ UNCHANGED <<a, result>>
           ELSE /\ a' = v
                /\ IF factor - MAX_I32_SCALE <= 0
                   THEN AlignedAdd(v, b, LhsNegative, CommonScale)
                   ELSE apc' = "high" /\ UNCHANGED result
                /\ UNCHANGED <<buf, uw>>
    /\ UNCHANGED <<call, b, index, wide, rvars>>

\* Mutant of ScaleBuffer: the word a product grows into is not counted.
ScaleBufferShort ==
    /\ apc = "buffer" /\ factor > 0
    /\ buf' = buf * Power(factor)
    /\ factor' = factor - MAX_I32_SCALE
    /\ UNCHANGED <<call, a, b, uw, index, wide, result, apc, rvars>>

\* while rescale_factor > 0: words 0..upper_word times the power, and a word
\* more if the product needs it.
ScaleBuffer ==
    /\ apc = "buffer" /\ factor > 0
    /\ buf' = buf * Power(factor)
    /\ uw' = IF buf' >= Weight[uw + 1] THEN uw + 1 ELSE uw
    /\ factor' = factor - MAX_I32_SCALE
    /\ UNCHANGED <<call, a, b, index, wide, result, apc, rvars>>

-----------------------------------------------------------------------------
\* Word i of the buffer.
Part(v, i) == (v \div Weight[i]) % Base
WithPart(v, i, w) == v + (w - Part(v, i)) * Weight[i]
WithLow96(v, m) == (v - (v % B3)) + m

\* Mutant of AddBuffer: a factor of zero is left to the loop before it.
AddBufferLate ==
    /\ apc = "buffer" /\ factor < 0 /\ ~Minus
    /\ buf' = WithLow96(buf, WrappingAdd96(buf % B3, b).v) /\ apc' = "rescale"
    /\ index' = 3 /\ wide' = buf
    /\ UNCHANGED <<call, a, b, factor, uw, result, rvars>>

\* "Do the add": rhs has three words at most.
AddBuffer ==
    /\ apc = "buffer" /\ factor <= 0 /\ ~Minus
    /\ LET t == WrappingAdd96(buf % B3, b)
       IN  buf' = WithLow96(buf, t.v) /\ apc' = IF t.carry THEN "carry" ELSE "rescale"
    /\ index' = 3 /\ wide' = buf
    /\ UNCHANGED <<call, a, b, factor, uw, result, rvars>>

SubtractBuffer ==
    /\ apc = "buffer" /\ factor <= 0 /\ Minus
    /\ LET t == WrappingSub96(buf % B3, b)
       IN  buf' = WithLow96(buf, t.v) /\ apc' = IF t.borrow THEN "borrow" ELSE "rescale"
    /\ index' = 3 /\ wide' = buf
    /\ UNCHANGED <<call, a, b, factor, uw, result, rvars>>

\* One pass of the loop that carries into the words above the third.
Carry ==
    /\ apc = "carry"
    /\ IF uw < index
       THEN buf' = WithPart(buf, index, 1) /\ uw' = index /\ apc' = "rescale" /\ UNCHANGED index
       ELSE LET w == (Part(buf, index) + 1) % Base
            IN  /\ buf' = WithPart(buf, index, w)
                /\ UNCHANGED uw
                /\ IF w > 0 \/ index = 5
                   THEN apc' = "rescale" /\ UNCHANGED index
                   ELSE index' = index + 1 /\ UNCHANGED apc
    /\ UNCHANGED <<call, a, b, factor, wide, result, rvars>>

\* One pass of the loop that borrows from them.  It stops at the first word
\* that is positive AFTER the subtraction.  (The early return inside it asks
\* for upper_word below 3, which AddTypeOK rules out.)
Borrow ==
    /\ apc = "borrow"
    /\ LET w == (Part(buf, index) - 1) % Base
       IN  /\ buf' = WithPart(buf, index, w)
           /\ IF w > 0 \/ index = 5
              THEN apc' = "rescale" /\ UNCHANGED index
              ELSE index' = index + 1 /\ UNCHANGED apc
    /\ UNCHANGED <<call, a, b, factor, uw, wide, result, rvars>>

\* Words above upper_word are not read again.
CallRescale ==
    /\ apc = "rescale"
    /\ RescaleCall([v |-> buf % Weight[uw + 1], u |-> uw, s |-> CommonScale])
    /\ apc' = "rescaling"
    /\ UNCHANGED <<call, a, b, factor, buf, uw, index, wide, result>>

Rescaling == apc = "rescaling" /\ RescaleNext /\ UNCHANGED avars

AddReturn ==
    /\ apc = "rescaling" /\ rpc = "done"
    /\ Return(FromParts(val, LhsNegative, scale))
    /\ UNCHANGED <<call, a, b, factor, buf, uw, index, wide, rvars>>

AddOverflow ==
    /\ apc = "rescaling" /\ rpc = "overflow"
    /\ Fail
    /\ UNCHANGED <<call, a, b, factor, buf, uw, index, wide, rvars>>

\* saturating_add and saturating_sub: an overflow is replaced by the bound on the
\* side of the first operand.
Saturated == IF apc = Overflow THEN [neg |-> x.neg, m |-> Max96, s |-> 0] ELSE result

AddNext ==
    \/ AddZero \/ AddFast \/ AddSameScale \/ StartScaling
    \/ ScaleLow \/ ScaleMid \/ ScaleHigh \/ ScaleBuffer
    \/ AddBuffer \/ SubtractBuffer \/ Carry \/ Borrow
    \/ CallRescale \/ Rescaling \/ AddReturn \/ AddOverflow

AddSpec == AddInit /\ [][AddNext]_allvars

-----------------------------------------------------------------------------
\* What the call asks for, over the common scale.
Signed(d) == (IF d.neg THEN -1 ELSE 1) * d.m * POWERS[CommonScale - d.s]
ExactSum == IF op = "add" THEN Signed(x) + Signed(y) ELSE Signed(x) - Signed(y)
Magnitude == IF ExactSum < 0 THEN -ExactSum ELSE ExactSum

\* The borrow loop miscounts: a fourth word of zero wraps and ends it with the
\* borrow lost, one of 1 becomes 0 and the fifth word is borrowed from too.
BorrowMiscounts == Minus /\ wide >= Weight[4] /\ wide % B3 < b /\ Part(wide, 3) <= 1

\* The values of the routine's variables: what it returns is a decimal, and
\* the words it indexes are those of the buffer.
AddTypeOK ==
    /\ x \in Decimal /\ y \in Decimal /\ op \in {"add", "sub"}
    /\ a \in Mantissa /\ b \in Mantissa
    /\ factor \in -MAX_I32_SCALE..MAX_SCALE
    /\ buf \in 0..(Weight[6] - 1)
    /\ uw \in 0..5 /\ (apc \in {"carry", "borrow", "rescale"} => uw \in 3..5 /\ index \in 3..5)
    /\ result \in Decimal
    /\ apc \in {"start", "low", "mid", "high", "buffer", "carry", "borrow", "rescale",
                "rescaling", "done", Overflow}

\* Scaling loses nothing: at every pass of every loop what is in hand, times
\* the powers of ten still due, is the operand over the common scale.
ScalingExact ==
    LET lhs  == IF y.s < x.s THEN y ELSE x
        due  == IF factor > 0 THEN POWERS[factor] ELSE 1
        full == lhs.m * POWERS[CommonScale - lhs.s]
    IN  /\ apc \in {"low", "mid", "high"} => a * due = full
        /\ apc = "buffer" => /\ buf * due = full
                             /\ Weight[uw] <= buf /\ buf < Weight[uw + 1]

\* A zero operand leaves the other as it is, scale and all; else the result is
\* the exact sum rounded once, half to even, keeping the digits 96 bits can
\* hold, with the sign of the sum; overflow is reported only for sums whose
\* integral part exceeds 96 bits, and the bound that saturates them is the one they
\* exceed.  (For the borrows excluded here, see DifferenceRounded.)
SumRounded == ~BorrowMiscounts =>
    /\ apc = "done" =>
        /\ IF x.m = 0 \/ y.m = 0
           THEN result.m * POWERS[CommonScale - result.s] = Magnitude
           ELSE IsRoundingOf(result, Magnitude, CommonScale)
        /\ result.m # 0 => (result.neg <=> ExactSum < 0)
    /\ apc = Overflow =>
        /\ HalfEven(Magnitude, POWERS[CommonScale]) > Max96
        /\ Saturated.neg <=> ExactSum < 0

\* Every addition returns.
AddTerminates == <>(apc \in {"done", Overflow})

\* What the documentation says of subtraction, without exception: the
\* difference, with no error but the rounding.  The borrow loop of
\* unaligned_add breaks it.
DifferenceRounded ==
    apc = "done" /\ x.m # 0 /\ y.m # 0 => IsRoundingOf(result, Magnitude, CommonScale)
=============================================================================
