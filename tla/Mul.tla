--------------------------------- MODULE Mul ---------------------------------
(***************************************************************************)
(* mul_impl (ops/mul.rs): the product of two decimals.  Two one-word       *)
(* mantissas are multiplied and rounded in 64 bits; otherwise the product  *)
(* of up to six words is put together from partial products of words, and  *)
(* Buf24::rescale, whose actions are those of Rescale24, brings it back.   *)
(***************************************************************************)
EXTENDS Rescale24

\* A product of two words vanishes when more digits are dropped than a double
\* word has: the code returns zero without dividing.
ASSUME VanishAssumption == 2 * (Base - 1) * (Base - 1) <= POWERS[MAX_I64_SCALE + 1]

VARIABLES
    d1, d2,     \* the operands
    product,    \* the Buf24 of the partial products
    returned,   \* the result
    mpc         \* where mul_impl is

mvars == <<d1, d2, product, returned, mpc>>
mulvars == <<mvars, rvars>>

negative == d1.neg # d2.neg
scaleSum == d1.s + d2.s

-----------------------------------------------------------------------------
(***************************************************************************)
(* The partial products.  Every intermediate is a u64 (below B2); the code *)
(* detects a carry of a wrapping_add by the sum being below an addend.     *)
(***************************************************************************)
WrappingAdd(a, b) == (a + b) % B2
\* Mutant of Carried: adding zero carries.
CarriedOften(sum, addend) == IF sum <= addend THEN 1 ELSE 0

Carried(sum, addend) == IF sum < addend THEN 1 ELSE 0

\* mul_by_32bit_lhs: a word by two or three words.
MulByWord(w, m) ==
    LET t0 == w * Lo(m)
        t1 == WrappingAdd(w * Mid(m), t0 \div Base)
        t2 == WrappingAdd(t1 \div Base, w * Hi(m))
    IN  Lo(t0) + Base * Lo(t1) + B2 * (IF Hi(m) > 0 THEN t2 ELSE t1 \div Base)

\* ll * rl, ll * rm, lm * rl: the two low words, and what carries into the third.
LowProducts(a, b) ==
    LET ll == Lo(a) * Lo(b)
        lm == WrappingAdd(Lo(a) * Mid(b), ll \div Base)
        ml == WrappingAdd(Mid(a) * Lo(b), lm)
    IN  [low |-> Lo(ll) + Base * Lo(ml), carry |-> (ml \div Base) + Base * Carried(ml, lm)]

\* All nine partial products, or the first four when both high words are zero.
MulWords(a, b) ==
    LET lows == LowProducts(a, b)
        mm   == Mid(a) * Mid(b) + lows.carry
        lh   == Lo(a) * Hi(b)
        s5   == WrappingAdd(mm, lh)
        hl   == Hi(a) * Lo(b)
        s6   == WrappingAdd(s5, hl)
        up6  == Base * (Carried(s5, lh) + Carried(s6, hl)) + (s6 \div Base)
        s7   == WrappingAdd(Mid(a) * Hi(b), up6)
        hm   == Hi(a) * Mid(b)
        s8   == WrappingAdd(s7, hm)
        up8  == Base * (Carried(s7, up6) + Carried(s8, hm)) + (s8 \div Base)
    IN  IF Hi(a) = 0 /\ Hi(b) = 0
        THEN lows.low + B2 * mm
        ELSE lows.low + B2 * Lo(s6) + B3 * Lo(s8) + B3 * Base * (Hi(a) * Hi(b) + up8)

LongProduct(a, b) ==
    IF a < Base THEN MulByWord(a, b)
    ELSE IF b < Base THEN MulByWord(b, a)
    ELSE MulWords(a, b)

\* The product of two words, its surplus digits rounded half to even in a u64.
FastRounded(low64, k) ==
    LET power     == POWERS[k]
        tmp       == low64 \div power
        remainder_ == low64 - tmp * power
        half      == power \div 2
    IN  IF remainder_ >= half /\ (remainder_ > half \/ tmp % 2 = 1) THEN tmp + 1 ELSE tmp

-----------------------------------------------------------------------------
Returns(r) == returned' = r /\ mpc' = "done"

MulStarted(a, b) ==
    /\ d1 = a /\ d2 = b
    /\ product = 0 /\ returned = ZERO /\ mpc = "start"
    /\ RescaleIdle

MulInit == \E a, b \in Decimal : MulStarted(a, b)

\* Zero times anything is zero, with no digits kept.
MulZero ==
    /\ mpc = "start" /\ (d1.m = 0 \/ d2.m = 0)
    /\ Returns(ZERO)
    /\ UNCHANGED <<d1, d2, product, rvars>>

\* Two one-word mantissas.
MulFast ==
    /\ mpc = "start" /\ d1.m # 0 /\ d2.m # 0
    /\ OneWord(d1) /\ OneWord(d2)
    /\ Returns(IF scaleSum <= MAX_SCALE THEN FromParts(d1.m * d2.m, negative, scaleSum)
              ELSE IF scaleSum > MAX_SCALE + MAX_I64_SCALE THEN ZERO
              ELSE FromParts(FastRounded(d1.m * d2.m, scaleSum - MAX_SCALE), negative, MAX_SCALE))
    /\ UNCHANGED <<d1, d2, product, rvars>>

\* Anything longer goes through the buffer.
MulMultiply ==
    /\ mpc = "start" /\ d1.m # 0 /\ d2.m # 0 /\ ~(OneWord(d1) /\ OneWord(d2))
    /\ product' = LongProduct(d1.m, d2.m)
    /\ mpc' = "product"
    /\ UNCHANGED <<d1, d2, returned, rvars>>

\* Mutant of MulFits: the scale is not looked at.
MulFitsAnyScale ==
    /\ mpc = "product" /\ UpperWord(product) <= 2
    /\ Returns(FromParts(product, negative, scaleSum))
    /\ UNCHANGED <<d1, d2, product, rvars>>

\* A product that fits with its scale is returned as it is.
MulFits ==
    /\ mpc = "product" /\ UpperWord(product) <= 2 /\ scaleSum <= MAX_SCALE
    /\ Returns(FromParts(product, negative, scaleSum))
    /\ UNCHANGED <<d1, d2, product, rvars>>

\* Mutant of MulRescale: the scale is cut before the digits are.
MulRescaleCut ==
    /\ mpc = "product" /\ (UpperWord(product) > 2 \/ scaleSum > MAX_SCALE)
    /\ RescaleCall([v |-> product, u |-> UpperWord(product), s |-> SmallerOf(scaleSum, MAX_SCALE)])
    /\ mpc' = "rescale"
    /\ UNCHANGED <<d1, d2, product, returned>>

\* Otherwise it is rescaled.
MulRescale ==
    /\ mpc = "product" /\ (UpperWord(product) > 2 \/ scaleSum > MAX_SCALE)
    /\ RescaleCall([v |-> product, u |-> UpperWord(product), s |-> scaleSum])
    /\ mpc' = "rescale"
    /\ UNCHANGED <<d1, d2, product, returned>>

MulRescaling == mpc = "rescale" /\ RescaleNext /\ UNCHANGED mvars

\* The result of the rescale is the result of the multiplication.
MulReturn ==
    /\ mpc = "rescale" /\ rpc = "done"
    /\ Returns(FromParts(val, negative, scale))
    /\ UNCHANGED <<d1, d2, product, rvars>>

MulOverflow ==
    /\ mpc = "rescale" /\ rpc = "overflow"
    /\ mpc' = "overflow"
    /\ UNCHANGED <<d1, d2, product, returned, rvars>>

MulNext ==
    \/ MulZero \/ MulFast
    \/ MulMultiply \/ MulFits \/ MulRescale
    \/ MulRescaling \/ MulReturn \/ MulOverflow

MulSpec == MulInit /\ [][MulNext]_mulvars

-----------------------------------------------------------------------------
\* The values of the routine's variables: what it returns is a decimal, and
\* never a negative zero.
MulTypeOK ==
    /\ d1 \in Decimal /\ d2 \in Decimal
    /\ returned \in Decimal /\ (returned.m = 0 => ~returned.neg)
    /\ mpc \in {"start", "product", "rescale", "done", "overflow"}
    /\ product \in 0..(Weight[6] - 1)

\* The buffer holds the exact product of the mantissas: no carry between the
\* partial products is lost, nor counted twice.
MulProductExact == mpc \in {"product", "rescale"} => product = d1.m * d2.m

\* What is asked of the routine and what it has answered so far.
MulAsked == [v |-> d1.m * d2.m, s |-> scaleSum, neg |-> negative]
MulAnswer == [kind |-> CASE mpc = "done" -> "decimal" [] mpc = "overflow" -> "overflow" [] OTHER -> "none",
              d |-> IF mpc = "done" THEN returned ELSE ZERO]
Promise == INSTANCE RoundedResult WITH asked <- MulAsked, answer <- MulAnswer

\* The multiplication implements RoundedResult: it answers, once, with the exact
\* product rounded once, half to even, with the sign of the operands and as many
\* digits as 96 bits and MAX_SCALE allow, or reports an overflow that is one.
MulImplements == Promise!PromiseSpec
=============================================================================
