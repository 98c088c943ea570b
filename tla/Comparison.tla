------------------------------ MODULE Comparison ------------------------------
(***************************************************************************)
(* cmp_impl (ops/cmp.rs): the order of two decimals.  After the signs, the *)
(* mantissa with the smaller scale is scaled up, up to nine digits a pass, *)
(* and an overflow of 96 bits on the way decides the order.  Remainder     *)
(* enters at cmp_internal, which has no signs.                             *)
(***************************************************************************)
EXTENDS DecimalBase

VARIABLES
    left, right,    \* the operands of cmp_internal: [m, s]; m is scaled in place
    diff,           \* `diff`: digits the one of the smaller scale still lacks
    order,          \* the answer
    cpc             \* where the routine is

cvars == <<left, right, diff, order, cpc>>

Orders == {"Less", "Equal", "Greater"}
Reversed(o) == CASE o = "Less" -> "Greater" [] o = "Greater" -> "Less" [] OTHER -> "Equal"

Unscaled == [m |-> 0, s |-> 0]
CompareIdle ==
    /\ left = Unscaled /\ right = Unscaled /\ diff = 0
    /\ order = "Equal" /\ cpc = "idle"

-----------------------------------------------------------------------------
\* Mutant of CompareCall: the difference keeps its sign.
CompareCallSigned(a, b) ==
    /\ left' = [m |-> a.m, s |-> a.s]
    /\ right' = [m |-> b.m, s |-> b.s]
    /\ diff' = b.s - a.s
    /\ cpc' = IF a.s = b.s THEN "compare" ELSE "scale"
    /\ UNCHANGED order

\* Enter cmp_internal.
CompareCall(a, b) ==
    /\ left' = [m |-> a.m, s |-> a.s]
    /\ right' = [m |-> b.m, s |-> b.s]
    /\ diff' = IF a.s < b.s THEN b.s - a.s ELSE a.s - b.s
    /\ cpc' = IF a.s = b.s THEN "compare" ELSE "scale"
    /\ UNCHANGED order

\* cmp_impl: a zero, then different signs; two negatives change places.
CompareSigned(a, b) ==
    LET positive(d) == d.m # 0 /\ ~d.neg
    IN  /\ cpc = "idle"
        /\ IF a.m = 0 \/ b.m = 0 \/ a.neg # b.neg
           THEN /\ order' = IF b.m = 0 THEN (IF a.m = 0 THEN "Equal" ELSE IF a.neg THEN "Less" ELSE "Greater")
                            ELSE IF positive(b) THEN "Less" ELSE "Greater"
                /\ cpc' = "ordered"
                /\ UNCHANGED <<left, right, diff>>
           ELSE IF a.neg THEN CompareCall(b, a) ELSE CompareCall(a, b)

\* Mutant of ScalePass: the overflow answers the wrong way round.
ScalePassSwapped(d, over) ==
    LET p == d.m * POWERS[Chunk(diff)]
    IN  IF p > Max96
        THEN order' = Reversed(over) /\ cpc' = "ordered" /\ diff' = diff
        ELSE /\ diff' = diff - MAX_I32_SCALE
             /\ cpc' = IF diff <= MAX_I32_SCALE THEN "compare" ELSE "scale"
             /\ order' = order

\* A pass of rescale over the mantissa of d.  One that no longer fits 96 bits is
\* the larger, whatever the other is.
ScalePass(d, over) ==
    LET p == d.m * POWERS[Chunk(diff)]
    IN  IF p > Max96
        THEN order' = over /\ cpc' = "ordered" /\ diff' = diff
        ELSE /\ diff' = diff - MAX_I32_SCALE
             /\ cpc' = IF diff <= MAX_I32_SCALE THEN "compare" ELSE "scale"
             /\ order' = order

Scaled(d) ==
    LET p == d.m * POWERS[Chunk(diff)]
    IN  IF p > Max96 THEN d ELSE [d EXCEPT !.m = p]

ScaleLeft ==
    /\ cpc = "scale" /\ left.s < right.s
    /\ ScalePass(left, "Greater") /\ left' = Scaled(left) /\ UNCHANGED right

ScaleRight ==
    /\ cpc = "scale" /\ left.s > right.s
    /\ ScalePass(right, "Less") /\ right' = Scaled(right) /\ UNCHANGED left

\* High words first, then the lower two.
CompareWords ==
    /\ cpc = "compare"
    /\ order' = IF Hi(left.m) # Hi(right.m)
                THEN (IF Hi(left.m) < Hi(right.m) THEN "Less" ELSE "Greater")
                ELSE IF Low64(left.m) < Low64(right.m) THEN "Less"
                ELSE IF Low64(left.m) > Low64(right.m) THEN "Greater" ELSE "Equal"
    /\ cpc' = "ordered"
    /\ UNCHANGED <<left, right, diff>>

CompareNext == ScaleLeft \/ ScaleRight \/ CompareWords

Canonical == INSTANCE Arithmetic

\* What Hash hashes: the words and the flags of the normalised number.
Hashed(d) == Canonical!Stripped(d)

-----------------------------------------------------------------------------
(***************************************************************************)
(* The order of the numbers, without scaling beyond what is compared.      *)
(***************************************************************************)
MagnitudeOrder(a, b) ==
    LET below(m, n, k) == m <= (n - 1) \div POWERS[k]      \* m * Ten^k < n
        less    == IF a.s <= b.s THEN below(a.m, b.m, b.s - a.s) ELSE ~below(b.m, a.m + 1, a.s - b.s)
        greater == IF a.s <= b.s THEN ~below(a.m, b.m + 1, b.s - a.s) ELSE below(b.m, a.m, a.s - b.s)
    IN  IF less THEN "Less" ELSE IF greater THEN "Greater" ELSE "Equal"

\* The sign of a number: a zero has none.
SignOf(d) == IF d.m = 0 THEN 0 ELSE IF d.neg THEN -1 ELSE 1

NumberOrder(a, b) ==
    IF SignOf(a) # SignOf(b) THEN (IF SignOf(a) < SignOf(b) THEN "Less" ELSE "Greater")
    ELSE IF SignOf(a) = 0 THEN "Equal"
    ELSE IF SignOf(a) = 1 THEN MagnitudeOrder(a, b) ELSE Reversed(MagnitudeOrder(a, b))
=============================================================================
