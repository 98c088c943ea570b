------------------------------- MODULE Scaling --------------------------------
(***************************************************************************)
(* What division and remainder share: Buf12::find_scale (ops/common.rs),   *)
(* by which they choose how many digits to scale by in one pass, and the   *)
(* shift that brings a divisor to the top of its words; and the powers by  *)
(* which division takes zeros off again (unscale).                         *)
(***************************************************************************)
EXTENDS DecimalBase, Sequences

CONSTANTS
    UnscaleChunk,   \* digits removed at a time by the first loop of unscale (8)
    UnscaleSteps    \* digits removed by the steps after it (<<4, 2, 1>>)

ASSUME UnscaleAssumption ==
    /\ UnscaleChunk \in 1..MAX_I32_SCALE
    /\ UnscaleSteps \in Seq(1..MAX_I32_SCALE)

None == -1

\* Mutant of FindScale: the low words are not compared.
FindScaleByHigh(q, s) ==
    LET fits(k) == Hi(q) <= Hi(POWER_OVERFLOW(k)) /\ s + k <= MAX_SCALE
    IN  CHOOSE k \in 0..MAX_I32_SCALE : fits(k) /\ \A j \in (k + 1)..MAX_I32_SCALE : ~fits(j)

\* Buf12::find_scale: the power the quotient can be scaled by, if any.  The
\* high words of the overflow table are searched, then the low words compared.
FindScale(q, s) ==
    LET maxhi(k) == Hi(POWER_OVERFLOW(k))
        maxlo(k) == Low64(POWER_OVERFLOW(k))
        top      == MAX_SCALE - s
        found    == CHOOSE k \in 1..MAX_I32_SCALE :
                        /\ Hi(q) <= maxhi(k)
                        /\ k = MAX_I32_SCALE \/ Hi(q) > maxhi(k + 1)
        checked  == IF Hi(q) = maxhi(found) /\ Low64(q) > maxlo(found) THEN found - 1 ELSE found
    IN  IF Hi(q) > maxhi(1) THEN (IF s < 0 THEN None ELSE 0)
        ELSE IF s > MAX_SCALE - MAX_I32_SCALE /\ Hi(q) < maxhi(top) THEN top
        ELSE IF s <= MAX_SCALE - MAX_I32_SCALE /\ q <= POWER_OVERFLOW(MAX_I32_SCALE) THEN MAX_I32_SCALE
        ELSE IF checked + s < 0 THEN None ELSE checked

\* `leading_zeros`: what a divisor of more than one word is multiplied by until its
\* top bit is set; whole is one past the largest number of as many words.
TopShift(d, whole) == 2^(CHOOSE k \in 0..(WordBits - 1) : d * 2^k < whole /\ 2 * (d * 2^k) >= whole)
=============================================================================
