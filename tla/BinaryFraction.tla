---------------------------- MODULE BinaryFraction ----------------------------
(***************************************************************************)
(* from_f64, from_f32 and base2_to_decimal (decimal.rs): a binary floating *)
(* point number becomes a decimal.  Each factor of two that the exponent   *)
(* asks for is taken from the mantissa, or a factor of five is put in its  *)
(* place, until 96 bits are full; then digits are dropped, one rounding    *)
(* each.  "Five" is half the radix.                                        *)
(***************************************************************************)
EXTENDS DecimalBase

CONSTANTS
    Format      \* of f64 (TRUE) and f32 (FALSE): [fraction, bias, infinite, digits]

VARIABLES
    float,          \* the argument: [is64, neg, biased, fraction]
    remove,         \* `remove_excess_bits`
    bits,           \* `bits`
    exponent5,      \* `exponent5`: factors of five still due
    exponent10,     \* `exponent10`: the scale, negated
    converted,      \* the decimal returned
    bpc             \* where the routine is

bvars == <<float, remove, bits, exponent5, exponent10, converted, bpc>>

Zero == [is64 |-> TRUE, neg |-> FALSE, biased |-> 0, fraction |-> 0]

FloatIdle ==
    /\ float = Zero /\ remove = FALSE /\ bits = 0
    /\ exponent5 = 0 /\ exponent10 = 0 /\ converted = ZERO /\ bpc = "idle"

FloatStart(f, r) ==
    /\ float = f /\ remove = r /\ bits = 0
    /\ exponent5 = 0 /\ exponent10 = 0 /\ converted = ZERO /\ bpc = "unpack"

F == Format[float.is64]
Two(k) == LET p[i \in 0..k] == IF i = 0 THEN 1 ELSE 2 * p[i - 1] IN p[k]

\* The integer mantissa, with its hidden bit, and the power of two it counts.
Significand(f) ==
    IF f.biased = 0 THEN f.fraction ELSE f.fraction + Two(Format[f.is64].fraction)
Exponent2(f) ==
    (IF f.biased = 0 THEN 1 ELSE f.biased) - Format[f.is64].bias - Format[f.is64].fraction

-----------------------------------------------------------------------------
NotFinite ==
    /\ bpc = "unpack" /\ float.biased = F.infinite
    /\ bpc' = "none"
    /\ UNCHANGED <<float, remove, bits, exponent5, exponent10, converted>>

\* The special zero keeps its sign.
FloatZero ==
    /\ bpc = "unpack" /\ float.biased = 0 /\ float.fraction = 0
    /\ converted' = [ZERO EXCEPT !.neg = float.neg]
    /\ bpc' = "converted"
    /\ UNCHANGED <<float, remove, bits, exponent5, exponent10>>

Unpack ==
    /\ bpc = "unpack" /\ float.biased # F.infinite /\ Significand(float) # 0
    /\ bits' = Significand(float)
    /\ exponent5' = -Exponent2(float)
    /\ exponent10' = Exponent2(float)
    /\ bpc' = "fives"
    /\ UNCHANGED <<float, remove, converted>>

\* An even mantissa gives a factor of two.
Halve ==
    /\ bpc = "fives" /\ exponent5 > 0 /\ bits % 2 = 0
    /\ bits' = bits \div 2 /\ exponent10' = exponent10 + 1 /\ exponent5' = exponent5 - 1
    /\ UNCHANGED <<float, remove, converted, bpc>>

TimesFive ==
    /\ bpc = "fives" /\ exponent5 > 0 /\ bits % 2 = 1 /\ bits * (Ten \div 2) <= Max96
    /\ bits' = bits * (Ten \div 2) /\ exponent5' = exponent5 - 1
    /\ UNCHANGED <<float, remove, exponent10, converted, bpc>>

\* There is no room for a five: a bit is lost.
HalveAway ==
    /\ bpc = "fives" /\ exponent5 > 0 /\ bits % 2 = 1 /\ bits * (Ten \div 2) > Max96
    /\ bits' = bits \div 2 /\ exponent10' = exponent10 + 1 /\ exponent5' = exponent5 - 1
    /\ UNCHANGED <<float, remove, converted, bpc>>

\* An integer is shifted up.
Double ==
    /\ bpc = "fives" /\ exponent5 < 0 /\ bits < B3 \div 2
    /\ bits' = 2 * bits /\ exponent10' = exponent10 - 1 /\ exponent5' = exponent5 + 1
    /\ UNCHANGED <<float, remove, converted, bpc>>

\* It has no bit left.  (exponent10 * 2 > -exponent5 always holds here, so the
\* division by five below it never runs; nor does the loop for exponent10 > 0.)
TooLarge ==
    /\ bpc = "fives" /\ exponent5 < 0 /\ bits >= B3 \div 2
    /\ exponent10 * 2 > -exponent5
    /\ bpc' = "none"
    /\ UNCHANGED <<float, remove, bits, exponent5, exponent10, converted>>

FivesDone ==
    /\ bpc = "fives" /\ exponent5 = 0
    /\ bpc' = "places"
    /\ UNCHANGED <<float, remove, bits, exponent5, exponent10, converted>>

-----------------------------------------------------------------------------
Tenth == bits \div Ten + (IF bits % Ten >= Ten \div 2 THEN 1 ELSE 0)

\* A digit beyond MAX_SCALE is rounded away; what becomes zero is zero at once.
DropPlace ==
    /\ bpc = "places" /\ exponent10 < -MAX_SCALE
    /\ bits' = IF bits \div Ten = 0 THEN 0 ELSE Tenth
    /\ exponent10' = IF bits \div Ten = 0 THEN 0 ELSE exponent10 + 1
    /\ UNCHANGED <<float, remove, exponent5, converted, bpc>>

PlacesDone ==
    /\ bpc = "places" /\ exponent10 >= -MAX_SCALE
    /\ bpc' = IF remove THEN "excess" ELSE "return"
    /\ UNCHANGED <<float, remove, bits, exponent5, exponent10, converted>>

\* What the format guarantees: 2^52 for f64, 2^24 for f32.
Guaranteed == Two(IF float.is64 THEN F.fraction ELSE F.fraction + 1)

\* Mutant of DropExcess: the digit dropped does not round.
DropExcessCut ==
    /\ bpc = "excess" /\ exponent10 < 0 /\ bits >= Guaranteed
    /\ bits' = bits \div Ten /\ exponent10' = exponent10 + 1
    /\ UNCHANGED <<float, remove, exponent5, converted, bpc>>

\* Digits beyond the precision of the format.
DropExcess ==
    /\ bpc = "excess" /\ exponent10 < 0 /\ bits >= Guaranteed
    /\ bits' = Tenth /\ exponent10' = exponent10 + 1
    /\ UNCHANGED <<float, remove, exponent5, converted, bpc>>

\* And multiples of ten.
DropZero ==
    /\ bpc = "excess" /\ exponent10 < 0 /\ bits < Guaranteed /\ bits % Ten = 0
    /\ bits' = bits \div Ten /\ exponent10' = exponent10 + 1
    /\ UNCHANGED <<float, remove, exponent5, converted, bpc>>

FloatReturn ==
    /\ \/ bpc = "return"
       \/ bpc = "excess" /\ (exponent10 = 0 \/ (bits < Guaranteed /\ bits % Ten # 0))
    /\ converted' = [neg |-> float.neg, m |-> bits, s |-> -exponent10]
    /\ bpc' = "converted"
    /\ UNCHANGED <<float, remove, bits, exponent5, exponent10>>

FloatNext ==
    \/ NotFinite \/ FloatZero \/ Unpack \/ Halve \/ TimesFive \/ HalveAway \/ Double \/ TooLarge \/ FivesDone
    \/ DropPlace \/ PlacesDone \/ DropExcess \/ DropZero \/ FloatReturn

-----------------------------------------------------------------------------
HalfPower(k) == LET p[i \in 0..k] == IF i = 0 THEN 1 ELSE (Ten \div 2) * p[i - 1] IN p[k]

\* Units of Ten^-s in the float, as the quotient of these two.
Units(s) == Significand(float) * HalfPower(s) * (IF Exponent2(float) + s > 0 THEN Two(Exponent2(float) + s) ELSE 1)
PerUnit(s) == IF Exponent2(float) + s < 0 THEN Two(-(Exponent2(float) + s)) ELSE 1

\* The decimals of as many digits as the format can tell apart (DBL_DIG, FLT_DIG)
\* that the float, not a denormalised one, is within half a step of.
ShortOf == {d \in (1..(POWERS[F.digits] - 1)) \X (0..MAX_SCALE) :
    /\ float.biased # 0
    /\ d[1] % Ten # 0 \/ d[2] = 0
    /\ LET step == Units(d[2]) \div Significand(float)
           away == Units(d[2]) - d[1] * PerUnit(d[2])
       IN  -step <= 2 * away /\ 2 * away <= step}

\* A float is refused only when it has no integral part of 96 bits.  Without its excess
\* bits it becomes a decimal less than a unit of the last place away (of the last of
\* all when nothing is left), and the nearest float of a decimal of few digits becomes
\* that decimal; with them, what 96 bits can hold is held exactly.  The exponents of
\* five and ten stay opposite while the float is doubled, so that no division by five
\* and no multiplication by ten is ever due.
FloatClose ==
    /\ bpc = "fives" /\ exponent5 < 0 => exponent10 = -exponent5
    /\ bpc = "places" => exponent10 <= 0
    /\ bpc = "none" /\ float.biased # F.infinite => Units(0) \div PerUnit(0) > Max96
    /\ bpc = "converted" =>
        LET s == IF converted.m = 0 THEN MAX_SCALE ELSE converted.s
            d == Units(s) - converted.m * PerUnit(s)
        IN  /\ converted.neg = float.neg
            /\ remove =>
                /\ -PerUnit(s) < d /\ d < PerUnit(s)
                /\ \A short \in ShortOf : converted.m = short[1] /\ converted.s = short[2]
            /\ (\E t \in 0..MAX_SCALE : Units(t) % PerUnit(t) = 0 /\ Units(t) \div PerUnit(t) <= Max96)
                /\ ~remove => d = 0
===============================================================================
