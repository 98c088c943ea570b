------------------------------ MODULE RadixParser -----------------------------
(***************************************************************************)
(* parse_str_radix_n (str.rs): a text in another radix.  Its digits are    *)
(* collected first, up to one more than a mantissa is thought to hold and  *)
(* with a rounding of the one behind; then they are multiplied in, until   *)
(* they overflow.  Bytes are numbers as in Parser, but here the digits go  *)
(* on through the letters, and the special bytes lie above all of them.    *)
(***************************************************************************)
EXTENDS DecimalBase, Numerals

CONSTANTS
    EstimatedPrecision,     \* `estimated_max_precision`, on the radices it knows
    CoefficientCapacity     \* the capacity of `coeff` (96)

\* The powers of a radix up to the k-th, and that alone.
RPowers(r, k) == LET p[i \in 0..k] == IF i = 0 THEN 1 ELSE p[i - 1] * r IN p
RPower(r, k)  == RPowers(r, k)[k]

\* Radix ten has a parser of its own.  In a larger one a coefficient that carries over
\* to 1 and zeros has no more places than a scale, or overflows.
ASSUME RadixAssumption ==
    /\ CoefficientCapacity \in Nat
    /\ DOMAIN EstimatedPrecision \subseteq (2..36) \ {Ten}
    /\ \A r \in DOMAIN EstimatedPrecision :
        /\ EstimatedPrecision[r] \in Nat
        /\ r > Ten => EstimatedPrecision[r] <= MAX_SCALE /\ RPower(r, MAX_SCALE) > Max96

VARIABLES
    radix, spelling,    \* `radix`, `str`: the arguments
    unread,             \* what is left of it
    negative,           \* `negative`
    beforeDot,          \* `digits_before_dot`: -1 without a point
    coeff,              \* `coeff`: the digits
    mantissa, index,    \* `data` and `i`: the digits multiplied in
    rscale,             \* `scale`
    number,             \* the decimal returned
    rpc                 \* where the routine is

rvars == <<radix, spelling, unread, negative, beforeDot, coeff, mantissa, index, rscale, number, rpc>>

Alphabet    == 0..35
RPoint      == 36
RUnderscore == 37
RMinus      == 38
RPlus       == 39
ROther      == 40

RadixIdle ==
    /\ radix = 0 /\ spelling = <<>> /\ unread = <<>> /\ negative = FALSE /\ beforeDot = -1
    /\ coeff = <<>> /\ mantissa = 0 /\ index = 0 /\ rscale = 0 /\ number = ZERO /\ rpc = "idle"

RadixStart(t, r) ==
    /\ radix = r /\ spelling = t /\ unread = t /\ negative = FALSE /\ beforeDot = -1
    /\ coeff = <<>> /\ mantissa = 0 /\ index = 0 /\ rscale = 0 /\ number = ZERO /\ rpc = "sign"

-----------------------------------------------------------------------------
Reads(c) == unread # <<>> /\ Head(unread) \in c

\* An empty text, a radix out of range, a leading sign.
RadixSign ==
    /\ rpc = "sign"
    /\ negative' = Reads({RMinus})
    /\ unread' = IF Reads({RMinus, RPlus}) THEN Tail(unread) ELSE unread
    /\ rpc' = IF unread = <<>> \/ radix \notin DOMAIN EstimatedPrecision THEN "refused" ELSE "collect"
    /\ UNCHANGED <<radix, spelling, beforeDot, coeff, mantissa, index, rscale, number>>

\* A digit is collected; one more than the estimate ends the loop.  The array
\* panics when it is full.
Collect ==
    /\ rpc = "collect" /\ Reads(0..(radix - 1))
    /\ IF Len(coeff) = CoefficientCapacity
       THEN rpc' = "panicked" /\ UNCHANGED <<coeff, unread>>
       ELSE /\ coeff' = Append(coeff, Head(unread))
            /\ unread' = Tail(unread)
            /\ rpc' = IF Len(coeff') > EstimatedPrecision[radix] THEN "round" ELSE "collect"
    /\ UNCHANGED <<radix, spelling, negative, beforeDot, mantissa, index, rscale, number>>

DotSeen ==
    /\ rpc = "collect" /\ Reads({RPoint}) /\ beforeDot < 0
    /\ beforeDot' = Len(coeff) /\ unread' = Tail(unread)
    /\ UNCHANGED <<radix, spelling, negative, coeff, mantissa, index, rscale, number, rpc>>

SkipUnderscore ==
    /\ rpc = "collect" /\ Reads({RUnderscore}) /\ coeff # <<>>
    /\ unread' = Tail(unread)
    /\ UNCHANGED <<radix, spelling, negative, beforeDot, coeff, mantissa, index, rscale, number, rpc>>

\* Any other byte; while rounding, a separator or a first point is none.
BadByte ==
    /\ unread # <<>>
    /\ \/ rpc = "collect" /\ ~Reads(0..(radix - 1)) /\ ~(Reads({RPoint}) /\ beforeDot < 0)
                          /\ ~(Reads({RUnderscore}) /\ coeff # <<>>)
       \/ rpc = "round" /\ ~Reads(0..(radix - 1) \union {RUnderscore}) /\ ~(Reads({RPoint}) /\ beforeDot < 0)
    /\ rpc' = "refused"
    /\ UNCHANGED <<radix, spelling, unread, negative, beforeDot, coeff, mantissa, index, rscale, number>>

\* The carry: a digit counts to nine, whatever the radix.
Carried(c) ==
    LET nines == {k \in 0..Len(c) : \A i \in (Len(c) - k + 1)..Len(c) : c[i] + 1 > Ten - 1}
        k == CHOOSE k \in nines : \A l \in nines : l <= k
    IN  [i \in 1..Len(c) |-> IF i > Len(c) - k THEN 0 ELSE IF i = Len(c) - k THEN c[i] + 1 ELSE c[i]]

\* Mutant of RoundCoefficient: the carry goes to the point.
RoundCoefficientTwice ==
    LET up == unread # <<>> /\ Reads(0..(radix - 1)) /\ Head(unread) >= (radix + 1) \div 2
        allNines == \A i \in DOMAIN coeff : coeff[i] + 1 > Ten - 1
    IN  /\ rpc = "round" /\ (unread = <<>> \/ Reads(0..(radix - 1) \union {RUnderscore}) \/ (Reads({RPoint}) /\ beforeDot < 0))
        /\ coeff' = IF ~up THEN coeff ELSE IF allNines THEN [i \in DOMAIN coeff |-> IF i = 1 THEN 1 ELSE 0]
                    ELSE Carried(coeff)
        /\ beforeDot' = IF up THEN beforeDot + 1 ELSE beforeDot
        /\ rpc' = "scale"
        /\ UNCHANGED <<radix, spelling, unread, negative, mantissa, index, rscale, number>>

\* The byte behind the last digit rounds it; what follows is not read.
RoundCoefficient ==
    LET up == unread # <<>> /\ Reads(0..(radix - 1)) /\ Head(unread) >= (radix + 1) \div 2
        allNines == \A i \in DOMAIN coeff : coeff[i] + 1 > Ten - 1
    IN  /\ rpc = "round" /\ (unread = <<>> \/ Reads(0..(radix - 1) \union {RUnderscore}) \/ (Reads({RPoint}) /\ beforeDot < 0))
        /\ coeff' = IF ~up THEN coeff ELSE IF allNines THEN [i \in DOMAIN coeff |-> IF i = 1 THEN 1 ELSE 0]
                    ELSE Carried(coeff)
        /\ beforeDot' = IF up /\ allNines THEN beforeDot + 1 ELSE beforeDot
        /\ rpc' = "scale"
        /\ UNCHANGED <<radix, spelling, unread, negative, mantissa, index, rscale, number>>

\* No characters left.
CollectEnd ==
    /\ rpc = "collect" /\ unread = <<>>
    /\ rpc' = "scale"
    /\ UNCHANGED <<radix, spelling, unread, negative, beforeDot, coeff, mantissa, index, rscale, number>>

SetRadixScale ==
    /\ rpc = "scale"
    /\ rscale' = IF beforeDot >= 0 THEN Len(coeff) - beforeDot ELSE 0
    /\ rpc' = IF coeff = <<>> THEN "refused" ELSE "build"
    /\ UNCHANGED <<radix, spelling, unread, negative, beforeDot, coeff, mantissa, index, number>>

Next1 == coeff[index + 1]

\* A turn of the loop that multiplies the digits in.
BuildDigit ==
    /\ rpc = "build" /\ index < Len(coeff) /\ mantissa * radix <= Max96
    /\ IF mantissa * radix + Next1 > Max96
       THEN rpc' = "overflow" /\ UNCHANGED <<mantissa, index>>
       ELSE mantissa' = mantissa * radix + Next1 /\ index' = index + 1 /\ rpc' = rpc
    /\ UNCHANGED <<radix, spelling, unread, negative, beforeDot, coeff, rscale, number>>

\* The product overflows: the digits left must all belong to the fraction, the
\* first of them rounds, and they leave the scale.
BuildOverflow ==
    LET left == Len(coeff) - index
        m    == IF Next1 >= Ten \div 2 THEN mantissa + 1 ELSE mantissa
    IN  /\ rpc = "build" /\ index < Len(coeff) /\ mantissa * radix > Max96
        /\ IF (index < beforeDot /\ left > 1) \/ m > Max96 \/ left > rscale
           THEN rpc' = "overflow" /\ UNCHANGED <<mantissa, rscale, index>>
           ELSE mantissa' = m /\ rscale' = rscale - left /\ index' = Len(coeff) /\ rpc' = "build"
        /\ UNCHANGED <<radix, spelling, unread, negative, beforeDot, coeff, number>>

\* from_parts asserts the scale.
RadixReturn ==
    /\ rpc = "build" /\ index = Len(coeff)
    /\ rpc' = IF rscale > MAX_SCALE THEN "panicked" ELSE "number"
    /\ number' = IF rscale > MAX_SCALE THEN number ELSE FromParts(mantissa, negative, rscale)
    /\ UNCHANGED <<radix, spelling, unread, negative, beforeDot, coeff, mantissa, index, rscale>>

RadixNext ==
    \/ RadixSign \/ Collect \/ DotSeen \/ SkipUnderscore \/ BadByte \/ RoundCoefficient \/ CollectEnd
    \/ SetRadixScale \/ BuildDigit \/ BuildOverflow \/ RadixReturn

\* Any text in any radix.
RadixInit == RadixIdle \/ \E t \in Seq(0..ROther), r \in Nat : RadixStart(t, r)
RadixSpec == RadixInit /\ [][RadixNext]_rvars

-----------------------------------------------------------------------------
(***************************************************************************)
(* What the text is worth in its radix.                                    *)
(***************************************************************************)
RBody == IF spelling # <<>> /\ spelling[1] \in {RMinus, RPlus} THEN Tail(spelling) ELSE spelling
RDots == {i \in DOMAIN RBody : RBody[i] = RPoint}
RValue == ValueTo(RBody, 0..(radix - 1), radix)
RCount == CountTo(RBody, 0..(radix - 1))
RDigits == RCount[Len(RBody)]

\* The digits in front of the first point and behind it.
RWhole    == IF RDots = {} THEN RDigits ELSE RCount[CHOOSE i \in RDots : \A j \in RDots : i <= j]
RFraction == RDigits - RWhole

RWellFormed ==
    /\ \A i \in DOMAIN RBody : RBody[i] \in 0..(radix - 1) \union {RPoint, RUnderscore}
    /\ \A i, j \in RDots : i = j
    /\ RDigits > 0
    /\ \A i \in DOMAIN RBody : RBody[i] = RUnderscore => RCount[i] > 0

\* Digits in front of the point that are not read: leading zeros have used up
\* what a mantissa is thought to hold.
IntegralCut == RWhole > Len(coeff)

\* Digits of the fraction that carry over 96 bits, or round up to more, are an
\* error, where fewer of them would do.
CarryRefused ==
    \E i \in DOMAIN RBody : RValue[i] >= Max96 /\ (RValue[i] \div radix) * radix <= Max96

\* m with s places of the radix are the digits of the text, but for those behind them.
DigitsKept(m, s) ==
    LET n == RValue[Len(RBody)]
        d == RFraction - s
        p == RPower(radix, d)
    IN  /\ d >= 0
        /\ d = 0 => m = n
        /\ m * p - n < p /\ n - m * p < p

\* In a radix of ten or less the mantissa is what the digits of the text say in that
\* radix and the scale is how many of them follow the point, or fewer when they do not
\* fit, and then to within one unit of the last one kept.  A text without a fraction is
\* worth what it says; what one with a fraction is worth is the question of RadixWorth.
\* A text is refused when it is malformed, and overflows when its integral part does;
\* from_parts or the array panic only on more digits than they hold.
RadixDigitsKept ==
    /\ rpc = "number" /\ RWellFormed /\ ~IntegralCut /\ radix <= Ten =>
        /\ DigitsKept(number.m, number.s)
        /\ RFraction = 0 => number.s = 0 /\ number.m = RValue[Len(RBody)]
        /\ number.neg = (spelling[1] = RMinus /\ number.m # 0)
    /\ rpc = "refused" => ~RWellFormed \/ radix \notin DOMAIN EstimatedPrecision
    /\ rpc = "overflow" /\ RWellFormed /\ radix <= Ten =>
        CarryRefused \/ RValue[Len(RBody)] \div RPower(radix, RFraction) >= Max96 \/ IntegralCut
    /\ rpc = "panicked" => RFraction > MAX_SCALE \/ RDigits > CoefficientCapacity

\* The documentation of from_str_radix speaks of a text in a given base: a decimal is
\* less than a unit of its last place away from what its text is worth in that base.
\* The scale counts places of the base, but from_parts takes it for places of ten.
RadixWorth ==
    rpc = "number" /\ RWellFormed /\ ~IntegralCut /\ radix <= Ten =>
        LET p == RPower(radix, RFraction)
            n == RValue[Len(RBody)] * POWERS[number.s]
        IN  number.m * p - n < p /\ n - number.m * p < p
===============================================================================
