------------------------------ MODULE Arithmetic ------------------------------
(***************************************************************************)
(* The answers of the operations as functions of the exact result, for the *)
(* routines that are written with them: as many digits as fit, rounded     *)
(* once, half to even.  That the algorithms give these answers is the      *)
(* subject of Mul, AddSub and Division; these routines add no difference   *)
(* and no tie of the kind those modules make an exception for.             *)
(***************************************************************************)
EXTENDS DecimalBase

\* The scales at which v / Ten^s has a mantissa that fits.
FittingScales(v, s) == {t \in 0..SmallerOf(s, MAX_SCALE) : HalfEven(v, POWERS[s - t]) <= Max96}

\* CalculationResult::Ok, or None for the checked variants.
Fits(v, s) == FittingScales(v, s) # {}

\* The decimal in CalculationResult::Ok.
Rounded(v, s) ==
    LET t == CHOOSE t \in FittingScales(v, s) : \A u \in FittingScales(v, s) : u <= t
    IN  [m |-> HalfEven(v, POWERS[s - t]), s |-> t]

\* The sum of two positive numbers.
SumOf(x, y) ==
    LET s == IF x.s > y.s THEN x.s ELSE y.s
    IN  [v |-> x.m * POWERS[s - x.s] + y.m * POWERS[s - y.s], s |-> s]

\* What the checked variants may answer: a set of decimals, empty for None.
Answers(v, s, neg) == IF Fits(v, s) THEN {FromParts(Rounded(v, s).m, neg, Rounded(v, s).s)} ELSE {}

\* checked_mul, and checked_add of two positive numbers.
Products(x, y) == Answers(x.m * y.m, x.s + y.s, x.neg # y.neg)
Sums(x, y)     == Answers(SumOf(x, y).v, SumOf(x, y).s, FALSE)

\* normalize_assign: no zero is left behind the point.
Stripped(d) ==
    LET k == CHOOSE k \in 0..d.s : /\ d.m % POWERS[k] = 0
                                   /\ k = d.s \/ d.m % POWERS[k + 1] # 0
    IN  IF d.m = 0 THEN ZERO ELSE [neg |-> d.neg, m |-> d.m \div POWERS[k], s |-> d.s - k]

\* checked_div: as many places as fit, and no zero at the end.  Between two mantissas
\* a divisor of one word or two leaves the even one, a longer one either.
Quotients(x, y) ==
    LET top(t)  == x.m * POWERS[IF t + y.s > x.s THEN t + y.s - x.s ELSE 0]
        low(t)  == y.m * POWERS[IF t + y.s < x.s THEN x.s - y.s - t ELSE 0]
        fits    == {t \in 0..MAX_SCALE : HalfEven(top(t), low(t)) <= Max96}
        t       == CHOOSE t \in fits : \A u \in fits : u <= t
        even    == HalfEven(top(t), low(t))
        beside  == {q \in {even - 1, even + 1} \cap Mantissa :
                        2 * (q * low(t) - top(t)) \in {-low(t), low(t)}}
    IN  IF y.m = 0 \/ fits = {} THEN {}
        ELSE {Stripped(FromParts(q, x.neg # y.neg, t)) :
                 q \in {even} \union (IF y.m < B2 THEN {} ELSE beside)}

\* How far apart two integers are.
Off(a, b) == IF a < b THEN b - a ELSE a - b

\* By value.
Same(x, y) == x.neg = y.neg /\ x.m * POWERS[y.s] = y.m * POWERS[x.s]

\* Decimal::rescale of a positive number: digits are dropped half away from zero,
\* or added as long as they fit (see Rounding).
Rescaled(d, s) ==
    IF s <= d.s THEN [m |-> (d.m + POWERS[d.s - s] \div 2) \div POWERS[d.s - s], s |-> s]
    ELSE LET k == CHOOSE k \in 0..(s - d.s) :
                    /\ d.m * POWERS[k] <= Max96
                    /\ k = s - d.s \/ d.m * POWERS[k + 1] > Max96
         IN  [m |-> d.m * POWERS[k], s |-> d.s + k]
==============================================================================
