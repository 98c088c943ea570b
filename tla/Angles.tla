-------------------------------- MODULE Angles --------------------------------
(***************************************************************************)
(* checked_sin, checked_cos and checked_tan up to their series: functions  *)
(* that call themselves and each other with a smaller angle (maths.rs).    *)
(* An angle is a number of units of the last place a decimal can have: the *)
(* differences are exact, and so is the remainder by 2 PI, but where       *)
(* rem_full cuts an estimate (Remainder, `cut`), which is not modelled     *)
(* again here.                                                             *)
(***************************************************************************)
EXTENDS DecimalBase

CONSTANT EIGHTH_PI

\* The constants of decimal.rs, which are 28 places long: PI is not twice HALF_PI.
QUARTER_PI == 2 * EIGHTH_PI
HALF_PI    == 4 * EIGHTH_PI
PI         == 8 * EIGHTH_PI + 1
TWO_PI     == 16 * EIGHTH_PI + 2

ASSUME AngleAssumption == EIGHTH_PI \in Nat \ {0} /\ TWO_PI <= Max96

VARIABLES
    of,         \* the call: [fn |-> "sin", "cos" or "tan", angle]
    fn, angle,  \* the call made last
    flipped,    \* its result is to be negated
    inverse,    \* the reciprocal is to be taken first
    halved,     \* and before that the double angle formula applied
    calls,      \* how many calls were made
    apc         \* where the functions are

avars == <<of, fn, angle, flipped, inverse, halved, calls, apc>>

AngleAt(call, at) ==
    /\ of = call /\ fn = call.fn /\ angle = call.angle
    /\ flipped = FALSE /\ inverse = FALSE /\ halved = FALSE
    /\ calls = 0 /\ apc = at
AngleIdle == AngleAt([fn |-> "sin", angle |-> 0], "idle")
AngleStart(f, a) == AngleAt([fn |-> f, angle |-> a], "call")

\* The units of the last place in a decimal.
UnitsIn(d) == (IF d.neg THEN -d.m ELSE d.m) * POWERS[MAX_SCALE - d.s]
AngleInit  == \E f \in {"sin", "cos", "tan"}, d \in Decimal : AngleStart(f, UnitsIn(d))

\* f of a, negated if `not` says so.
Calls(f, a, not) ==
    /\ apc = "call" /\ fn' = f /\ angle' = a
    /\ flipped' = (flipped # not)
    /\ calls' = calls + 1
    /\ UNCHANGED <<of, apc>>

Kept == UNCHANGED <<inverse, halved>>

\* Sin and tan are odd.
Reflect == angle < 0 /\ Calls(fn, -angle, fn # "cos") /\ Kept

Wrap == angle >= TWO_PI /\ Calls(fn, angle % TWO_PI, FALSE) /\ Kept

\* Mutant of HalfTurn: the sign of sin alone changes.
HalfTurnSin == PI <= angle /\ angle < TWO_PI /\ Calls(fn, angle - PI, fn = "sin") /\ Kept

HalfTurn == PI <= angle /\ angle < TWO_PI /\ Calls(fn, angle - PI, fn # "tan") /\ Kept

Cofunction ==
    /\ fn # "tan" /\ QUARTER_PI < angle /\ angle < PI
    /\ Calls(IF fn = "sin" THEN "cos" ELSE "sin", HALF_PI - angle, FALSE) /\ Kept

Supplement == fn = "tan" /\ HALF_PI < angle /\ angle < PI /\ Calls(fn, (HALF_PI - angle) + HALF_PI, TRUE) /\ Kept

Reciprocal ==
    /\ fn = "tan" /\ QUARTER_PI < angle /\ angle <= HALF_PI
    /\ Calls(fn, HALF_PI - angle, FALSE)
    /\ inverse' = TRUE /\ UNCHANGED halved

HalfAngle ==
    /\ fn = "tan" /\ EIGHTH_PI < angle /\ angle <= QUARTER_PI
    /\ Calls(fn, HalfEven(angle, 2), FALSE)
    /\ halved' = TRUE /\ UNCHANGED inverse

LargestAngle == IF fn = "tan" THEN EIGHTH_PI ELSE QUARTER_PI

\* A zero, or an angle for the series.  There is no reciprocal of zero.
Ends ==
    /\ apc = "call" /\ 0 <= angle /\ angle <= LargestAngle
    /\ apc' = IF angle > 0 THEN "series" ELSE IF inverse THEN "none" ELSE "zero"
    /\ UNCHANGED <<of, fn, angle, flipped, inverse, halved, calls>>

AngleNext ==
    Reflect \/ Wrap \/ HalfTurn \/ Cofunction \/ Supplement \/ Reciprocal \/ HalfAngle \/ Ends
AngleSpec == AngleInit /\ [][AngleNext]_avars

-----------------------------------------------------------------------------
\* The angle whose cosine is the function f of a.
Phase(f, a) == IF f = "sin" THEN a - HALF_PI ELSE a

\* The angle whose tangent is the result.
Tangent == LET whole == IF halved THEN 2 * angle ELSE angle
               turned == IF inverse THEN HALF_PI - whole ELSE whole
           IN  IF flipped THEN -turned ELSE turned

\* No more than the constants are off from each other, and one by a half.
Near(a, period) == \E e \in -3..3 : (a + e) % period = 0

\* However the functions call each other, a handful of calls lead to an angle that
\* the series is made for, and its function with the sign so far is that of the
\* angle asked for: the phase is the same or the opposite, whole turns apart.  Tan
\* has no answer only at a right angle.
AngleReduced ==
    /\ calls <= 6
    /\ apc \in {"series", "zero", "none"} =>
        IF of.fn = "tan"
        THEN /\ Near(Tangent - of.angle, PI)
             /\ apc = "none" => Near(of.angle - HALF_PI, PI)
        ELSE LET p == Phase(fn, angle) + (IF flipped THEN PI ELSE 0)
             IN  \/ Near(p - Phase(of.fn, of.angle), TWO_PI)
                 \/ Near(p + Phase(of.fn, of.angle), TWO_PI)
===============================================================================
