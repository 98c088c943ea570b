------------------------------- MODULE Formatter ------------------------------
(***************************************************************************)
(* to_str_internal and fmt_scientific_notation (str.rs), with or without a *)
(* precision.  A text that was written without one goes back through the   *)
(* visit_str of serde, as the serde forms do with it.                      *)
(***************************************************************************)
EXTENDS Scientific

CONSTANT MAX_STR_BUFFER_SIZE    \* the capacity of the buffers (32)

\* The longest decimal has a sign, a point and one digit more than the largest scale; in
\* scientific notation an `e`, a sign and an exponent of two digits follow.
ASSUME FormatterAssumption ==
    /\ B3 <= POWERS[MAX_SCALE + 1] /\ MAX_SCALE < POWERS[2]
    /\ MAX_STR_BUFFER_SIZE \in Nat /\ MAX_SCALE + 3 <= MAX_STR_BUFFER_SIZE
    /\ MAX_SCALE + 7 <= PowLimit

VARIABLES
    shown,      \* `value`: the decimal to write
    style,      \* [sci, prec, sign]: LowerExp or Display; the precision; append_sign
    working,    \* `working`: what is left of the mantissa
    chars,      \* `chars`: its digits, the last first
    rep,        \* `rep`: the text
    at,         \* `i`: the position written next
    fpc         \* where the routine is

fvars == <<shown, style, working, chars, rep, at, fpc>>

Default == -1       \* no precision given

FormatterIdle ==
    /\ shown = ZERO /\ style = [sci |-> FALSE, prec |-> Default, sign |-> FALSE]
    /\ working = 0 /\ chars = <<>> /\ rep = <<>> /\ at = 0 /\ fpc = "idle"

FormatStart(d, st) ==
    /\ shown = d /\ style = st
    /\ working = d.m /\ chars = <<>> /\ rep = <<>> /\ at = 0 /\ fpc = "digits"

-----------------------------------------------------------------------------
Repeat(c, n) == [i \in 1..n |-> c]
Backwards(s) == [i \in 1..Len(s) |-> s[Len(s) + 1 - i]]

\* A number as to_string writes it: with as many digits as it needs.
Spelled(n) ==
    LET k == CHOOSE k \in 1..PowLimit : n < POWERS[k] /\ (k > 1 => POWERS[k - 1] <= n)
    IN  [i \in 1..k |-> (n \div POWERS[k - i]) % Ten]

\* The sign is pushed first (append_sign), or put in front by pad_integral.
SignText == IF shown.neg THEN <<Minus>> ELSE <<>>

\* The loop both routines begin with.
TakeDigit ==
    /\ fpc = "digits" /\ working > 0
    /\ chars' = Append(chars, working % Ten)
    /\ working' = working \div Ten
    /\ UNCHANGED <<shown, style, rep, at, fpc>>

DigitsTaken ==
    /\ fpc = "digits" /\ working = 0
    /\ fpc' = IF style.sci THEN "scientific" ELSE "plain"
    /\ rep' = IF style.sign THEN SignText ELSE <<>>
    /\ UNCHANGED <<shown, style, working, chars, at>>

-----------------------------------------------------------------------------
PadZero ==
    /\ fpc = "plain" /\ shown.s > Len(chars)
    /\ chars' = Append(chars, 0)
    /\ UNCHANGED <<shown, style, working, rep, at, fpc>>

\* Places after the point that are written, and those that Display appends.
Places == IF style.prec = Default THEN shown.s ELSE SmallerOf(style.prec, MAX_SCALE)
Additional == IF style.prec > MAX_SCALE THEN style.prec - MAX_SCALE ELSE 0
WholeLen == Len(chars) - shown.s
Positions == WholeLen + Places

\* What is pushed at a position: the point where the fraction starts, behind a
\* zero if nothing is in front of it; a digit, or a zero where they end.
CharAt(i) ==
    LET c == IF i >= Len(chars) THEN 0 ELSE chars[Len(chars) - i]
    IN  (IF i # WholeLen THEN <<>> ELSE IF i = 0 THEN <<0, Point>> ELSE <<Point>>) \o <<c>>

\* A turn of the loop.  The buffer has a fixed capacity and push panics beyond it.
Emit ==
    /\ fpc = "plain" /\ shown.s <= Len(chars) /\ at < Positions
    /\ IF Len(rep) + Len(CharAt(at)) > MAX_STR_BUFFER_SIZE
       THEN fpc' = "panicked" /\ UNCHANGED <<rep, at>>
       ELSE rep' = rep \o CharAt(at) /\ at' = at + 1 /\ UNCHANGED fpc
    /\ UNCHANGED <<shown, style, working, chars>>

\* Nothing written is a zero; then the zeros and the sign of Display.
PlainReturn ==
    /\ fpc = "plain" /\ shown.s <= Len(chars) /\ at = Positions
    /\ rep' = (IF style.sign THEN <<>> ELSE SignText)
              \o (IF rep \in {<<>>, <<Minus>>} THEN Append(rep, 0) ELSE rep)
              \o Repeat(0, Additional)
    /\ fpc' = "written"
    /\ UNCHANGED <<shown, style, working, chars, at>>

-----------------------------------------------------------------------------
\* fmt_scientific_notation: the digits with a point behind the first, cut or
\* filled to the precision.  Zeros alone behind the first digit are left out.
SciDigits ==
    LET ds == Backwards(chars)
        n  == Len(ds)
        p  == style.prec
        bare    == \A i \in 2..n : ds[i] = 0
        pointed == SubSeq(ds, 1, SmallerOf(1, n)) \o <<Point>> \o SubSeq(ds, 2, n)
    IN  CASE n > 1 /\ p \in {Default, 0} /\ bare -> SubSeq(ds, 1, 1)
          [] n > 1 /\ p = Default /\ ~bare -> pointed
          [] n > 1 /\ p = 0 /\ ~bare -> SubSeq(ds, 1, 1)
          [] n <= 1 /\ p \in {Default, 0} -> ds
          [] OTHER -> SubSeq(pointed \o Repeat(0, p + 1), 1, p + 2)

\* Mutant of SciExponent: the digit in front of the point counts.
SciExponentLong == (IF Len(chars) > 1 THEN Len(chars) ELSE 0) - shown.s

\* The point moves behind the first digit.
SciExponent == (IF Len(chars) > 1 THEN Len(chars) - 1 ELSE 0) - shown.s

SciReturn ==
    /\ fpc = "scientific"
    /\ rep' = SignText \o SciDigits \o <<Exponent>>
              \o (IF SciExponent < 0 THEN <<Minus>> \o Spelled(-SciExponent) ELSE Spelled(SciExponent))
    /\ fpc' = "written"
    /\ UNCHANGED <<shown, style, working, chars, at>>

-----------------------------------------------------------------------------
\* A text that is complete is read back.
ReadBack ==
    /\ fpc = "written" /\ style.prec = Default
    /\ ScientificCall(rep)
    /\ fpc' = "reading"
    /\ UNCHANGED <<tvars, shown, style, working, chars, rep, at>>

FormatterNext ==
    \/ (TakeDigit \/ DigitsTaken \/ PadZero \/ Emit \/ PlainReturn \/ SciReturn) /\ UNCHANGED <<tvars, svars>>
    \/ ReadBack
    \/ fpc = "reading" /\ ScientificNext /\ UNCHANGED fvars

\* Any decimal, any precision (PowLimit bounds it); append_sign without one.
Styles ==
    [sci : BOOLEAN, prec : Default..PowLimit, sign : {FALSE}] \union [sci : {FALSE}, prec : {Default}, sign : {TRUE}]
FormatterInit == ParserIdle /\ ScientificIdle /\ \E d \in Decimal, st \in Styles : FormatStart(d, st)
FormatterSpec == FormatterInit /\ [][FormatterNext]_<<fvars, tvars, svars>>

-----------------------------------------------------------------------------
\* The number of d cut after p places, as an integer.
CutAt(d, p) == IF p < d.s THEN d.m \div POWERS[d.s - p] ELSE d.m * POWERS[p - d.s]
SameNumber(x, y) == x.m * POWERS[y.s] = y.m * POWERS[x.s] /\ (x.m # 0 => x.neg = y.neg)

\* A decimal written without a precision fits the buffer and comes back: the very
\* same from the plain form, the same number from the scientific one (a zero,
\* which has no digit there, is refused).  With a precision the plain form is
\* the number cut at that place, in that many places.
FormatParses ==
    /\ style.prec = Default => fpc # "panicked"
    /\ fpc = "written" /\ ~style.sci =>
        /\ WellFormed(rep)
        /\ Fraction(rep) = Places + Additional
        /\ Numeral(rep) = CutAt(shown, Places) * POWERS[Additional]
    /\ fpc = "written" /\ style.sci /\ style.prec # Default /\ shown.m # 0 =>
        /\ Fraction(BasePart(rep)) = style.prec
        /\ Numeral(BasePart(rep)) = CutAt([m |-> shown.m, s |-> Len(chars) - 1], style.prec)
    /\ fpc = "reading" /\ spc = "done" =>
        IF style.sci THEN SameNumber(ret, shown) ELSE ret = FromParts(shown.m, shown.neg, shown.s)
    /\ fpc = "reading" => spc \notin {"exceeds", "scale_exceeds"}
    /\ fpc = "reading" /\ spc = "failed" => style.sci /\ shown.m = 0
==============================================================================
