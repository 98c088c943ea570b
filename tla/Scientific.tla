------------------------------ MODULE Scientific ------------------------------
(***************************************************************************)
(* from_scientific_exact and from_scientific_lossy (decimal.rs), and the   *)
(* visit_str of serde, which tries the plain form before.  The text in     *)
(* front of the first 'e' is read by the Parser; the exponent changes the  *)
(* scale, or the mantissa when the scale has nothing left to give.         *)
(***************************************************************************)
EXTENDS Parser, Arithmetic

VARIABLES
    whole,      \* `value`: the argument
    lossy,      \* from_scientific_lossy
    ret,        \* `ret`: the decimal being built
    due,        \* `exp`: digits still to be multiplied in
    spc         \* where the routine is

svars == <<whole, lossy, ret, due, spc>>

ScientificIdle == whole = <<>> /\ lossy = FALSE /\ ret = ZERO /\ due = 0 /\ spc = "idle"

ScientificStart(w, lossily, at) ==
    /\ whole = w /\ lossy = lossily /\ ret = ZERO /\ due = 0 /\ spc = at

ScientificCall(w) ==
    /\ whole' = w /\ lossy' = FALSE /\ ret' = ZERO /\ due' = 0 /\ spc' = "visit"

-----------------------------------------------------------------------------
\* splitn(2, ['e', 'E']).
ExponentsIn(w) == {i \in DOMAIN w : w[i] = Exponent}
FirstExponent(w) == CHOOSE i \in ExponentsIn(w) : \A j \in ExponentsIn(w) : i <= j
BasePart(w) == SubSeq(w, 1, FirstExponent(w) - 1)
ExponentPart(w) == SubSeq(w, FirstExponent(w) + 1, Len(w))

\* strip_prefix('-'), then u32::from_str, which takes a plus sign.
Negative(e) == e # <<>> /\ e[1] = Minus
Unsigned(e) == IF Negative(e) THEN Tail(e) ELSE e
IsU32(u) == LET ds == IF u # <<>> /\ u[1] = Plus THEN Tail(u) ELSE u
            IN  ds # <<>> /\ \A i \in DOMAIN ds : ds[i] \in Digits

Part == ExponentPart(whole)
Size == Numeral(Part)

-----------------------------------------------------------------------------
\* visit_str: from_str first.
Visit ==
    /\ spc = "visit" /\ ParseCall(whole, TRUE)
    /\ spc' = "visiting"
    /\ UNCHANGED <<whole, lossy, ret, due>>

VisitReturn ==
    /\ spc = "visiting" /\ ppc = "parsed"
    /\ ret' = parsed /\ spc' = "done"
    /\ UNCHANGED <<tvars, whole, lossy, due>>

\* or_else: from_scientific_exact.
VisitElse ==
    /\ spc = "visiting" /\ ppc \in Failed
    /\ spc' = "split"
    /\ UNCHANGED <<tvars, whole, lossy, ret, due>>

Split ==
    /\ spc = "split" /\ ExponentsIn(whole) # {}
    /\ ParseCall(BasePart(whole), TRUE)
    /\ spc' = "base"
    /\ UNCHANGED <<whole, lossy, ret, due>>

NoExponent ==
    /\ spc = "split" /\ ExponentsIn(whole) = {}
    /\ spc' = "failed"
    /\ UNCHANGED <<tvars, whole, lossy, ret, due>>

Reading == spc \in {"visiting", "base"} /\ ParserNext /\ UNCHANGED svars

BaseFailed ==
    /\ spc = "base" /\ (ppc \in Failed \/ (ppc = "parsed" /\ ~IsU32(Unsigned(Part))))
    /\ spc' = "failed"
    /\ UNCHANGED <<tvars, whole, lossy, ret, due>>

BaseRead(negative) ==
    /\ spc = "base" /\ ppc = "parsed" /\ IsU32(Unsigned(Part))
    /\ Negative(Part) = negative

\* set_scale, which refuses more than MAX_SCALE.
SetScale(d, s) ==
    IF s > MAX_SCALE THEN spc' = "scale_exceeds" /\ ret' = d
    ELSE spc' = "done" /\ ret' = [d EXCEPT !.s = s]

\* Mutant of NegativeExponent: the lossy variant rescales to the wrong place.
NegativeExponentShort ==
    /\ BaseRead(TRUE)
    /\ IF Size > MAX_SCALE THEN spc' = "scale_exceeds" /\ ret' = parsed
       ELSE IF lossy /\ parsed.s + Size > MAX_SCALE
       THEN LET r == Rescaled(parsed, parsed.s - Size)
            IN  spc' = "done" /\ ret' = [neg |-> parsed.neg, m |-> r.m, s |-> MAX_SCALE]
       ELSE SetScale(parsed, parsed.s + Size)
    /\ UNCHANGED <<tvars, whole, lossy, due>>

\* A negative exponent makes the scale larger; the lossy variant first drops the
\* digits that would pass MAX_SCALE.
NegativeExponent ==
    /\ BaseRead(TRUE)
    /\ IF Size > MAX_SCALE THEN spc' = "scale_exceeds" /\ ret' = parsed
       ELSE IF lossy /\ parsed.s + Size > MAX_SCALE
       THEN LET r == Rescaled(parsed, MAX_SCALE - Size)
            IN  spc' = "done" /\ ret' = [neg |-> parsed.neg, m |-> r.m, s |-> MAX_SCALE]
       ELSE SetScale(parsed, parsed.s + Size)
    /\ UNCHANGED <<tvars, whole, lossy, due>>

\* A positive one makes it smaller, as far as it goes.
WithinScale ==
    /\ BaseRead(FALSE) /\ Size <= parsed.s
    /\ SetScale(parsed, parsed.s - Size)
    /\ UNCHANGED <<tvars, whole, lossy, due>>

BeyondScale ==
    /\ BaseRead(FALSE) /\ Size > parsed.s
    /\ ret' = parsed
    /\ due' = IF Size > MAX_SCALE THEN 0 ELSE Size
    /\ spc' = IF Size > MAX_SCALE THEN "scale_exceeds" ELSE "multiply"
    /\ UNCHANGED <<tvars, whole, lossy>>

\* A pass of the multiplication by entries of BIG_POWERS_10.
Multiply ==
    LET k == SmallerOf(due, MAX_I64_SCALE)
        p == Rounded(ret.m * POWERS[k], ret.s)
    IN  /\ spc = "multiply" /\ due > 0
        /\ IF Fits(ret.m * POWERS[k], ret.s)
           THEN /\ ret' = IF ret.m = 0 THEN ZERO ELSE [neg |-> ret.neg, m |-> p.m, s |-> p.s]
                /\ due' = due - k /\ spc' = spc
           ELSE spc' = "exceeds" /\ UNCHANGED <<ret, due>>
        /\ UNCHANGED <<tvars, whole, lossy>>

\* A pass of normalize_assign, or its end.
StripZeros ==
    /\ spc = "multiply" /\ due = 0
    /\ IF ret.m # 0 /\ ret.s > 0 /\ ret.m % Ten = 0
       THEN ret' = [ret EXCEPT !.m = @ \div Ten, !.s = @ - 1] /\ spc' = spc
       ELSE ret' = ret /\ spc' = "done"
    /\ UNCHANGED <<tvars, whole, lossy, due>>

ScientificNext ==
    \/ Visit \/ VisitReturn \/ VisitElse \/ Split \/ NoExponent \/ Reading \/ BaseFailed
    \/ NegativeExponent \/ WithinScale \/ BeyondScale \/ Multiply \/ StripZeros

\* Any text, read for itself or by a deserialiser.
ScientificInit ==
    /\ ParserIdle
    /\ \E w \in Seq(0..Letter), l \in BOOLEAN :
        /\ Len(w) <= PowLimit
        /\ ScientificStart(w, l, "split") \/ ScientificStart(w, FALSE, "visit")
ScientificSpec == ScientificInit /\ [][ScientificNext]_<<tvars, svars>>

-----------------------------------------------------------------------------
\* In front of the 'e' a number, behind it an integer.
IsScientific(w) ==
    ExponentsIn(w) # {} /\ WellFormed(BasePart(w)) /\ IsU32(Unsigned(ExponentPart(w)))

\* ret is the number the text says, digit for digit.
IsScientificOf ==
    LET n == Numeral(BasePart(whole))
        e == (IF Negative(Part) THEN -Size ELSE Size) - Fraction(BasePart(whole)) + ret.s
    IN  IF e >= 0 THEN ret.m = n * POWERS[e] ELSE ret.m * POWERS[-e] = n

\* The number in front of the exponent is read by from_str, which rounds it once where
\* its digits do not fit; that is what the exact variant may lose (see ScientificExact),
\* and with all of them read it loses none.  The exponent is applied to what was read:
\* only the lossy variant loses digits by it, half away from zero; an integer comes
\* back with scale 0; what is refused does not fit 96 bits, or needs more places than
\* there are.
ScientificRounded ==
    /\ spc = "done" /\ ppc = "parsed" /\ text # whole /\ IsScientific(whole) /\ ~SeparatorRounds(text) =>
        /\ IsParseOf(parsed, BasePart(whole))
        /\ ~lossy /\ parsed.s = Fraction(BasePart(whole)) => IsScientificOf
    /\ spc = "done" /\ ppc = "parsed" /\ text # whole =>
        LET s == IF Negative(Part) THEN parsed.s + Size ELSE parsed.s - Size
        IN  /\ ret.m # 0 => ret.neg = parsed.neg
            /\ IF s < 0 THEN ret.m = parsed.m * POWERS[-s] /\ ret.s = 0
               ELSE IF s <= MAX_SCALE THEN ret.m = parsed.m /\ ret.s = s
               ELSE lossy /\ ret.m = HalfUp(parsed.m, POWERS[s - MAX_SCALE]) /\ ret.s = MAX_SCALE
    /\ spc = "exceeds" => parsed.m * POWERS[Size - parsed.s] > Max96
    /\ spc = "scale_exceeds" => Size > MAX_SCALE \/ (~lossy /\ Negative(Part) /\ parsed.s + Size > MAX_SCALE)
    /\ spc = "failed" /\ IsScientific(whole) => ppc = "overflow"

\* The documentation of from_scientific_exact has an underflow that cannot be
\* represented reported as an error: a number that is returned is the one in the text.
ScientificExact ==
    spc = "done" /\ ppc = "parsed" /\ text # whole /\ ~lossy /\ IsScientific(whole) => IsScientificOf
===============================================================================
