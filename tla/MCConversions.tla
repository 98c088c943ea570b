----------------------------- MODULE MCConversions -----------------------------
(***************************************************************************)
(* The conversions with words of four bits in radix 6.  One call is made   *)
(* in a behaviour; the machines it does not need stay idle.                *)
(***************************************************************************)
EXTENDS Formatter, RadixParser, BinaryFraction, Postgres, Literal, Powers, Angles, Forms, RandomRange

MCPowers == [i \in 0..11 |-> 6^i]

\* Texts of up to four bytes, of every kind.
ShortTexts == UNION {[1..n -> {0, 2, 3, Point, Underscore, Minus, Letter}] : n \in 0..4}

\* Numbers around the limits of the two stages and of 96 bits, with the point
\* anywhere, leading zeros, and up to three bytes behind them.
LongTexts ==
    LET numerals == {Spelled(n) : n \in {1, 40, 41, 42, 682, 683, 4094, 4095, 4096}}
        tails    == UNION {[1..n -> {0, 2, 3, Point, Underscore, Letter}] : n \in 0..3}
        padded   == {[i \in 1..k |-> 0] \o d : k \in {0, 3}, d \in numerals}
    IN  {SubSeq(d, 1, k) \o <<Point>> \o SubSeq(d, k + 1, Len(d)) \o t :
            k \in 0..1, d \in padded, t \in tails}
        \union {d \o t : d \in padded, t \in tails}

\* A base that fits or does not, or only without its last digits, and an exponent.
ScientificTexts ==
    LET bases == {<<>>, <<0>>, <<3>>, <<2, 0>>, <<Minus, 5, 3>>, <<1, Point, 2>>, <<3, Point, 0, 5, 4>>,
                  <<Point, 0, 0, 3, 3>>, <<4, 0, 4, 0, 3>>, <<3, 0, 5, 4, 4>>, <<1, 0, Point, 0, 0, 0>>,
                  <<3, 0, 5, Point, 4, 3>>, <<Point, 0, 0, 0, 0, 1>>, <<Point, 0, 0, 0, 0, 3>>, <<1, Point, 0, 0, 3, 0, 2>>,
                  <<Minus, 3, Point, 3, 3, 3, 3, 3>>, <<3, 0, 5, 4, Point, 3, 3>>, <<5, 5, 5, Point, 5, 5>>}
        exps  == {<<>>, <<Letter>>, <<3, Exponent>>, <<Minus>>, <<Plus, 2>>, <<Minus, Plus, 1>>}
                 \union {<<n>> : n \in 0..5} \union {<<Minus, n>> : n \in 0..5}
    IN  bases \union {ba \o <<Exponent>> \o e : ba \in bases, e \in exps}

\* Every scale, mantissas of every length.
ShownDecimals == {d \in [neg : BOOLEAN, s : 0..MAX_SCALE,
                         m : {0, 1, 6, 35, 36, 72, 100, 215, 216, 1080, 1295, 1296, 3000, 4092, 4095}] : TRUE}
ShortStyles == {st \in Styles : st.prec <= 6}

\* What log(Base^3) makes of the radices 2, 3, 4 and 12, and of no other.
MCEstimatedPrecision == [r \in {2, 3, 4, 12} |-> CASE r = 2 -> 12 [] r = 3 -> 8 [] r = 4 -> 6 [] r = 12 -> 4]

\* Numbers at the limit of 96 bits in each radix, behind zeros, cut anywhere by a
\* point, with up to two bytes behind them; and short texts of every kind.
RadixTexts(r) ==
    LET spelled(n) == LET d[k \in 0..n] == IF k < r THEN <<k>> ELSE Append(d[k \div r], k % r) IN d[n]
        zeros(k)   == [i \in 1..k |-> 0]
        values     == {spelled(n) : n \in {1, 1365, 2047, 4094, 4095, 4096, 6143}}
        tails      == UNION {[1..k -> {0, r - 1, r \div 2, RPoint, RUnderscore}] : k \in 0..2}
        pointed(d) == {d} \union {SubSeq(d, 1, k) \o <<RPoint>> \o SubSeq(d, k + 1, Len(d)) : k \in 0..Len(d)}
    IN  UNION {{p \o t : p \in pointed(zeros(k) \o d), t \in tails} : k \in {0, 2, 4}, d \in values}
        \union UNION {[1..k -> {0, 1, r, RPoint, RUnderscore, RMinus, RPlus, ROther}] : k \in 0..3}

\* Formats of 7 and 5 significant bits: numbers with a fraction of any length that 96
\* bits hold or not, integers up to twice too large, denormalised numbers.
MCFormat == [is64 \in BOOLEAN |->
    IF is64 THEN [fraction |-> 6, bias |-> 17, infinite |-> 31, digits |-> 2]
    ELSE [fraction |-> 4, bias |-> 17, infinite |-> 31, digits |-> 1]]
Floats(is64, signs) == [is64 : {is64}, neg : signs, biased : 0..31, fraction : 0..(Two(MCFormat[is64].fraction) - 1)]
FloatCalls == \E r \in BOOLEAN, f \in Floats(TRUE, {FALSE}) \union Floats(FALSE, {TRUE}) : FloatStart(f, r)

\* Multiples of a group and other mantissas, at every scale; groups of zeros, halves
\* and limits of every weight, up to one that leaves nothing in 128 bits, and those
\* around the limit of 96 bits.
PostgresCalls ==
    \/ \E n \in BOOLEAN, m \in (0..80) \union {36 * k : k \in 0..113} \union (4090..4095), s \in 0..MAX_SCALE :
            ToPostgres([neg |-> n, m |-> m, s |-> s])
    \/ \E g \in UNION {[1..k -> {0, 1, 17, 18, 35}] : k \in 1..3}, w \in -3..4 \union 7..9, s \in 0..5 :
            FromPostgres([neg |-> TRUE, weight |-> w, scale |-> s, digits |-> g])
    \/ \E i \in {5, 6}, j \in {26, 27}, t \in UNION {[1..k -> {0, 17, 18, 35}] : k \in 1..3}, w \in 1..3, s \in {0, 4} :
            FromPostgres([neg |-> FALSE, weight |-> w, scale |-> s, digits |-> <<3, i, j>> \o t])

\* Bases and exponents whose power TLC's integers hold; exponents with zeros or a
\* fraction behind the point, and of two words.
PowerBases(n) ==
    LET tops == <<4095, 4095, 1290, 200, 72, 35, 21>>
    IN  {d \in [neg : BOOLEAN, m : (0..40) \union {69, 100, 199, 215, 216, 217, 999, 1290, 2500, 4095}, s : 0..MAX_SCALE] :
            n > 0 => d.s * n <= PowLimit /\ d.m <= tops[n]}
MathsCalls ==
    \/ \E n \in 0..7, neg \in BOOLEAN : \E d \in PowerBases(n) : MathsStart("powi", d, [neg |-> neg, m |-> n, s |-> 0])
    \/ \E n \in 0..5, e \in 0..2, f \in {0, 3} : \E d \in PowerBases(n) :
            MathsStart("powd", d, [neg |-> d.neg, m |-> n * POWERS[e] + (IF e = 0 THEN 0 ELSE f), s |-> e])
    \/ \E n \in {15, 16, 96}, s \in 0..2, k \in {0, 1, 2}, neg \in BOOLEAN :
            MathsStart("powd", [neg |-> FALSE, m |-> k, s |-> 0], [neg |-> neg, m |-> n, s |-> s])
    \/ \E k \in {4 * j : j \in 0..1023} \union {4095}, s \in 0..MAX_SCALE : MathsStart("sqrt", [neg |-> k = 36, m |-> k, s |-> s], ZERO)
    \/ \E k \in (0..40) \union {215, 216, 217, 432, 1296, 2592}, s \in 0..MAX_SCALE, neg \in BOOLEAN :
            MathsStart("log10", [neg |-> neg, m |-> k, s |-> s], ZERO)

\* Every angle of up to four turns around each of the quarters, and large ones.
AngleCalls == \E f \in {"sin", "cos", "tan"} :
    \/ \E q \in -16..16, d \in -2..2 : AngleStart(f, q * QUARTER_PI + d)
    \/ \E i \in -150..150 : AngleStart(f, 61 * i)
    \/ \E i \in 4000..4095, s \in 0..3 : AngleStart(f, i * POWERS[MAX_SCALE - s])

\* Every scale the flags can hold; integers at the limits of their type and of 96 bits.
FormDecimals == [neg : BOOLEAN, m : {i * 15 : i \in 0..273} \union {127, 128, 129, 256, 768, 4608}, s : 0..MAX_SCALE]
FormCalls ==
    \/ \E d \in {e \in FormDecimals : e.m <= Max96} :
            \/ FormStart("serialize", "u32", d)
            \/ \E k \in {"i64", "u64", "i128", "u128"} : FormStart("to", k, d)
    \/ \E n \in BOOLEAN, f \in 0..15, i \in Mantissa : (n <=> i % 7 = 0) /\ FormStart("deserialize", "u32", [neg |-> n, field |-> f, m |-> i])
    \/ \E k \in {"i32", "u32", "i64", "u64", "i128", "u128"} :
            \E n \in IntegersOf(k) \cap ((-130..256) \union (-4097..-4094) \union (4094..4097) \union {-32768, 32767, 65535}) :
                FormStart("from", k, n)

\* Ends next to each other, at every pair of scales, where both can be had at the
\* larger one and where they cannot.
RangeCalls ==
    LET ends == {d \in [neg : BOOLEAN, m : {0, 1, 3, 36, 40, 683, 4094, 4095}, s : 0..MAX_SCALE] : d.m = 0 => ~d.neg}
    IN  \E e \in ends, f \in ends, incl \in BOOLEAN :
            /\ Off(Amount(e) * POWERS[MAX_SCALE - e.s], Amount(f) * POWERS[MAX_SCALE - f.s])
                  <= 12 * POWERS[MAX_SCALE - SmallerOf(e.s, f.s)]
            /\ RangeStart(e, f, incl)

\* Numbers of every length up to one that leaves 128 bits, with a point or a `_`
\* anywhere, an exponent behind them and a second one given to dec!().
LiteralTexts ==
    LET in(n, r)   == LET d[k \in 0..n] == IF k < r THEN <<k>> ELSE Append(d[k \div r], k % r) IN d[n]
        with(d, c) == {SubSeq(d, 1, k) \o <<c>> \o SubSeq(d, k + 1, Len(d)) : k \in 0..Len(d)}
        values     == {0, 1, 36, 100, 682, 683, 4095, 4096, 32766, 32767, 32768, 33000, 35000, 65536}
        numerals   == {in(n, Ten) : n \in values}
        mantissas  == numerals \union UNION {with(d, c) : d \in numerals, c \in {LPoint, LUnderscore}}
        exps       == {<<>>} \union {<<LExponent>> \o e : e \in {<<>>, <<0>>, <<3>>, <<1, 3>>, <<LMinus, 2>>, <<LMinus, 1, 0>>,
                                       <<LPlus, 4>>, <<5, 5>>, <<LOther>>, <<1, LOther>>, <<LUnderscore, 1>>}}
        signs      == {<<>>, <<LMinus>>, <<LMinus, LBlank>>, <<LBlank>>}
    IN  {[text |-> s \o m \o e, radix |-> 0, exp |-> x] : s \in {<<>>}, m \in mantissas, e \in exps, x \in {0, 2, -3}}
        \union {[text |-> s \o p \o in(n, r) \o t, radix |-> 0, exp |-> x] :
                    s \in signs, p \in {<<0, LBinary>>, <<0, LHex, LUnderscore>>}, r \in {2},
                    n \in {0, 21}, t \in {<<>>, <<LOther>>}, x \in {0, 2}}
        \union {[text |-> s \o t, radix |-> r, exp |-> 0] :
                    s \in signs, r \in {0, 1, 2, Ten, 12, 13}, t \in {<<>>, <<1>>, <<1, 3, LOther>>, <<LUnderscore, 1>>}}

\* More decimals than a u8 counts, and exponents that leave an i32 on either side.
WideLiterals ==
    LET zeros(k) == [i \in 1..k |-> 0]
        exps     == {<<>>} \union {<<LExponent>> \o e : e \in {<<3>>, <<4, 5>>, <<5, 1>>, <<LMinus, 5, 1>>}}
    IN  {[text |-> m \o e, radix |-> 0, exp |-> x] :
            m \in {<<1>>, <<3, LPoint, 2, 5>>} \union {<<1, LPoint>> \o zeros(k) \o <<1>> : k \in {6, 7, 9}},
            e \in exps, x \in {0, 30, 31, -31}}

ParserCalls     == \E t \in ShortTexts \union LongTexts, r \in BOOLEAN : ParseStart(t, r)
ScientificCalls == \/ \E w \in ScientificTexts, l \in BOOLEAN : ScientificStart(w, l, "split")
                   \/ \E w \in ScientificTexts : ScientificStart(w, FALSE, "visit")
FormatterCalls  == \E d \in ShownDecimals, st \in ShortStyles : FormatStart(d, st)
RadixCalls      == \E r \in {2, 3, 4, 7, 12} : \E t \in IF r = 7 THEN {<<1>>} ELSE RadixTexts(r) : RadixStart(t, r)

LiteralCalls    == \E l \in LiteralTexts \union WideLiterals : LiteralStart(l)

TextIdle  == ParserIdle /\ ScientificIdle /\ FormatterIdle /\ RadixIdle
OtherIdle == FloatIdle /\ PostgresIdle /\ LiteralIdle
MoreIdle  == MathsIdle /\ AngleIdle /\ FormIdle /\ RangeIdle
MCInit ==
    \/ ParserCalls /\ ScientificIdle /\ FormatterIdle /\ RadixIdle /\ OtherIdle /\ MoreIdle
    \/ ParserIdle /\ ScientificCalls /\ FormatterIdle /\ RadixIdle /\ OtherIdle /\ MoreIdle
    \/ ParserIdle /\ ScientificIdle /\ FormatterCalls /\ RadixIdle /\ OtherIdle /\ MoreIdle
    \/ ParserIdle /\ ScientificIdle /\ FormatterIdle /\ RadixCalls /\ OtherIdle /\ MoreIdle
    \/ TextIdle /\ FloatCalls /\ PostgresIdle /\ LiteralIdle /\ MoreIdle
    \/ TextIdle /\ FloatIdle /\ PostgresCalls /\ LiteralIdle /\ MoreIdle
    \/ TextIdle /\ FloatIdle /\ PostgresIdle /\ LiteralCalls /\ MoreIdle
    \/ TextIdle /\ OtherIdle /\ MathsCalls /\ AngleIdle /\ FormIdle /\ RangeIdle
    \/ TextIdle /\ OtherIdle /\ MathsIdle /\ AngleCalls /\ FormIdle /\ RangeIdle
    \/ TextIdle /\ OtherIdle /\ MathsIdle /\ AngleIdle /\ FormCalls /\ RangeIdle
    \/ TextIdle /\ OtherIdle /\ MathsIdle /\ AngleIdle /\ FormIdle /\ RangeCalls

textVars  == <<tvars, svars, fvars, rvars>>
otherVars == <<bvars, qvars, lvars>>
moreVars  == <<mvars, avars, xvars, yvars>>
vars      == <<textVars, otherVars, moreVars>>

MCNext ==
    \/ spc = "idle" /\ ParserNext /\ UNCHANGED <<svars, fvars, rvars, otherVars, moreVars>>
    \/ fpc = "idle" /\ ScientificNext /\ UNCHANGED <<fvars, rvars, otherVars, moreVars>>
    \/ FormatterNext /\ UNCHANGED <<rvars, otherVars, moreVars>>
    \/ RadixNext /\ UNCHANGED <<tvars, svars, fvars, otherVars, moreVars>>
    \/ FloatNext /\ UNCHANGED <<textVars, qvars, lvars, moreVars>>
    \/ PostgresNext /\ UNCHANGED <<textVars, bvars, lvars, moreVars>>
    \/ LiteralNext /\ UNCHANGED <<textVars, bvars, qvars, moreVars>>
    \/ MathsNext /\ UNCHANGED <<textVars, otherVars, avars, xvars, yvars>>
    \/ AngleNext /\ UNCHANGED <<textVars, otherVars, mvars, xvars, yvars>>
    \/ FormNext /\ UNCHANGED <<textVars, otherVars, mvars, avars, yvars>>
    \/ RangeNext /\ UNCHANGED <<textVars, otherVars, mvars, avars, xvars>>
MCSpec == MCInit /\ [][MCNext]_vars

\* A numeral and the power of ten given to dec!().
MCInitLiteral == TextIdle /\ FloatIdle /\ PostgresIdle /\ MoreIdle /\ \E l \in LiteralTexts : LiteralStart(l)
MCSpecLiteral == MCInitLiteral /\ [][MCNext]_vars

\* Texts with an exponent.
MCInitScientific == ParserIdle /\ ScientificCalls /\ FormatterIdle /\ RadixIdle /\ OtherIdle /\ MoreIdle
MCSpecScientific == MCInitScientific /\ [][MCNext]_vars

\* Texts in another radix.
MCInitRadix == ParserIdle /\ ScientificIdle /\ FormatterIdle /\ OtherIdle /\ MoreIdle
               /\ \E r \in {2, 3}, t \in UNION {[1..k -> {0, 1, RPoint}] : k \in 1..4} : RadixStart(t, r)
MCSpecRadix == MCInitRadix /\ [][MCNext]_vars

\* Square roots.
MCInitSqrt == TextIdle /\ OtherIdle /\ AngleIdle /\ FormIdle /\ RangeIdle
              /\ \E k \in 450..460 : MathsStart("sqrt", [neg |-> FALSE, m |-> k, s |-> 0], ZERO)
MCSpecSqrt == MCInitSqrt /\ [][MCNext]_vars
================================================================================
