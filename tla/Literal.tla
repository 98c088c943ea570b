-------------------------------- MODULE Literal --------------------------------
(***************************************************************************)
(* The parser behind dec!() (macros/src/str.rs): it runs in the compiler,  *)
(* counts in an i128 that saturates, and rounds nothing.                   *)
(***************************************************************************)
EXTENDS DecimalBase, Numerals

CONSTANTS
    Max128,     \* i128::MAX
    Max32,      \* i32::MAX
    Max8        \* u8::MAX

ASSUME LiteralAssumption ==
    /\ Max128 \in Nat /\ Max32 \in Nat /\ Max8 \in Nat
    /\ Max128 > Ten * Max96 /\ Max128 > Max32 /\ Max32 > MAX_SCALE

MaxRadix    == 2 * Ten     \* 36

\* A byte is a digit (of some radix) or one of these: the point, `_`, the signs, a
\* blank, the exponent mark, the letters of a radix prefix, any other.
LPoint      == MaxRadix
LUnderscore == MaxRadix + 1
LMinus      == MaxRadix + 2
LPlus       == MaxRadix + 3
LBlank      == MaxRadix + 4
LExponent   == MaxRadix + 5
LBinary     == MaxRadix + 6
LHex        == MaxRadix + 7
LOther      == MaxRadix + 8
PrefixRadix == [p \in {LBinary, LHex} |-> IF p = LBinary THEN 2 ELSE MaxRadix]

VARIABLES
    literal,    \* what dec!() is given: [text, radix (0 for none), exp]
    src,        \* the bytes that are left
    positive,   \* `is_positive`
    base,       \* `radix`
    num,        \* `num`
    count,      \* `count`: the digits of the number being read
    exp,        \* `exp`
    ePart,      \* `e_part` with the sign before it: [up, n]
    unpacked,   \* the decimal returned
    lpc         \* the number being read, or how the parser returned

lvars == <<literal, src, positive, base, num, count, exp, ePart, unpacked, lpc>>

NoLiteral == [text |-> <<>>, radix |-> 0, exp |-> 0]

LiteralIs(l, state) ==
    /\ literal = l /\ src = l.text /\ positive = TRUE /\ base = Ten
    /\ num = 0 /\ count = 0 /\ exp = l.exp /\ ePart = [up |-> TRUE, n |-> 0]
    /\ unpacked = ZERO /\ lpc = state

LiteralIdle     == LiteralIs(NoLiteral, "idle")
LiteralStart(l) == LiteralIs(l, "sign")

\* The text after its first byte, or after all of the bytes in `set` that lead it.
Beyond(s)       == SubSeq(s, 2, Len(s))
Skip(s, set)    ==
    LET k == CHOOSE k \in 0..Len(s) : /\ \A i \in 1..k : s[i] \in set
                                      /\ k = Len(s) \/ s[k + 1] \notin set
    IN  SubSeq(s, k + 1, Len(s))
Starts(s, set)  == s # <<>> /\ Head(s) \in set

Return(state) ==
    /\ lpc' = state
    /\ UNCHANGED <<literal, src, positive, base, num, count, exp, ePart, unpacked>>

-----------------------------------------------------------------------------
InvalidRadix ==
    /\ lpc = "sign" /\ literal.radix \notin {0} \union (2..MaxRadix)
    /\ Return("invalidradix")

\* Blanks may follow a minus, `_` a prefix.
LiteralSign ==
    /\ lpc = "sign" /\ literal.radix \in {0} \union (2..MaxRadix)
    /\ LET signed == IF Starts(src, {LMinus}) THEN Skip(Beyond(src), {LBlank}) ELSE src
           prefix == /\ literal.radix = 0
                     /\ Starts(signed, {0}) /\ Starts(Beyond(signed), DOMAIN PrefixRadix)
       IN  /\ positive' = ~Starts(src, {LMinus})
           /\ src' = IF prefix THEN Skip(Beyond(Beyond(signed)), {LUnderscore}) ELSE signed
           /\ base' = IF prefix THEN PrefixRadix[signed[2]]
                      ELSE IF literal.radix = 0 THEN Ten ELSE literal.radix
           /\ lpc' = IF literal.radix = 0 /\ ~prefix THEN "whole" ELSE "integer"
    /\ UNCHANGED <<literal, num, count, exp, ePart, unpacked>>

\* The counter is a u8 and the exponent an i32; which wrap, unless the build checks them.
Counted(n) == n % (Max8 + 1)
Integer32  == -(Max32 + 1)..Max32
Wrapped(e) == ((e + Max32 + 1) % (2 * (Max32 + 1))) - (Max32 + 1)

\* Mutant of Saturating: the i128 wraps.
Wrapping(n) == n % (Max128 + 1)

Saturating(n) == SmallerOf(n, Max128)

\* parse_bytes_inner, on `num` or on the exponent.
Stages == {"integer", "whole", "fraction", "exponent"}
LiteralDigit ==
    /\ lpc \in Stages /\ Starts(src, 0..(base - 1))
    /\ IF lpc = "exponent"
       THEN ePart' = [ePart EXCEPT !.n = Saturating(Saturating(@ * base) + Head(src))] /\ num' = num
       ELSE num' = Saturating(Saturating(num * base) + Head(src)) /\ ePart' = ePart
    /\ count' = Counted(count + 1)
    /\ src' = Beyond(src)
    /\ UNCHANGED <<literal, positive, base, exp, unpacked, lpc>>

LiteralUnderscore ==
    /\ lpc \in Stages /\ Starts(src, {LUnderscore}) /\ count > 0
    /\ src' = Beyond(src)
    /\ UNCHANGED <<literal, positive, base, num, count, exp, ePart, unpacked, lpc>>

\* It stops at any other byte, or at the end.
Stopped(state) ==
    /\ lpc = state
    /\ ~Starts(src, 0..(base - 1)) /\ ~(Starts(src, {LUnderscore}) /\ count > 0)

IntegerDone ==
    /\ Stopped("integer")
    /\ Return(IF src # <<>> THEN "unparseable" ELSE IF count = 0 THEN "empty" ELSE "decimal")

\* After the digits of a mantissa: an exponent, the end, or something else.
AfterMantissa ==
    IF Starts(src, {LExponent})
    THEN LET signed == Starts(Beyond(src), {LMinus, LPlus})
         IN  /\ ePart' = [up |-> ~Starts(Beyond(src), {LMinus}), n |-> 0]
             /\ src' = IF signed THEN Beyond(Beyond(src)) ELSE Beyond(src)
             /\ lpc' = "exponent"
    ELSE /\ lpc' = IF src = <<>> THEN "decimal" ELSE "unparseable"
         /\ UNCHANGED <<src, ePart>>

WholeDone ==
    /\ Stopped("whole")
    /\ \/ count = 0 /\ Return("empty")
       \/ /\ count # 0 /\ Starts(src, {LPoint})
          /\ src' = Beyond(src) /\ lpc' = "fraction" /\ count' = 0
          /\ UNCHANGED <<literal, positive, base, num, exp, ePart, unpacked>>
       \/ /\ count # 0 /\ ~Starts(src, {LPoint})
          /\ AfterMantissa /\ count' = 0
          /\ UNCHANGED <<literal, positive, base, num, exp, unpacked>>

FractionDone ==
    /\ Stopped("fraction")
    /\ \/ count = 0 /\ src # <<>> /\ Return("fractionempty")
       \/ (count # 0 \/ src = <<>>) /\ num > Max96 /\ Return("underflow")
       \/ /\ count # 0 \/ src = <<>>
          /\ num <= Max96
          /\ AfterMantissa /\ exp' = Wrapped(exp - count) /\ count' = 0
          /\ UNCHANGED <<literal, positive, base, num, unpacked>>

Exponential == IF ePart.up THEN ePart.n ELSE -ePart.n
ExponentDone ==
    /\ Stopped("exponent")
    /\ \/ ePart.n > Max32 /\ Return("invalidexp")
       \/ /\ ePart.n <= Max32
          /\ exp' = Wrapped(exp + Exponential)
          /\ lpc' = IF src = <<>> THEN "decimal" ELSE "unparseable"
          /\ UNCHANGED <<literal, src, positive, base, num, count, ePart, unpacked>>

\* A build with overflow checks stops where the others wrap.
Overflows ==
    /\ \/ lpc \in Stages /\ Starts(src, 0..(base - 1)) /\ count = Max8
       \/ Stopped("fraction") /\ (count # 0 \/ src = <<>>) /\ num <= Max96 /\ exp - count \notin Integer32
       \/ Stopped("exponent") /\ ePart.n <= Max32 /\ exp + Exponential \notin Integer32
    /\ Return("panics")

-----------------------------------------------------------------------------
\* to_decimal: a power of ten that does not fit an i128 is not multiplied at all.
Shifted == IF exp > 0 /\ num <= Max128 \div POWERS[exp] THEN num * POWERS[exp] ELSE num

InvalidExp ==
    /\ lpc = "decimal" /\ (exp > MAX_SCALE \/ exp < -MAX_SCALE)
    /\ Return("invalidexp")

ExceedsValue ==
    /\ lpc = "decimal" /\ exp \in -MAX_SCALE..MAX_SCALE /\ Shifted > Max96
    /\ Return("exceeds")

Unpacked ==
    /\ lpc = "decimal" /\ exp \in -MAX_SCALE..MAX_SCALE /\ Shifted <= Max96
    /\ unpacked' = [neg |-> ~positive /\ Shifted > 0, m |-> Shifted, s |-> IF exp >= 0 THEN 0 ELSE -exp]
    /\ lpc' = "unpacked"
    /\ UNCHANGED <<literal, src, positive, base, num, count, exp, ePart>>

LiteralNext ==
    \/ InvalidRadix \/ LiteralSign \/ LiteralDigit \/ LiteralUnderscore
    \/ IntegerDone \/ WholeDone \/ FractionDone \/ ExponentDone \/ Overflows
    \/ InvalidExp \/ ExceedsValue \/ Unpacked

\* Any text, any radix and any exponent.
LiteralInit == \E l \in [text : Seq(0..LOther), radix : Nat, exp : Integer32] : LiteralStart(l)
LiteralSpec == LiteralInit /\ [][LiteralNext]_lvars

-----------------------------------------------------------------------------
(***************************************************************************)
(* What the text says, read as a whole.                                    *)
(***************************************************************************)
\* Where the mantissa ends, and its fraction begins.
FirstOf(set, n) == IF set = {} THEN n ELSE CHOOSE i \in set : \A j \in set : i <= j
MarkAt  == FirstOf({i \in DOMAIN literal.text : literal.text[i] = LExponent}, Len(literal.text) + 1)
PointAt == FirstOf({i \in 1..(MarkAt - 1) : literal.text[i] = LPoint}, MarkAt - 1)

Significant == ValueTo(literal.text, 0..(base - 1), base)[MarkAt - 1]
Decimals    == LET digits == CountTo(literal.text, 0..(base - 1)) IN digits[MarkAt - 1] - digits[PointAt]

\* The exponent behind the mark, and the power of ten with it.
Tenfold == LET e == SubSeq(literal.text, MarkAt + 1, Len(literal.text))
               n == ValueTo(e, 0..(Ten - 1), Ten)[Len(e)]
           IN  IF Starts(e, {LMinus}) THEN -n ELSE n
Power   == literal.exp - Decimals + Tenfold

\* The decimal is what the text says, digit for digit.
IsLiteral ==
    /\ unpacked.m = Significant * POWERS[IF Power > 0 THEN Power ELSE 0]
    /\ unpacked.s = IF Power > 0 THEN 0 ELSE -Power
    /\ unpacked.neg = (Starts(literal.text, {LMinus}) /\ Significant > 0)

\* The tests of the parser and the message of ParseError::ExceedsMaximumPossibleValue
\* have a number that is too large refused: a literal is never another number.
LiteralExact == lpc = "unpacked" => IsLiteral

\* The u8 holds the number of decimals, the i32 the exponents.
NothingWraps == Decimals <= Max8 /\ literal.exp - Decimals \in Integer32 /\ Power \in Integer32

\* A literal is exactly what its text says, in any radix, with the `_` it contains and
\* its two exponents added up, unless the power of ten overflows the i128 (then the
\* literal is read without it).  It is refused for its value only if no mantissa of 96
\* bits, or no scale, holds that value as it is written.
LiteralAgrees ==
    /\ lpc = "underflow" => Significant > Max96
    /\ NothingWraps =>
        /\ lpc = "unpacked" => IsLiteral \/ (Power > 0 /\ Significant > Max128 \div POWERS[Power])
        /\ lpc = "exceeds" => Significant > Max96 \div POWERS[IF Power > 0 THEN Power ELSE 0]
        /\ lpc = "invalidexp" => Tenfold \notin -Max32..Max32 \/ Power \notin -MAX_SCALE..MAX_SCALE
===============================================================================
