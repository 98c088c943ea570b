-------------------------------- MODULE Parser --------------------------------
(***************************************************************************)
(* parse_str_radix_10 and parse_str_radix_10_exact (str.rs): the chain of  *)
(* functions that reads a text byte by byte, first into 64 bits, then into *)
(* 96, and rounds at the first digit there is no room for.  The const      *)
(* generics of those functions are the record `seen`; which function runs  *)
(* next is `ppc`.  A digit is its value, every other byte a number above.  *)
(***************************************************************************)
EXTENDS DecimalBase, Numerals

CONSTANTS
    BYTES_TO_OVERFLOW_U64,  \* texts of this length and above may leave 64 bits (18)
    WILL_OVERFLOW_U64       \* from here on another digit might not fit them

ASSUME ParserAssumption ==
    /\ BYTES_TO_OVERFLOW_U64 \in 1..(MAX_I64_SCALE + 1)
    /\ WILL_OVERFLOW_U64 \in 1..(B2 \div Ten - 1)
    /\ BYTES_TO_OVERFLOW_U64 <= MAX_SCALE

VARIABLES
    text,       \* the argument
    bytes,      \* `bytes`: what is left of it
    seen,       \* POINT, NEG, HAS, BIG and ROUND
    data,       \* `data64`, `data`: the digits read
    places,     \* `scale`
    parsed,     \* the decimal returned
    ppc         \* the function that runs next, or how the last one returned

tvars == <<text, bytes, seen, data, places, parsed, ppc>>

Digits     == 0..(Ten - 1)
Point      == Ten
Underscore == Ten + 1
Minus      == Ten + 2
Plus       == Ten + 3
Exponent   == Ten + 4       \* 'e' or 'E'
Letter     == Ten + 5       \* any other byte
Half       == Ten \div 2

Failed == {"invalid", "overflow", "underflow"}

\* parse_str_radix_10_dispatch, with the length test of its caller.
Fresh(t, round) == [point |-> FALSE, neg |-> FALSE, has |-> FALSE,
                    big |-> Len(t) >= BYTES_TO_OVERFLOW_U64, round |-> round]

ParserIdle ==
    /\ text = <<>> /\ bytes = <<>> /\ seen = Fresh(<<>>, TRUE)
    /\ data = 0 /\ places = 0 /\ parsed = ZERO /\ ppc = "idle"

ParseStart(t, round) ==
    /\ text = t /\ bytes = t /\ seen = Fresh(t, round)
    /\ data = 0 /\ places = 0 /\ parsed = ZERO /\ ppc = "first"

ParseCall(t, round) ==
    /\ text' = t /\ bytes' = t /\ seen' = Fresh(t, round)
    /\ data' = 0 /\ places' = 0 /\ parsed' = ZERO /\ ppc' = "first"

-----------------------------------------------------------------------------
At(stages) == ppc \in stages /\ bytes # <<>>
byte == Head(bytes)

\* handle_data, at the end of the text; a text without a digit is an error.
End ==
    /\ ppc \in {"first", "byte64", "byte128", "lookahead"} /\ bytes = <<>>
    /\ ppc' = IF seen.has THEN "parsed" ELSE "invalid"
    /\ parsed' = IF seen.has THEN FromParts(data, seen.neg, places) ELSE parsed
    /\ UNCHANGED <<text, bytes, seen, data, places>>

Sign ==
    /\ At({"first"}) /\ byte \in {Minus, Plus}
    /\ seen' = [seen EXCEPT !.neg = (byte = Minus)]
    /\ bytes' = Tail(bytes) /\ ppc' = "byte64"
    /\ UNCHANGED <<text, data, places, parsed>>

\* handle_digit_64: there is room for the digit; the stage of the next byte
\* depends on what the digit left.
Digit64 ==
    /\ At({"first", "byte64"}) /\ byte \in Digits
    /\ data' = data * Ten + byte
    /\ places' = IF seen.point THEN places + 1 ELSE 0
    /\ seen' = [seen EXCEPT !.has = TRUE]
    /\ bytes' = Tail(bytes)
    /\ ppc' = IF bytes' # <<>> /\ seen.point /\ seen.big /\ places' >= MAX_SCALE
              THEN (IF seen.round THEN "round" ELSE "underflow")
              ELSE IF bytes' # <<>> /\ seen.big /\ data' >= WILL_OVERFLOW_U64 THEN "byte128"
              ELSE "byte64"
    /\ UNCHANGED <<text, parsed>>

\* handle_point, and the same in handle_full_128.
PointSeen ==
    /\ At({"first", "byte64", "byte128"}) /\ byte = Point /\ ~seen.point
    /\ seen' = [seen EXCEPT !.point = TRUE]
    /\ bytes' = Tail(bytes)
    /\ ppc' = IF ppc = "byte128" THEN "byte128" ELSE "byte64"
    /\ UNCHANGED <<text, data, places, parsed>>

\* handle_separator, and the same in handle_full_128.
Separator ==
    /\ At({"byte64", "byte128"}) /\ byte = Underscore /\ seen.has
    /\ bytes' = Tail(bytes)
    /\ UNCHANGED <<text, seen, data, places, parsed, ppc>>

\* tail_invalid_digit.
Invalid ==
    /\ At({"first", "byte64", "byte128"}) /\ byte \notin Digits
    /\ ~(byte = Point /\ ~seen.point)
    /\ ~(byte = Underscore /\ seen.has)
    /\ ~(byte \in {Minus, Plus} /\ ppc = "first")
    /\ ppc' = "invalid"
    /\ UNCHANGED <<text, bytes, seen, data, places, parsed>>

\* handle_full_128 on a digit that fits.
Digit128 ==
    /\ At({"byte128"}) /\ byte \in Digits /\ data * Ten + byte <= Max96
    /\ data' = data * Ten + byte
    /\ places' = IF seen.point THEN places + 1 ELSE places
    /\ bytes' = Tail(bytes)
    /\ ppc' = IF bytes' # <<>> /\ seen.point /\ places' >= MAX_SCALE
              THEN (IF seen.round THEN "lookahead" ELSE "underflow")
              ELSE "byte128"
    /\ UNCHANGED <<text, seen, parsed>>

\* handle_full_128 on one that does not.
Full128 ==
    /\ At({"byte128"}) /\ byte \in Digits /\ data * Ten + byte > Max96
    /\ ppc' = IF ~seen.point THEN "overflow" ELSE IF seen.round THEN "round" ELSE "underflow"
    /\ UNCHANGED <<text, bytes, seen, data, places, parsed>>

\* Mutant of LookAhead: the separator is the rounding position, as in 64 bits.
LookAheadNot ==
    /\ At({"lookahead"})
    /\ ppc' = "round"
    /\ UNCHANGED <<text, bytes, seen, data, places, parsed>>

\* In 128 bits the separators at the rounding position are skipped.
LookAhead ==
    /\ At({"lookahead"})
    /\ bytes' = IF byte = Underscore THEN Tail(bytes) ELSE bytes
    /\ ppc' = IF byte = Underscore THEN "lookahead" ELSE "round"
    /\ UNCHANGED <<text, seen, data, places, parsed>>

\* maybe_round: the byte at the rounding position decides, nothing after it is
\* read.  A carry over 96 bits gives a digit back.
MaybeRound ==
    LET digit   == IF byte \in Digits THEN byte ELSE 0
        rounded == IF digit >= Half THEN data + 1 ELSE data
    IN  /\ At({"round"})
        /\ IF byte \notin Digits \union {Underscore} /\ ~(byte = Point /\ ~seen.point)
           THEN ppc' = "invalid" /\ UNCHANGED <<data, places, parsed>>
           ELSE IF rounded > Max96 /\ places = 0
           THEN ppc' = "overflow" /\ data' = rounded /\ UNCHANGED <<places, parsed>>
           ELSE /\ data' = IF rounded > Max96 THEN (rounded + Half - 1) \div Ten ELSE rounded
                /\ places' = IF rounded > Max96 THEN places - 1 ELSE places
                /\ parsed' = FromParts(data', seen.neg, places')
                /\ ppc' = "parsed"
        /\ UNCHANGED <<text, bytes, seen>>

\* Any text of bytes.  PowLimit, which bounds its length, is as large as one likes: the
\* properties ask POWERS for the places that are given up.
ParserInit ==
    \E t \in Seq(0..Letter), r \in BOOLEAN : Len(t) <= PowLimit /\ ParseStart(t, r)
ParserNext ==
    \/ End \/ Sign \/ Digit64 \/ PointSeen \/ Separator \/ Invalid
    \/ Digit128 \/ Full128 \/ LookAhead \/ MaybeRound
ParserSpec == ParserInit /\ [][ParserNext]_tvars

-----------------------------------------------------------------------------
(***************************************************************************)
(* What a text is worth.                                                   *)
(***************************************************************************)
Signed(t)   == t # <<>> /\ t[1] \in {Minus, Plus}
DigitsIn(t) == {i \in DOMAIN t : t[i] \in Digits}
PointsIn(t) == {i \in DOMAIN t : t[i] = Point}

\* One sign, one point, a digit at least, separators only behind a digit.
WellFormed(t) ==
    LET body == IF Signed(t) THEN 2..Len(t) ELSE DOMAIN t
    IN  /\ \A i \in body : t[i] \in Digits \union {Point, Underscore}
        /\ \A i, j \in PointsIn(t) : i = j
        /\ DigitsIn(t) # {}
        /\ \A i \in body : t[i] = Underscore => \E j \in DigitsIn(t) : j < i

\* Its digits as a number, and how many of them follow the point.
Numeral(t)  == ValueTo(t, Digits, Ten)[Len(t)]
Fraction(t) == IF PointsIn(t) = {} THEN 0
               ELSE LET p == CHOOSE i \in PointsIn(t) : TRUE
                    IN  CountTo(t, Digits)[Len(t)] - CountTo(t, Digits)[p]

\* v / p to the nearest integer, a tie away from zero.
HalfUp(v, p) == (v + p \div 2) \div p

\* d is the number of t, rounded once if it has more digits than fit, and no
\* more of them given up than that.
IsParseOf(d, t) ==
    LET v == Numeral(t)
        f == Fraction(t)
    IN  /\ d.s <= SmallerOf(f, MAX_SCALE)
        /\ d.m = HalfUp(v, POWERS[f - d.s])
        /\ d.neg = (t[1] = Minus /\ d.m # 0)
        /\ d.s < SmallerOf(f, MAX_SCALE) => HalfUp(v, POWERS[f - d.s - 1]) > Max96

\* In the 64 bit stage a separator right behind the last place counts as the
\* digit 0, and what follows it is not read.
SeparatorRounds(t) ==
    \E n \in 1..(Len(t) - 1) :
        LET head == SubSeq(t, 1, n)
        IN  /\ t[n + 1] = Underscore /\ t[n] \in Digits
            /\ Fraction(head) = MAX_SCALE
            /\ Numeral(head) \div Ten < WILL_OVERFLOW_U64

\* What is accepted is well formed as far as it is read, and is the number it
\* says, rounded half away from zero at the first digit that there is no room for,
\* wherever the sign, the point, the separators and the change from 64 to 128
\* bits are.  The exact variant rounds nothing and refuses nothing that fits.
ParsedRounded ==
    /\ ppc = "parsed" =>
        IF ~WellFormed(text)
        THEN \E n \in 1..(Len(text) - 1) :
                LET head == SubSeq(text, 1, n)
                IN  /\ WellFormed(head) /\ IsParseOf(parsed, head)
                    /\ parsed.s < Fraction(head) \/ SeparatorRounds(text)
        ELSE /\ ~SeparatorRounds(text) => IsParseOf(parsed, text)
             /\ ~seen.round => parsed.s = Fraction(text)
    /\ ppc = "invalid" => ~WellFormed(text)
    /\ ppc = "overflow" /\ WellFormed(text) => HalfUp(Numeral(text), POWERS[Fraction(text)]) > Max96
    /\ ppc = "underflow" =>
        /\ ~seen.round
        /\ WellFormed(text) => \/ Fraction(text) > MAX_SCALE \/ Numeral(text) > Max96
                               \/ text[Len(text)] = Underscore
===============================================================================
