----------------------------- MODULE DecimalBase -----------------------------
(***************************************************************************)
(* The number system every other module works in.  A decimal is a sign, a  *)
(* mantissa of three machine words and a scale: (-1)^neg * m / Ten^s.      *)
(* The code fixes Base = 2^32, Ten = 10, MAX_SCALE = 28, MAX_I32_SCALE = 9 *)
(* and MAX_I64_SCALE = 19; here they are constants related by the same     *)
(* laws, so that TLC can run with words of a few bits and the proofs hold  *)
(* for every width.                                                        *)
(***************************************************************************)
EXTENDS Integers

CONSTANTS
    Base,           \* one past the largest value of a word (2^32)
    WordBits,       \* its bits (32)
    Ten,            \* the radix of the scale
    MAX_SCALE,      \* the largest scale of a decimal
    MAX_I32_SCALE,  \* the largest power of Ten a word holds
    MAX_I64_SCALE,  \* the largest power of Ten two words hold
    POWERS,         \* the tables of powers, as one function on 0..PowLimit
    PowLimit        \* the largest exponent the models ask POWERS for

ASSUME BaseAssumption == /\ Base \in Nat /\ Base > 2 /\ Base % 2 = 0
                         /\ Ten \in Nat /\ Ten > 1 /\ Ten < Base /\ Ten % 2 = 0

ASSUME BitsAssumption == WordBits \in Nat \ {0} /\ Base = 2^WordBits

\* What 2^i is for the bits of a mantissa: tlapm has no rules of its own for `^`.
ASSUME TwosAssumption ==
    /\ 2^0 = 1 /\ 2^1 = 2
    /\ \A i \in 0..(3 * WordBits) : 2^i \in Nat \ {0}
    /\ \A i, j \in 0..(3 * WordBits) : i + j <= 3 * WordBits => 2^(i + j) = 2^i * 2^j

ASSUME ScaleAssumption ==
    /\ MAX_SCALE \in Nat /\ MAX_I32_SCALE \in Nat /\ MAX_I64_SCALE \in Nat
    /\ PowLimit \in Nat
    /\ 1 <= MAX_I32_SCALE
    /\ MAX_I32_SCALE <= MAX_I64_SCALE
    /\ MAX_I64_SCALE < MAX_SCALE
    /\ MAX_SCALE <= PowLimit

\* The tables of constants.rs are literals; this is what makes them powers.
ASSUME PowersAssumption ==
    /\ POWERS \in [0..PowLimit -> Nat \ {0}]
    /\ POWERS[0] = 1
    /\ POWERS[1] = Ten
    /\ \A i, j \in 0..PowLimit : i + j <= PowLimit => POWERS[i + j] = POWERS[i] * POWERS[j]
    /\ \A i \in 1..PowLimit : POWERS[i] % 2 = 0

\* POWERS_10 fits words, BIG_POWERS_10 double words, 10^MAX_SCALE a mantissa.
ASSUME WidthAssumption ==
    /\ POWERS[MAX_I32_SCALE] < Base /\ Base < POWERS[MAX_I32_SCALE + 1]
    /\ POWERS[MAX_I64_SCALE] < Base * Base
    /\ POWERS[MAX_SCALE] < Base * Base * Base

-----------------------------------------------------------------------------
Word  == 0..(Base - 1)
B2    == Base * Base            \* one past the largest u64
B3    == Base * Base * Base     \* one past the largest mantissa
Max96 == B3 - 1                 \* Decimal::MAX

Lo(m)    == m % Base
Mid(m)   == (m \div Base) % Base
Hi(m)    == m \div B2
Low64(m) == m % B2

Mantissa == 0..Max96
Decimal  == [neg : BOOLEAN, m : Mantissa, s : 0..MAX_SCALE]

\* Decimal::from_parts: a zero mantissa is never negative.
FromParts(m, neg, s) == [neg |-> neg /\ m # 0, m |-> m, s |-> s]
ZERO == [neg |-> FALSE, m |-> 0, s |-> 0]

\* Only the low word of the mantissa is in use.
OneWord(d) == d.m < Base

SmallerOf(a, b) == IF a <= b THEN a ELSE b

\* The exponent of one chunk of a rescale by Ten^k: the whole of it when it fits a word.
Chunk(k) == SmallerOf(k, MAX_I32_SCALE)

\* POWER_OVERFLOW_VALUES and OVERFLOW_MAX_9_*: the largest mantissa that
\* Ten^x can multiply.
POWER_OVERFLOW(x) == Max96 \div POWERS[x]

(***************************************************************************)
(* The definition of a correct rounding: m is v / p rounded to the nearest *)
(* integer, a tie going to the even neighbour.                             *)
(***************************************************************************)
IsHalfEven(m, v, p) ==
    LET d == 2 * (v - m * p)
    IN  /\ -p <= d /\ d <= p
        /\ (d = p \/ d = -p) => m % 2 = 0

\* The same rounding, computed.
HalfEven(v, p) ==
    LET q == v \div p
        r == 2 * (v % p)
    IN  IF r > p \/ (r = p /\ q % 2 = 1) THEN q + 1 ELSE q

(***************************************************************************)
(* What an operation owes its caller: d is v / Ten^s with its surplus      *)
(* digits rounded once, and none dropped that could have been kept: with   *)
(* one more the mantissa would exceed 96 bits, or the scale its maximum.   *)
(* A zero has no digits to keep.                                           *)
(***************************************************************************)
IsRoundingOf(d, v, s) ==
    IF d.m = 0 THEN 2 * v <= POWERS[IF s > MAX_SCALE THEN s - MAX_SCALE ELSE 0]
    ELSE /\ d.s <= s
         /\ IsHalfEven(d.m, v, POWERS[s - d.s])
         /\ d.s < SmallerOf(s, MAX_SCALE) => HalfEven(v, POWERS[s - d.s - 1]) > Max96
=============================================================================
