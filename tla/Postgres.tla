------------------------------- MODULE Postgres -------------------------------
(***************************************************************************)
(* The numeric form of PostgreSQL (postgres/common.rs): a decimal is sent  *)
(* as groups of decimal digits with the weight of the first (to_postgres), *)
(* and read back by multiplying and adding decimals                        *)
(* (checked_from_postgres).                                                *)
(***************************************************************************)
EXTENDS Arithmetic, Numerals

CONSTANTS
    GroupDigits     \* digits in a group: 4

ASSUME PostgresAssumption ==
    /\ GroupDigits \in Nat \ {0} /\ MAX_SCALE % GroupDigits = 0
    /\ POWERS[GroupDigits] <= Max96
    /\ 2 * MAX_SCALE <= PowLimit
    /\ B3 <= POWERS[MAX_SCALE + 1]       \* 2^96 < 10^29
    /\ B3 % Ten = (Ten \div 2) + 1       \* 2^96 ends in a 6

VARIABLES
    sent,           \* the decimal given to to_postgres
    wire,           \* PostgresDecimal: [neg, weight, scale, digits]
    mantissa4,      \* `mantissa` of to_postgres
    got,            \* `result` of checked_from_postgres
    group,          \* how many groups it has used
    qpc             \* where the two routines are

qvars == <<sent, wire, mantissa4, got, group, qpc>>

GroupBase == POWERS[GroupDigits]
Group     == 0..(GroupBase - 1)
NoGroups  == [neg |-> FALSE, weight |-> 0, scale |-> 0, digits |-> <<>>]

PostgresIdle ==
    sent = ZERO /\ wire = NoGroups /\ mantissa4 = 0 /\ got = ZERO /\ group = 0 /\ qpc = "idle"

ToPostgres(d) ==
    sent = d /\ wire = NoGroups /\ mantissa4 = 0 /\ got = ZERO /\ group = 0 /\ qpc = "to"

FromPostgres(w) ==
    sent = ZERO /\ wire = w /\ mantissa4 = 0 /\ got = ZERO /\ group = 0 /\ qpc = "received"

-----------------------------------------------------------------------------
(* to_postgres *)

SendZero ==
    /\ qpc = "to" /\ sent.m = 0
    /\ wire' = [NoGroups EXCEPT !.digits = <<0>>]
    /\ qpc' = "from"
    /\ UNCHANGED <<sent, mantissa4, got, group>>

\* The last group is filled up.
FillGroup ==
    /\ qpc = "to" /\ sent.m # 0
    /\ mantissa4' = sent.m * (IF sent.s % GroupDigits = 0 THEN 1
                             ELSE POWERS[GroupDigits - (sent.s % GroupDigits)])
    /\ qpc' = "groups"
    /\ UNCHANGED <<sent, wire, got, group>>

PushGroup ==
    /\ qpc = "groups" /\ mantissa4 # 0
    /\ wire' = [wire EXCEPT !.digits = <<mantissa4 % GroupBase>> \o @]
    /\ mantissa4' = mantissa4 \div GroupBase
    /\ UNCHANGED <<sent, got, group, qpc>>

\* Groups of zeros after the point are not sent, unless the number is a fraction.
Trimmed(digits, weight) ==
    LET kept == {k \in (IF weight >= 0 THEN weight + 1 ELSE Len(digits))..Len(digits) :
                    \A i \in (k + 1)..Len(digits) : digits[i] = 0}
    IN  SubSeq(digits, 1, CHOOSE k \in kept : \A j \in kept : k <= j)

\* Mutant of FractionGroups: a group that is not full is not counted.
FractionGroupsFull(scale) == scale \div GroupDigits

FractionGroups(scale) == (scale + GroupDigits - 1) \div GroupDigits

Send ==
    /\ qpc = "groups" /\ mantissa4 = 0
    /\ LET weight == Len(wire.digits) - FractionGroups(sent.s) - 1
       IN  wire' = [neg    |-> sent.neg, weight |-> weight, scale |-> sent.s,
                    digits |-> Trimmed(wire.digits, weight)]
    /\ qpc' = "from"
    /\ UNCHANGED <<sent, mantissa4, got, group>>

-----------------------------------------------------------------------------
(* checked_from_postgres *)

\* 10i128.pow(k) for k up to n, in a build without overflow checks: the four words of
\* an i128 keep the low bits.  The upper half of their values is the negative one.
Values128    == B2 * B2
Half128      == Values128 \div 2
Pow128(n)    == LET p[k \in 0..n] == IF k = 0 THEN 1 ELSE (p[k - 1] * Ten) % Values128 IN p
Magnitude(v) == IF v < Half128 THEN v ELSE Values128 - v

\* 10^n is no i128.
PowOverflows(n) == \E k \in 1..n : Pow128(n)[k - 1] * Ten >= Half128

Receiving == qpc \in {"from", "received"}
IntegerGroups == IF wire.weight + 1 > Len(wire.digits) THEN Len(wire.digits) ELSE wire.weight + 1
MissingGroups == IF wire.weight + 1 > Len(wire.digits) THEN wire.weight + 1 - Len(wire.digits) ELSE 0

Answer(state) == /\ got' = got /\ group' = group /\ qpc' = state
                 /\ UNCHANGED <<sent, wire, mantissa4>>

\* result * 10000 + digit, each checked.
IntegerGroup ==
    /\ Receiving /\ group < IntegerGroups
    /\ LET next == got.m * GroupBase + wire.digits[group + 1]
       IN  IF Fits(next, 0) THEN /\ got' = [got EXCEPT !.m = next]
                                 /\ group' = group + 1
                                 /\ UNCHANGED <<sent, wire, mantissa4, qpc>>
           ELSE Answer("refused")

\* The power of ten of the groups of zeros before the point that are not sent does not
\* fit an i128.
PowerWraps == PowOverflows(GroupDigits * MissingGroups)

\* What is multiplied in for them must itself be a decimal: from_i128_with_scale panics
\* if it is not.  A wrapped power may be one: 10^128 is zero.  Its sign is overwritten.
ZeroGroups ==
    /\ Receiving /\ group = IntegerGroups /\ wire.weight + 1 > 0
    /\ LET n     == GroupDigits * MissingGroups
           power == Magnitude(Pow128(n)[n])
       IN  IF power > Max96 THEN Answer("panicked")
           ELSE IF ~Fits(got.m * power, 0) THEN Answer("refused")
           ELSE /\ got' = [got EXCEPT !.m = @ * power]
                /\ qpc' = "fraction"
                /\ UNCHANGED <<sent, wire, mantissa4, group>>

\* A build with overflow checks stops where the others wrap.
PowerOverflows ==
    /\ Receiving /\ group = IntegerGroups /\ wire.weight + 1 > 0
    /\ PowerWraps /\ Answer("panicked")

NoInteger ==
    /\ Receiving /\ wire.weight + 1 <= 0
    /\ Answer("fraction")

\* The places of the group that is next.
Place == GroupDigits * (group + 1 - (wire.weight + 1))

\* What the group adds: nothing beyond the group next to the last place, and a unit
\* of the last place for that one if it is at least half.
Addend ==
    LET digit == wire.digits[group + 1]
    IN  IF Place <= MAX_SCALE THEN [m |-> digit, s |-> Place]
        ELSE IF Place = MAX_SCALE + GroupDigits /\ digit >= GroupBase \div 2
             THEN [m |-> 1, s |-> MAX_SCALE]
        ELSE [m |-> 0, s |-> 0]

Positive(d) == [neg |-> FALSE, m |-> d.m, s |-> d.s]

FractionGroup ==
    /\ qpc = "fraction" /\ group < Len(wire.digits)
    /\ LET sum == SumOf(got, Addend)
       IN  IF Fits(sum.v, sum.s)
           THEN /\ got' = Positive(Rounded(sum.v, sum.s))
                /\ group' = group + 1
                /\ UNCHANGED <<sent, wire, mantissa4, qpc>>
           ELSE Answer("refused")

Receive ==
    /\ qpc = "fraction" /\ group = Len(wire.digits)
    /\ got' = [Positive(Rescaled(got, SmallerOf(wire.scale, MAX_SCALE))) EXCEPT !.neg = wire.neg]
    /\ qpc' = IF sent = ZERO THEN "read" ELSE "returned"
    /\ UNCHANGED <<sent, wire, mantissa4, group>>

PostgresNext ==
    \/ SendZero \/ FillGroup \/ PushGroup \/ Send
    \/ IntegerGroup \/ ZeroGroups \/ PowerOverflows \/ NoInteger \/ FractionGroup \/ Receive

\* What PostgreSQL may send, as far as the table of powers goes.  (A weight of -2^15,
\* which the program could not negate, is below any that a numeric has.)
Numerics ==
    {w \in [neg : BOOLEAN, weight : Int, scale : Nat, digits : Seq(Group)] :
        GroupDigits * (w.weight + 1 - Len(w.digits)) \in -PowLimit..PowLimit}

PostgresInit ==
    \/ PostgresIdle
    \/ \E d \in Decimal : ToPostgres(d)
    \/ \E w \in Numerics : FromPostgres(w)

PostgresSpec == PostgresInit /\ [][PostgresNext]_qvars

-----------------------------------------------------------------------------
\* The number on the wire: an integer, and the power of ten it counts.
Whole(digits) == ValueTo(digits, Group, GroupBase)[Len(digits)]
PowerSent == GroupDigits * (wire.weight + 1 - Len(wire.digits))

\* got = Whole / Ten^p to less than a unit of its last place.
WithinUnit(w, p) ==
    LET common == SmallerOf(got.s, p)
        d      == w * POWERS[got.s - common] - got.m * POWERS[p - common]
    IN  -POWERS[p - common] < d /\ d < POWERS[p - common]

\* At least half a unit above the largest mantissa.  The powers beyond the largest
\* scale are all above it.
TooLargeToRead(w) ==
    IF PowerSent >= 0 THEN w > Max96 \div POWERS[SmallerOf(PowerSent, MAX_SCALE + 1)]
    ELSE 2 * w >= (2 * Max96 + 1) * POWERS[-PowerSent]

\* A decimal comes back from PostgreSQL as it was sent, its scale included, but for the
\* sign and the scale of zero.  Any number PostgreSQL sends is read to less than a unit
\* of the last place kept, with its sign, and with as many places as it announces or as
\* fit, unless the power of the groups that are not sent overflows an i128 in a build
\* that does not check it: what it is then multiplied by may be zero.  It is refused (or,
\* when that power is no decimal, the program panics) only if it is too large, or a zero
\* of such a weight.
PostgresKeeps ==
    /\ qpc = "returned" => got = IF sent.m = 0 THEN ZERO ELSE sent
    /\ qpc = "read" /\ ~PowerWraps =>
        /\ IF PowerSent >= 0 THEN got.m = Whole(wire.digits) * POWERS[PowerSent + got.s]
           ELSE WithinUnit(Whole(wire.digits), -PowerSent)
        /\ got.neg = wire.neg
        /\ got.s <= wire.scale /\ got.s <= MAX_SCALE
        /\ got.s < SmallerOf(wire.scale, MAX_SCALE) => got.m * Ten > Max96
    /\ qpc \in {"refused", "panicked"} =>
        sent = ZERO /\ (TooLargeToRead(Whole(wire.digits)) \/ (qpc = "panicked" /\ Whole(wire.digits) = 0))
===============================================================================
