------------------------------ MODULE RandomRange ------------------------------
(***************************************************************************)
(* The sampler of a range of decimals (rand_0_9.rs): the two ends are      *)
(* brought to one scale, a mantissa is drawn between theirs.  rescale is   *)
(* the subject of Rounding; drawing an integer is not part of the crate.   *)
(***************************************************************************)
EXTENDS Arithmetic

VARIABLES
    range,      \* the call: [low, high, incl]
    low, high,  \* the ends as they are brought to one scale
    drawn,      \* the decimal sampled
    gpc         \* where the routine is

yvars == <<range, low, high, drawn, gpc>>

RangeAt(r, at) == range = r /\ low = r.low /\ high = r.high /\ drawn = ZERO /\ gpc = at
RangeIdle == RangeAt([low |-> ZERO, high |-> ZERO, incl |-> TRUE], "idle")
RangeStart(a, b, incl) == RangeAt([low |-> a, high |-> b, incl |-> incl], "sync")

-----------------------------------------------------------------------------
WithSign(d, r) == [neg |-> d.neg, m |-> r.m, s |-> r.s]
RescaledTo(d, s) == IF s = d.s THEN d ELSE WithSign(d, Rescaled(d, s))
Larger(i, j) == IF i > j THEN i ELSE j

Amount(d) == IF d.neg THEN -d.m ELSE d.m
After == IF range.incl THEN "inclusive" ELSE "exclusive"

\* The larger scale for both, as far as it goes.
SyncUp ==
    /\ gpc = "sync"
    /\ low'  = RescaledTo(low, Larger(low.s, high.s))
    /\ high' = RescaledTo(high, Larger(low'.s, high.s))
    /\ gpc'  = IF low'.s = high'.s THEN After ELSE "back"
    /\ UNCHANGED <<range, drawn>>

\* Mutant of SyncBack: the ends meet at the scale of the upper one.
SyncBackHigh ==
    /\ gpc = "back"
    /\ low' = RescaledTo(low, high.s) /\ high' = high
    /\ gpc' = After
    /\ UNCHANGED <<range, drawn>>

\* One did not go that far: the scale it reached for the other, which is rounded.
SyncBack ==
    /\ gpc = "back"
    /\ low'  = RescaledTo(low, SmallerOf(low.s, high.s))
    /\ high' = RescaledTo(high, SmallerOf(low'.s, high.s))
    /\ gpc'  = After
    /\ UNCHANGED <<range, drawn>>

\* new(): the last mantissa before the upper end.  There is none before the smallest.
Before ==
    /\ gpc = "exclusive"
    /\ IF Amount(high) = -Max96 THEN gpc' = "panic" /\ UNCHANGED high
       ELSE /\ gpc' = "inclusive"
            /\ high' = [neg |-> Amount(high) - 1 < 0, m |-> Off(Amount(high), 1), s |-> high.s]
    /\ UNCHANGED <<range, low, drawn>>

Empty ==
    /\ gpc = "inclusive" /\ Amount(low) > Amount(high)
    /\ gpc' = "empty"
    /\ UNCHANGED <<range, low, high, drawn>>

Sample ==
    /\ gpc = "inclusive"
    /\ \E n \in Amount(low)..Amount(high) : drawn' = [neg |-> n < 0, m |-> Off(n, 0), s |-> low.s]
    /\ gpc' = "drawn"
    /\ UNCHANGED <<range, low, high>>

RangeInit == \E a, b \in Decimal, incl \in BOOLEAN : RangeStart(a, b, incl)
RangeNext == SyncUp \/ SyncBack \/ Before \/ Empty \/ Sample
RangeSpec == RangeInit /\ [][RangeNext]_yvars

-----------------------------------------------------------------------------
\* The decimals are as fine as both ends allow, and lie between them: at most half
\* of a last place outside where an end has more places than can be had, and not
\* at all where it does not.  A range is empty, or its upper end has no number
\* before it, only if that is so of the range asked for.
RangeAgrees ==
    LET fine    == Larger(range.low.s, range.high.s)
        in(d)   == Amount(d) * POWERS[fine - d.s]
        half(d) == IF d.s > low.s THEN POWERS[fine - low.s] \div 2 ELSE 0
        a       == in(range.low)
        b       == in(range.high)
    IN  /\ gpc = "drawn" =>
            /\ drawn.s = low.s /\ low.s = high.s /\ low.s <= fine
            /\ low.s < fine => \E d \in {range.low, range.high} :
                                    d.s <= low.s /\ d.m * POWERS[low.s + 1 - d.s] > Max96
            /\ in(drawn) >= a - half(range.low)
            /\ IF range.incl \/ half(range.high) > 0 THEN in(drawn) <= b + half(range.high) ELSE in(drawn) < b
        /\ gpc = "empty" => a + half(range.low) + half(range.high) >= b
        /\ gpc = "empty" /\ range.incl => a > b
        /\ gpc = "panic" => range.high.neg /\ range.high.m = Max96
================================================================================
