------------------------------- MODULE MCRadix6 -------------------------------
(***************************************************************************)
(* Remainder, comparison and division with words of six bits in radix 6: a *)
(* pass scales by up to two digits, a mantissa has up to seven, a scale is *)
(* at most 6, and the longest dividend needs all seven words of the        *)
(* buffer.  A behaviour is one call; the other machine stays idle.         *)
(***************************************************************************)
EXTENDS Remainder

VARIABLES numer, denom, quotient, div_remainder, stale, divisor, div_scale, require_unscale, strip, div_result, dpc
dvars == <<numer, denom, quotient, div_remainder, stale, divisor, div_scale, require_unscale, strip, div_result, dpc>>

D == INSTANCE Division WITH pc <- dpc

\* find_scale picks the largest power that keeps a quotient within its bounds.
ScalesByLargest == D!ScalesByLargest

MCSteps  == <<1>>
MCPowers == [i \in 0..11 |-> 6^i]

\* Dividends and divisors of one, two and three words: next to the ends of the
\* words and to the largest that a power can multiply, and in between.
MCDividends == {0, 1, 7, 63, 64, 217, 4095, 4096, 7281, 7282, 43690, 43691, 43692, 65537, 131072,
                  200003, 262142, 262143}
MCDivisors == {0, 1, 5, 36, 63, 64, 65, 100, 1000, 2047, 2048, 2113, 4032, 4095, 4096, 4097, 5000,
                 8191, 43691, 98303, 131071, 131072, 131073, 135167, 196607, 200000, 262143}

Numbers(ms, signs, scales) == {[neg |-> n, m |-> m, s |-> s] : n \in signs, m \in ms, s \in scales}

\* Divisors of one and two words, dividends and divisors on both sides of the entries
\* of the table of overflows.  (At scales up to 5 a 32 bit integer holds the powers of
\* the reference.)
MCEdges      == {POWER_OVERFLOW(k) + i : k \in 0..5, i \in -1..1} \cap Mantissa
MCDividends6 == {1, 2, 3, 5, 64, 625, 4095, 4096, 5000, 131071, 262142} \cup MCEdges
MCDivisors6  == {1, 2, 3, 4, 5, 6, 7, 8, 9, 11, 36, 63, 64, 65, 100, 216, 217, 625,
                 1000, 1296, 2048, 3125, 4000, 4095}

RemCalls ==
    \/ \E a \in Numbers(MCDividends, {TRUE}, 0..6), b \in Numbers(MCDivisors, {FALSE}, 0..6) : Called("rem", a, b)
    \/ \E a, b \in Numbers({0, 1, 7, 216, 4096, 7281, 43691, 262143}, BOOLEAN, 0..6) : Called("cmp", a, b)
DivCalls ==
    \E a \in Numbers(MCDividends6, {FALSE}, 0..5), b \in Numbers(MCDivisors6, {FALSE}, 0..5) : D!DivStarted(a, b)

MCInit ==
    \/ RemCalls /\ D!DivisionIdle
    \/ RemainderIdle /\ DivCalls
MCNext ==
    \/ Next /\ UNCHANGED dvars
    \/ D!Next /\ UNCHANGED vars
MCSpec == MCInit /\ [][MCNext]_<<vars, dvars>> /\ WF_<<vars, dvars>>(MCNext)

\* A divisor of three words whose second word is full, and dividends that lack
\* enough digits for two windows.
MCInitCut == \E m \in 200000..200400 :
    Called("rem", [neg |-> FALSE, m |-> m, s |-> 0], [neg |-> FALSE, m |-> 135167, s |-> 6])
MCSpecCut == MCInitCut /\ D!DivisionIdle /\ [][Next /\ UNCHANGED dvars]_<<vars, dvars>>
================================================================================
