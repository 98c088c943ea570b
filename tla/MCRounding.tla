------------------------------ MODULE MCRounding ------------------------------
(***************************************************************************)
(* Rescale24 and Rounding with words of five bits in radix 4, where a word *)
(* holds two digits, so that a chunk is of one digit or two: a mantissa    *)
(* has up to eight digits, a scale is at most 7.  A behaviour is one call; *)
(* the other machine stays idle.                                           *)
(***************************************************************************)
EXTENDS Rescale24, Rounding

MCPowers == [i \in 0..14 |-> 4^i]

\* Values around every power of the radix times the last mantissas, where the number of
\* digits to drop changes, and a spread of others.
MCTop == B3 * B2 * 16
MCValues ==
    LET scaled == {a * POWERS[i] : a \in {Max96 - 1, Max96}, i \in 0..MAX_SCALE}
        halves == {p \div 2 : p \in {POWERS[i] : i \in 0..(MAX_SCALE + 1)}}
        near(n, d) == {n - d, n, n + 1, n + d, n + d + 1}
    IN  {v \in UNION ({near(n, d) : n \in scaled, d \in halves}
                      \cup {near(i * (MCTop \div 60), i) : i \in 0..60}) :
            v \in 0..MCTop}

\* Every buffer with its own last word, and those a borrow leaves with one more.
MCCalls ==
    LET uppers(v) == {UpperWord(v)} \cup {u \in 3..5 : v < Weight[u] /\ v >= Weight[u] - B3}
    IN  UNION {[v : {v}, u : uppers(v), s : 0..(2 * MAX_SCALE)] : v \in MCValues}

\* Powers of the radix and their halves with their neighbours, which are the
\* ties and the changes of length, and mantissas next to the largest.
MCMantissas ==
    {v \in UNION {{c * POWERS[i] - 1, c * POWERS[i], c * POWERS[i] + 1} : c \in {1, 2, 6, 10}, i \in 0..MAX_SCALE}
          \cup {0, 5, 27, 182, 733, 2730, 8191, 10922, 14563, 23210, 28672, 30719, 30720, 30721, Max96 - 1} : v \in Mantissa}

MCDecimals == {[neg |-> n, m |-> v, s |-> s] : n \in BOOLEAN, v \in MCMantissas, s \in 0..MAX_SCALE}

\* Scales above the maximum are asked for, too.
MCScales == 0..(MAX_SCALE + 2)
MCFigures == 0..(MAX_SCALE + 2)

MCRoundingCalls == \E d \in MCDecimals :
    \/ \E op \in {"rescale", "trunc"}, n \in MCScales : Called(op, d, n, "ToZero")
    \/ \E op \in {"floor", "ceil", "normalize"} : Called(op, d, 0, "ToZero")
    \/ \E n \in 0..MAX_SCALE, by \in Strategies : n <= d.s /\ Called("round_dp", d, n, by)
    \/ \E n \in MCFigures, by \in Strategies : d.s \in {0, 2, 7} /\ Called("round_sf", d, n, by)

MCInit ==
    \/ (\E a \in MCCalls : Entered(a)) /\ RoundingIdle
    \/ RescaleIdle /\ MCRoundingCalls
MCNext ==
    \/ RescaleNext /\ UNCHANGED vars
    \/ Next /\ UNCHANGED rvars
MCSpec == MCInit /\ [][MCNext]_<<rvars, vars>> /\ WF_<<rvars, vars>>(MCNext)

\* The calls that add digits.
MCInitMax == \E d \in MCDecimals, n \in MCScales : n > d.s /\ Called("rescale", d, n, "ToZero")
MCSpecMax == RescaleIdle /\ MCInitMax /\ [][MCNext]_<<rvars, vars>>
===============================================================================
