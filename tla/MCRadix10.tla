------------------------------ MODULE MCRadix10 ------------------------------
(***************************************************************************)
(* Mul, AddSub and Division in radix 10 with words of four bits: a word    *)
(* holds one digit, a mantissa three hex digits, a scale is at most 3.  A  *)
(* behaviour multiplies, then adds or subtracts, then divides; one of the  *)
(* three has operands of its own, the others 0 * 0, 0 + 0 or 0 / 1.        *)
(***************************************************************************)
EXTENDS Mul, AddSub, Division

MCSteps  == <<1>>
MCPowers == [i \in 0..6 |-> 10^i]

Numbers(ms, signs, scales) == {[neg |-> n, m |-> m, s |-> s] : n \in signs, m \in ms, s \in scales}

\* Words at their limits in every position.
MCEnds == {i + Base * j + B2 * l : i, j, l \in {0, 1, 15}}

\* Powers of ten and halves of them, and mantissas whose products round to 2^96 and one
\* above and below.
MCFactors == MCEnds \cup {5, 10, 25, 35, 45, 50, 100, 125, 500, 819, 1000, 1365, 2005, 2048}
MulCalls  == \E l \in {FromParts(m, TRUE, s) : m \in MCFactors, s \in {0, 2, 3}},
                r \in {FromParts(m, m % 2 = 1, s) : m \in MCFactors, s \in 0..MAX_SCALE} : MulStarted(l, r)

\* Mantissas whose multiples by 10, 100 and 1000 are next to a power of 16.
MCTerms  == MCEnds \cup {5, 26, 66, 67, 132, 410, 655, 656, 1049, 2621, 2949, 3278, 4090}
AddCalls ==
    LET pos == Numbers(MCTerms, {FALSE}, 0..MAX_SCALE)
        neg == Numbers(MCTerms, {TRUE}, 0..MAX_SCALE)
        few == Numbers({i + Base * j + B2 * l : i, j, l \in {0, 15}}, BOOLEAN, 0..MAX_SCALE)
    IN  (\E l \in pos, r \in pos \cup neg : Started(l, r, "add")) \/ (\E l \in few, r \in pos : Started(l, r, "sub"))

\* Divisors at the edges of one, two and three words, powers of ten and odd numbers;
\* dividends that leave quotients next to 96 bits among others.
MCDividends == {0, 1, 2, 3, 7, 15, 16, 17, 25, 40, 99, 100, 255, 256, 257, 409, 410, 819,
                1000, 1024, 2047, 2048, 2049, 3276, 3277, 4000, 4090, 4094, 4095}
MCDivisors  == {0, 1, 2, 3, 4, 5, 6, 7, 8, 10, 13, 15, 16, 17, 20, 30, 64, 99, 100, 125,
                128, 200, 240, 254, 255, 256, 257, 260, 300, 409, 410, 500, 640, 999,
                1000, 1024, 1500, 2000, 2047, 2048, 2049, 2560, 3000, 4094, 4095}
DivCalls    == \E l \in {FromParts(m, m % 2 = 1, s) : m \in MCDividends, s \in 0..MAX_SCALE},
                  r \in Numbers(MCDivisors, {TRUE}, 0..MAX_SCALE) : DivStarted(l, r)

NoMul == MulStarted(ZERO, ZERO)
NoAdd == Started(ZERO, ZERO, "add")
NoDiv == DivStarted(ZERO, FromParts(1, FALSE, 0))

MCInit ==
    \/ MulCalls /\ NoAdd /\ NoDiv
    \/ NoMul /\ AddCalls /\ NoDiv
    \/ NoMul /\ NoAdd /\ DivCalls
MCNext ==
    \/ MulNext /\ UNCHANGED <<avars, vars>>
    \/ mpc \in {"done", "overflow"} /\ AddNext /\ UNCHANGED <<mvars, vars>>
    \/ mpc \in {"done", "overflow"} /\ apc \in {"done", Overflow} /\ Next /\ UNCHANGED <<mvars, allvars>>
MCSpec == MCInit /\ [][MCNext]_<<mvars, allvars, vars>> /\ WF_<<mvars, allvars, vars>>(MCNext)

\* Sums and differences alone.
MCSpecBorrow == NoMul /\ AddCalls /\ NoDiv /\ [][MCNext]_<<mvars, allvars, vars>>

\* Words of six bits in radix 10.  157287 / 6000 = 26.2145 is a tie between two
\* mantissas of 18 bits, found by the digit that goes over them; every twelfth
\* dividend after it is one, too.
MCPowersTies == [i \in 0..8 |-> 10^i]
MCInitTies   == \E m \in 157287..157330 : DivStarted(FromParts(m, FALSE, 0), FromParts(6000, FALSE, 0))
MCSpecTies   == NoMul /\ NoAdd /\ MCInitTies /\ [][MCNext]_<<mvars, allvars, vars>>
=============================================================================
