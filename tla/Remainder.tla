------------------------------- MODULE Remainder ------------------------------
(***************************************************************************)
(* rem_impl and rem_full (ops/rem.rs): the remainder of two decimals.  The *)
(* operands are compared first (Comparison); a dividend that is larger is  *)
(* brought to the scale of the divisor, or the divisor to its, in passes   *)
(* that find_scale chooses; a divisor of two or three words is then        *)
(* divided into a buffer of up to seven words, window by window            *)
(* (PartialDivide).  A call of cmp_impl alone is modelled too.             *)
(***************************************************************************)
EXTENDS Scaling, Comparison, PartialDivide

VARIABLES
    call,       \* the call: [op |-> "rem" | "cmp", x, y]
    d1,         \* `d1`: the dividend, [m, s]
    d2,         \* `d2`: the mantissa of the divisor
    scale,      \* `scale`: digits the dividend still lacks, negated
    buffer,     \* `buffer` and `overflow`: seven words
    upper,      \* `upper`: the last word in use
    at,         \* the lowest word of the window divided next
    cut,        \* a quotient estimate was cut to a word (no state of the code)
    result,     \* what is returned
    pc          \* where the routine is

vars == <<cvars, pvars, call, d1, d2, scale, buffer, upper, at, cut, result, pc>>

Called(op, a, b) ==
    /\ CompareIdle /\ DivideIdle
    /\ call = [op |-> op, x |-> a, y |-> b]
    /\ d1 = [m |-> a.m, s |-> a.s] /\ d2 = b.m
    /\ scale = 0 /\ buffer = [i \in 0..6 |-> 0] /\ upper = 0 /\ at = 0 /\ cut = FALSE
    /\ result = ZERO /\ pc = op

\* No call: for the models that run another routine.
RemainderIdle ==
    Called("idle", ZERO, ZERO)

Init == \E op \in {"rem", "cmp"}, a, b \in Decimal : Called(op, a, b)

\* Dec64::to_decimal, with the sign of the dividend.
Dividend64(d) == FromParts(d.m, call.x.neg, d.s)

-----------------------------------------------------------------------------
Cmp ==
    /\ pc = "cmp" /\ CompareSigned(call.x, call.y)
    /\ pc' = "comparing"
    /\ UNCHANGED <<pvars, call, d1, d2, scale, buffer, upper, at, cut, result>>

CmpReturn ==
    /\ pc = "comparing" /\ call.op = "cmp" /\ cpc = "ordered"
    /\ pc' = "compared"
    /\ UNCHANGED <<cvars, pvars, call, d1, d2, scale, buffer, upper, at, cut, result>>

RemByZero ==
    /\ pc = "rem" /\ d2 = 0
    /\ pc' = "div_by_zero"
    /\ UNCHANGED <<cvars, pvars, call, d1, d2, scale, buffer, upper, at, cut, result>>

RemZero ==
    /\ pc = "rem" /\ d2 # 0 /\ d1.m = 0
    /\ result' = ZERO /\ pc' = "done"
    /\ UNCHANGED <<cvars, pvars, call, d1, d2, scale, buffer, upper, at, cut>>

RemCompare ==
    /\ pc = "rem" /\ d2 # 0 /\ d1.m # 0
    /\ CompareCall(call.x, call.y)
    /\ pc' = "comparing"
    /\ UNCHANGED <<pvars, call, d1, d2, scale, buffer, upper, at, cut, result>>

Comparing ==
    /\ pc = "comparing" /\ CompareNext
    /\ UNCHANGED <<pvars, call, d1, d2, scale, buffer, upper, at, cut, result, pc>>

\* A dividend that is not larger is the remainder itself, or leaves none.
RemSmall ==
    /\ pc = "comparing" /\ call.op = "rem" /\ cpc = "ordered" /\ order # "Greater"
    /\ result' = IF order = "Equal" THEN ZERO ELSE Dividend64(d1)
    /\ pc' = "done"
    /\ UNCHANGED <<cvars, pvars, call, d1, d2, scale, buffer, upper, at, cut>>

RemLarge ==
    /\ pc = "comparing" /\ call.op = "rem" /\ cpc = "ordered" /\ order = "Greater"
    /\ scale' = d1.s - call.y.s
    /\ pc' = IF scale' > 0 THEN "divisor" ELSE IF scale' < 0 THEN "dividend" ELSE "reduce"
    /\ UNCHANGED <<cvars, pvars, call, d1, d2, buffer, upper, at, cut, result>>

-----------------------------------------------------------------------------
\* The divisor is scaled up in three words, without looking at what overflows
\* them: it is known to stay below the dividend.
ScaleDivisor ==
    /\ pc = "divisor"
    /\ d2' = (d2 * POWERS[Chunk(scale)]) % B3
    /\ scale' = IF scale <= MAX_I32_SCALE THEN 0 ELSE scale - MAX_I32_SCALE
    /\ pc' = IF scale' = 0 THEN "reduce" ELSE "divisor"
    /\ UNCHANGED <<cvars, pvars, call, d1, buffer, upper, at, cut, result>>

\* Mutant of ScaleDividend: the digits it adds are not counted.
ScaleDividendUncounted ==
    /\ pc = "dividend"
    /\ LET k == FindScale(d1.m, MAX_SCALE + scale)
       IN  /\ pc' = IF k # MAX_I32_SCALE \/ scale >= 0 THEN "reduce" ELSE "dividend"
           /\ d1' = [m |-> (d1.m * POWERS[k]) % B3, s |-> call.y.s]
    /\ UNCHANGED <<cvars, pvars, call, d2, scale, buffer, upper, at, cut, result>>

\* The dividend is scaled up while a pass can be a whole one and digits are
\* missing.  (No power is None only for a negative scale, and MAX_SCALE + scale
\* is none: the overflow returned then never is.)
ScaleDividend ==
    /\ pc = "dividend"
    /\ LET k == FindScale(d1.m, MAX_SCALE + scale)
       IN  /\ k # None
           /\ scale' = scale + k
           /\ pc' = IF k # MAX_I32_SCALE \/ scale' >= 0 THEN "reduce" ELSE "dividend"
           /\ d1' = [m |-> (d1.m * POWERS[k]) % B3,
                     s |-> IF pc' = "reduce" THEN call.y.s ELSE d1.s]
    /\ UNCHANGED <<cvars, pvars, call, d2, buffer, upper, at, cut, result>>

\* An empty high word: the remainder of double words.
ReduceLow ==
    /\ pc = "reduce" /\ Hi(d1.m) = 0
    /\ result' = Dividend64([d1 EXCEPT !.m = @ % Low64(d2)])
    /\ pc' = "done"
    /\ UNCHANGED <<cvars, pvars, call, d1, d2, scale, buffer, upper, at, cut>>

\* Mutant of ReduceWord: the digits still missing are forgotten.
ReduceWordOnce ==
    /\ pc = "reduce" /\ Hi(d1.m) # 0 /\ d2 < Base
    /\ d1' = [d1 EXCEPT !.m = @ % d2]
    /\ result' = Dividend64(d1') /\ pc' = "done"
    /\ UNCHANGED <<cvars, pvars, call, d2, scale, buffer, upper, at, cut>>

\* A divisor of one word: the remainder replaces the dividend, which has room
\* again for the digits it lacks.
ReduceWord ==
    /\ pc = "reduce" /\ Hi(d1.m) # 0 /\ d2 < Base
    /\ d1' = [d1 EXCEPT !.m = @ % d2]
    /\ IF scale < 0
       THEN pc' = "dividend" /\ UNCHANGED result
       ELSE pc' = "done" /\ result' = Dividend64(d1')
    /\ UNCHANGED <<cvars, pvars, call, d2, scale, buffer, upper, at, cut>>

-----------------------------------------------------------------------------
(***************************************************************************)
(* rem_full.                                                               *)
(***************************************************************************)
Width == IF d2 < B2 THEN 2 ELSE 3

\* The divisor is shifted until its top bit is set, the dividend with it.
Shift == TopShift(d2, IF Width = 2 THEN B2 ELSE B3)

RemFull ==
    /\ pc = "reduce" /\ Hi(d1.m) # 0 /\ d2 >= Base
    /\ LET high == (Mid(d1.m) + Hi(d1.m) * Base) * Shift + (Lo(d1.m) * Shift) \div Base
       IN  buffer' = [i \in 0..6 |-> CASE i = 0 -> Lo(Lo(d1.m) * Shift)
                                       [] i = 1 -> Lo(high)
                                       [] i = 2 -> Mid(high)
                                       [] i = 3 -> Hi(high)
                                       [] OTHER -> 0]
    /\ upper' = 3 /\ pc' = "grow"
    /\ UNCHANGED <<cvars, pvars, call, d1, d2, scale, at, cut, result>>

\* What a pass carries into word i: the product of the words below, shifted.
Product(power) ==
    LET product[i \in 0..6] ==
            buffer[i] * power + (IF i = 0 THEN 0 ELSE product[i - 1] \div Base)
    IN  product

\* Mutant of GrowBuffer: the top bit of the last word is not kept clear.
GrowBufferFull ==
    /\ pc = "grow" /\ scale < 0
    /\ LET product == Product(POWERS[Chunk(-scale)])
           grows   == product[upper] >= Base
       IN  /\ upper' = IF grows THEN upper + 1 ELSE upper
           /\ buffer' = [i \in 0..6 |-> IF i <= upper THEN product[i] % Base
                                        ELSE IF i = upper' THEN product[upper] \div Base
                                        ELSE buffer[i]]
    /\ scale' = scale + MAX_I32_SCALE
    /\ UNCHANGED <<cvars, pvars, call, d1, d2, at, cut, result, pc>>

\* A pass over the buffer.  The top bit of its last word stays clear, so that
\* the first window is less than the divisor: a word is added if need be.
GrowBuffer ==
    /\ pc = "grow" /\ scale < 0
    /\ LET product == Product(POWERS[Chunk(-scale)])
           grows   == product[upper] >= Base \div 2
       IN  /\ upper' = IF grows THEN upper + 1 ELSE upper
           /\ buffer' = [i \in 0..6 |-> IF i <= upper THEN product[i] % Base
                                        ELSE IF i = upper' THEN product[upper] \div Base
                                        ELSE buffer[i]]
    /\ scale' = scale + MAX_I32_SCALE
    /\ UNCHANGED <<cvars, pvars, call, d1, d2, at, cut, result, pc>>

WindowAt(i) == [j \in 1..(Width + 1) |-> buffer[i + j - 1]]

Grown ==
    /\ pc = "grow" /\ scale >= 0
    /\ at' = upper - Width
    /\ DivideCall(WindowAt(at'), d2 * Shift)
    /\ pc' = "window"
    /\ UNCHANGED <<cvars, call, d1, d2, scale, buffer, upper, cut, result>>

Dividing ==
    /\ pc = "window" /\ DivideNext
    /\ UNCHANGED <<cvars, call, d1, d2, scale, buffer, upper, at, cut, result, pc>>

\* The remainder of a window goes back into the buffer, the window one word down.
NextWindow ==
    /\ pc = "window" /\ ppc = "divided"
    /\ cut' = (cut \/ EstimateCut)
    /\ LET filled == [i \in 0..6 |-> IF i - at \in 0..Width THEN Left[i - at + 1] ELSE buffer[i]]
       IN  /\ buffer' = filled
           /\ IF at = 0
              THEN pc' = "shift_back" /\ UNCHANGED <<at, pvars>>
              ELSE /\ at' = at - 1
                   /\ DivideCall([j \in 1..(Width + 1) |-> filled[at' + j - 1]], den)
                   /\ UNCHANGED pc
    /\ UNCHANGED <<cvars, call, d1, d2, scale, upper, result>>

\* The low words are shifted back; words above the divisor's are not returned.
RemReturn ==
    /\ pc = "shift_back"
    /\ LET low == buffer[0] + buffer[1] * Base + (IF Width = 2 THEN 0 ELSE buffer[2] * B2)
       IN  result' = Dividend64([d1 EXCEPT !.m = low \div Shift])
    /\ pc' = "done"
    /\ UNCHANGED <<cvars, pvars, call, d1, d2, scale, buffer, upper, at, cut>>

Next ==
    \/ Cmp \/ CmpReturn \/ RemByZero \/ RemZero \/ RemCompare \/ Comparing \/ RemSmall \/ RemLarge
    \/ ScaleDivisor \/ ScaleDividend \/ ReduceLow \/ ReduceWord
    \/ RemFull \/ GrowBuffer \/ Grown \/ Dividing \/ NextWindow \/ RemReturn

Spec == Init /\ [][Next]_vars

-----------------------------------------------------------------------------
\* m * Ten^k mod n, a digit at a time.
ScaledMod(m, k, n) ==
    LET mod[i \in 0..k] == IF i = 0 THEN m % n ELSE (mod[i - 1] * Ten) % n
    IN  mod[k]

\* The remainder of the numbers at the larger of the scales, for a dividend that
\* is larger than the divisor.
TrueRemainder ==
    LET x == call.x
        y == call.y
    IN  IF x.s <= y.s THEN ScaledMod(x.m, y.s - x.s, y.m) ELSE x.m % (y.m * POWERS[x.s - y.s])

\* The words of the buffer up to the n-th modulo the shifted divisor.
BufferMod(n) ==
    LET mod[i \in 0..n] == (IF i = 0 THEN buffer[n] ELSE mod[i - 1] * Base + buffer[n - i]) % (d2 * Shift)
    IN  mod[n]

\* The values of the routine's variables.  No word above the seventh is needed,
\* nor any bit above those of the buffer: the products fit what they are kept in.
RemTypeOK ==
    /\ d1.m \in Mantissa /\ d1.s \in 0..MAX_SCALE /\ d2 \in Mantissa
    /\ scale \in -MAX_SCALE..MAX_SCALE
    /\ buffer \in [0..6 -> Word] /\ upper \in 0..6 /\ at \in 0..4
    /\ \A i \in 0..6 : pc = "grow" /\ i > upper => buffer[i] = 0
    /\ result \in Decimal
    /\ left.m \in Mantissa /\ right.m \in Mantissa /\ order \in Orders
    /\ (cpc = "scale" => diff \in 1..MAX_SCALE)
    /\ quo \in Word /\ num \in 0..(B2 - 1) /\ top \in Word

\* Each window is divided as if by integers: the estimate and the sums that wrap
\* leave the quotient and the remainder, and the words above the lowest are less
\* than the divisor, as partial_divide_64 asserts.  (For the estimates that do
\* not fit a word see RemainderTrue.)
PartialDivideExact ==
    ppc = "divided" /\ ~cut /\ ~EstimateCut =>
        Divisible /\ Dividend = quo * den + Rest /\ Rest < den

\* The order is that of the numbers, whichever is scaled and wherever it stops; and
\* the numbers that compare as equal are those that hash alike.
CompareExact ==
    /\ pc = "compared" => /\ order = NumberOrder(call.x, call.y)
                          /\ (order = "Equal") = (Hashed(call.x) = Hashed(call.y))
    /\ pc = "comparing" /\ call.op = "rem" /\ cpc = "ordered" => order = MagnitudeOrder(call.x, call.y)

RemainderIsTrue ==
    /\ result.m # 0 => result.neg = call.x.neg
    /\ IF call.x.m = 0 THEN result = ZERO
       ELSE IF MagnitudeOrder(call.x, call.y) = "Less" THEN result = Dividend64(call.x)
       ELSE /\ result.m = TrueRemainder
            /\ result.m # 0 => result.s = (IF call.x.s > call.y.s THEN call.x.s ELSE call.y.s)

\* Whatever the scales, the widths and the path, a remainder is the exact one,
\* with the larger scale and the sign of the dividend, as long as every quotient
\* estimate fits a word.
RemainderExact == pc = "done" /\ ~cut => RemainderIsTrue

\* From window to window the buffer keeps its remainder; the words above the
\* window are left as they were and no longer count.
WindowsKeepRemainder ==
    pc = "window" /\ ppc \in {"divide64", "divide96"} /\ ~cut => BufferMod(at + Width) = TrueRemainder * Shift

\* Every call returns.
RemTerminates == <>(pc \in {"idle", "done", "compared", "div_by_zero"})

\* The documentation has no exception: the remainder is the true one.  In the
\* loop over a divisor of three words a window's top word may equal the
\* divisor's; the quotient estimate is then Base or more and is cut to a word.
RemainderTrue == pc = "done" => RemainderIsTrue
===============================================================================
