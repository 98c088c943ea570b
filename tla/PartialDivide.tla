----------------------------- MODULE PartialDivide ----------------------------
(***************************************************************************)
(* Buf16::partial_divide_64 and partial_divide_96 (ops/div.rs): a window   *)
(* of words is divided by a divisor of one word less whose top bit is set, *)
(* leaving a quotient of one word and the remainder in the window.  The    *)
(* quotient is estimated from the top words and corrected by adding the    *)
(* divisor back; the sums wrap.  Division and Remainder are made of these. *)
(***************************************************************************)
EXTENDS DecimalBase, Sequences

VARIABLES
    window,     \* the words to divide, lowest first: three or four
    den,        \* the divisor, of two or three words
    quo,        \* `quotient`, `quo`
    num,        \* the two low words of what is left
    top,        \* the third word of what is left, of a window of four
    ppc         \* where the routine is

pvars == <<window, den, quo, num, top, ppc>>

DivideIdle ==
    /\ window = <<0, 0, 0>> /\ den = 0 /\ quo = 0 /\ num = 0 /\ top = 0
    /\ ppc = "idle"

DivideCall(w, d) ==
    /\ window' = w /\ den' = d
    /\ num' = w[1] + w[2] * Base /\ top' = w[3] /\ quo' = 0
    /\ ppc' = IF Len(w) = 3 THEN "divide64" ELSE "divide96"

\* The words of the window above its lowest, of its lowest two, and the top one
\* of the divisor.
High64 == window[Len(window) - 1] + window[Len(window)] * Base
DivisorHi == IF Len(window) = 3 THEN Mid(den) ELSE Hi(den)

-----------------------------------------------------------------------------
\* An empty top word: the two low ones hold the quotient at most once.
DivideLow ==
    /\ ppc = "divide64" /\ window[3] = 0
    /\ quo' = num \div den /\ num' = num % den
    /\ ppc' = "divided"
    /\ UNCHANGED <<window, den, top>>

\* The top words are equal: start from the largest quotient there is.
DivideLargest ==
    /\ ppc = "divide64" /\ window[3] # 0 /\ window[3] >= DivisorHi
    /\ quo' = Base - 1
    /\ num' = (num - den * Base + den) % B2
    /\ ppc' = IF num' < den THEN "divided" ELSE "add64"
    /\ UNCHANGED <<window, den, top>>

\* Mutant of Estimate64: a difference that wrapped is taken for a remainder.
Estimate64Unchecked ==
    /\ ppc = "divide64" /\ window[3] # 0 /\ window[3] < DivisorHi
    /\ LET q       == High64 \div DivisorHi
           product == q * Lo(den)
       IN  /\ quo' = q
           /\ num' = (window[1] + (High64 % DivisorHi) * Base - product) % B2
           /\ ppc' = "divided"
    /\ UNCHANGED <<window, den, top>>

\* The estimate by the top word of the divisor is never too small; what is left
\* is negative, seen as more than any difference, if it is too large.  (The
\* early return for a dividend below the divisor's top word needs a top word of
\* zero and is never taken.)
Estimate64 ==
    /\ ppc = "divide64" /\ window[3] # 0 /\ window[3] < DivisorHi
    /\ LET q       == High64 \div DivisorHi
           product == q * Lo(den)
       IN  /\ quo' = q
           /\ num' = (window[1] + (High64 % DivisorHi) * Base - product) % B2
           /\ ppc' = IF num' > B2 - 1 - product THEN "add64" ELSE "divided"
    /\ UNCHANGED <<window, den, top>>

\* Add the divisor back until the sum wraps round to a remainder.
AddBack64 ==
    /\ ppc = "add64"
    /\ quo' = quo - 1 /\ num' = (num + den) % B2
    /\ ppc' = IF num' < den THEN "divided" ELSE "add64"
    /\ UNCHANGED <<window, den, top>>

-----------------------------------------------------------------------------
\* The top words alone are smaller than the divisor's.
DivideNothing ==
    /\ ppc = "divide96" /\ High64 < DivisorHi
    /\ ppc' = "divided"
    /\ UNCHANGED <<window, den, quo, num, top>>

\* The quotient of the top words is cut to one word.
Estimate96 ==
    /\ ppc = "divide96" /\ High64 >= DivisorHi
    /\ LET q       == (High64 \div DivisorHi) % Base
           product == q * Low64(den)
           prod1   == product % B2
           prod2   == product \div B2
           low     == (num - prod1) % B2
           high    == (window[3] - q * DivisorHi - prod2) % Base
           borrow  == low > B2 - 1 - prod1
           left    == IF borrow THEN (high - 1) % Base ELSE high
           fits    == IF borrow THEN left < Base - 1 - prod2 ELSE left <= Base - 1 - prod2
       IN  /\ quo' = q /\ num' = low /\ top' = left
           /\ ppc' = IF fits THEN "divided" ELSE "add96"
    /\ UNCHANGED <<window, den>>

AddBack96 ==
    /\ ppc = "add96"
    /\ LET low   == (num + Low64(den)) % B2
           carry == low < Low64(den)
           high  == (top + DivisorHi) % Base
           left  == IF carry THEN (high + 1) % Base ELSE high
       IN  /\ quo' = (quo - 1) % Base /\ num' = low /\ top' = left
           /\ ppc' = IF (carry /\ high < DivisorHi) \/ left < DivisorHi THEN "divided" ELSE "add96"
    /\ UNCHANGED <<window, den>>

DivideNext == DivideLow \/ DivideLargest \/ Estimate64 \/ AddBack64
              \/ DivideNothing \/ Estimate96 \/ AddBack96

\* The remainder as it is put back into the window.
Left == IF Len(window) = 3
        THEN << Lo(num), Mid(num), window[3] >>
        ELSE << Lo(num), Mid(num), top, window[4] >>

-----------------------------------------------------------------------------
\* The value of the window and of the remainder.
Dividend == IF Len(window) = 3 THEN window[1] + High64 * Base
            ELSE window[1] + window[2] * Base + High64 * B2
Rest == IF Len(window) = 3 THEN num ELSE num + top * B2

\* What the callers see to: the words above the lowest are less than the divisor.
Divisible == Dividend \div Base < den

\* The estimate of partial_divide_96 does not fit the word it is cut to.
EstimateCut == Len(window) = 4 /\ window[4] >= DivisorHi
===============================================================================
