------------------------------- MODULE Numerals -------------------------------
(***************************************************************************)
(* What the digits of a text say.  The digits are those of its elements    *)
(* that are in a given set; all else in it is passed over.  Both functions *)
(* are of a position: what has been said before it and there.              *)
(***************************************************************************)
EXTENDS Integers, Sequences

\* The number they spell in radix r.
ValueTo(t, digits, r) ==
    LET n[i \in 0..Len(t)] == IF i = 0 THEN 0
                              ELSE IF t[i] \in digits THEN n[i - 1] * r + t[i] ELSE n[i - 1]
    IN  n

\* How many they are.
CountTo(t, digits) ==
    LET n[i \in 0..Len(t)] == IF i = 0 THEN 0
                              ELSE IF t[i] \in digits THEN n[i - 1] + 1 ELSE n[i - 1]
    IN  n
===============================================================================
