---------------------------- MODULE RoundedResult ----------------------------
(***************************************************************************)
(* What an arithmetic operation promises, whatever its algorithm: asked    *)
(* for the number (-1)^neg * v / Ten^s, it answers once, with that number  *)
(* rounded once, or with an overflow when not even the integral part of    *)
(* the number fits a mantissa.  Mul is shown to implement it.              *)
(***************************************************************************)
EXTENDS DecimalBase

VARIABLES
    asked,      \* the exact number: [v, s, neg]
    answer      \* [kind |-> "none" | "decimal" | "overflow", d |-> the decimal]

None96 == [kind |-> "none", d |-> ZERO]
Overflow96 == [kind |-> "overflow", d |-> ZERO]
Decimal96(d) == [kind |-> "decimal", d |-> d]

Allowed(n, r) ==
    \/ r = Overflow96 /\ HalfEven(n.v, POWERS[n.s]) > Max96
    \/ /\ r.kind = "decimal"
       /\ IsRoundingOf(r.d, n.v, n.s)
       /\ r.d.m # 0 => r.d.neg = n.neg

Unanswered == answer = None96

Answer == Unanswered /\ Allowed(asked, answer') /\ UNCHANGED asked

\* The answer comes in the end.
Answered == <>(~Unanswered)

PromiseSafety == Unanswered /\ [][Answer]_<<asked, answer>>

PromiseSpec == PromiseSafety /\ Answered
=============================================================================
