------------------------------- MODULE Limits --------------------------------
(***************************************************************************)
(* What several routines need of the largest mantissa and of the table of  *)
(* powers, beyond what makes it a table of powers.                         *)
(***************************************************************************)
EXTENDS DecimalBase

\* A product has the scales of both factors, a quotient the digits of its scale and
\* those of the divisor's.
ASSUME LimitAssumption == 2 * MAX_SCALE <= PowLimit

\* 2^96 is not halfway between two multiples of ten: a mantissa that carried over 96
\* bits and loses a digit is no tie.
ASSUME CarryAssumption == B3 % Ten # Ten \div 2
=============================================================================
