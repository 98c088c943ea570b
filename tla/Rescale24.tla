------------------------------ MODULE Rescale24 ------------------------------
(***************************************************************************)
(* Buf24::rescale: bring an integer of up to six words, carrying a scale,  *)
(* back to a three word mantissa with a scale of at most MAX_SCALE.        *)
(* Addition and multiplication both end in it.  One action per pass of its *)
(* loop; val is the number held by words 0..upper of the buffer (the word  *)
(* long division of a pass is integer division, see LongDivision).         *)
(***************************************************************************)
EXTENDS Limits, FiniteSets

CONSTANT LOG_BITS   \* 256 times the decimal digits in a bit, rounded down (77)

ASSUME LogAssumption == LOG_BITS \in 1..256

\* LOG_BITS does not overrate a bit: n bits are worth that many digits, or more.
ASSUME EstimateAssumption ==
    \A n \in 0..(3 * WordBits - 1) :
        /\ (n * LOG_BITS) \div 256 <= PowLimit
        /\ POWERS[(n * LOG_BITS) \div 256] <= 2^n

VARIABLES
    arg,        \* the call: [v |-> the buffer, u |-> its `upper`, s |-> its scale]
    val,        \* the buffer
    upper,      \* `upper`: index of its last word in use
    scale,      \* `scale`
    target,     \* `rescale_target`: digits still to drop
    sticky,     \* `sticky` # 0: a digit dropped by an earlier pass was not zero
    remainder,  \* `remainder` of the last pass
    rpc         \* where the routine is

rvars == <<arg, val, upper, scale, target, sticky, remainder, rpc>>

-----------------------------------------------------------------------------
\* The weight of word i: Base^i.
Weight == [i \in 0..6 |-> << 1, Base, B2, B3, B3 * Base, B3 * B2, B3 * B3 >>[i + 1]]

\* Buf24::upper_word
UpperWord(v) == CHOOSE i \in 0..5 : /\ i > 0 => Weight[i] <= v
                                    /\ v < Weight[i + 1]

\* WordBits - leading_zeros
BitLength(w) == IF w = 0 THEN 0 ELSE 1 + Cardinality({i \in 1..(WordBits - 1) : 2^i <= w})

\* Mutant of FirstTarget: the highest bit counted twice.
FirstTargetLong(v, u) ==
    IF u <= 2 THEN 0
    ELSE ((((u - 3) * WordBits + BitLength(v \div Weight[u])) * LOG_BITS) \div 256) + 1

\* The first guess at the number of digits to drop: no more than are needed.
FirstTarget(v, u) ==
    IF u <= 2 THEN 0
    ELSE LET bits == (u - 3) * WordBits - 1 + BitLength(v \div Weight[u])
         IN  ((bits * LOG_BITS) \div 256) + 1

\* The calls: `upper` is the last word in use, or one above it after a
\* subtraction emptied that word.
RescaleArgs == {a \in [v : 0..(B3 * B3 - 1), u : 0..5, s : 0..(2 * MAX_SCALE)] :
                    a.v < Weight[a.u + 1]}

Entered(a) ==
    /\ arg = a
    /\ val = a.v /\ upper = a.u /\ scale = a.s
    /\ target = 0 /\ sticky = FALSE /\ remainder = 0
    /\ rpc = "enter"

RescaleInit == \E a \in RescaleArgs : Entered(a)

\* The same for a routine that calls this one, and before it does.
NoCall == [v |-> 0, u |-> 0, s |-> 0]
RescaleIdle ==
    /\ arg = NoCall
    /\ val = 0 /\ upper = 0 /\ scale = 0
    /\ target = 0 /\ sticky = FALSE /\ remainder = 0
    /\ rpc = "idle"
RescaleCall(a) ==
    /\ arg' = a
    /\ val' = a.v /\ upper' = a.u /\ scale' = a.s
    /\ rpc' = "enter"
    /\ UNCHANGED <<target, sticky, remainder>>

\* The estimate exceeds the digits there are: nothing left to drop.
EnterOverflow ==
    /\ rpc = "enter"
    /\ FirstTarget(val, upper) > scale
    /\ rpc' = "overflow"
    /\ UNCHANGED <<arg, val, upper, scale, target, sticky, remainder>>

\* Mutant of Enter: the estimate is not compared with the scale.
EnterUnguarded ==
    /\ rpc = "enter"
    /\ target' = FirstTarget(val, upper) /\ scale' = scale - FirstTarget(val, upper)
    /\ rpc' = "divide"
    /\ UNCHANGED <<arg, val, upper, sticky, remainder>>

\* Drop at least what brings the scale within MAX_SCALE.
Enter ==
    /\ rpc = "enter"
    /\ FirstTarget(val, upper) <= scale
    /\ LET t0 == FirstTarget(val, upper)
           t  == IF t0 < scale - MAX_SCALE THEN scale - MAX_SCALE ELSE t0
       IN  IF t > 0
           THEN target' = t /\ scale' = scale - t /\ rpc' = "divide"
           ELSE rpc' = "done" /\ UNCHANGED <<target, scale>>
    /\ UNCHANGED <<arg, val, upper, sticky, remainder>>

\* Mutant of Divide: the flag remembers only the pass before.
DivideForgets ==
    /\ rpc = "divide"
    /\ LET power == POWERS[Chunk(target)]
       IN  /\ val' = val \div power
           /\ remainder' = val % power
           /\ upper' = IF val \div power < Weight[upper] /\ upper > 0 THEN upper - 1 ELSE upper
    /\ sticky' = (remainder # 0)
    /\ rpc' = "check"
    /\ UNCHANGED <<arg, scale, target>>

\* One pass: divide by the next power of ten.
Divide ==
    /\ rpc = "divide"
    /\ LET power == POWERS[Chunk(target)]
       IN  /\ val' = val \div power
           /\ remainder' = val % power
           /\ upper' = IF val \div power < Weight[upper] /\ upper > 0 THEN upper - 1 ELSE upper
    /\ sticky' = (sticky \/ remainder # 0)
    /\ rpc' = "check"
    /\ UNCHANGED <<arg, scale, target>>

\* Mutant of NextChunk: the digits just dropped are not counted.
NextChunkUncounted ==
    /\ rpc = "check" /\ target > MAX_I32_SCALE
    /\ rpc' = "divide"
    /\ UNCHANGED <<arg, val, upper, scale, target, sticky, remainder>>

\* More than a word's worth of digits was asked for.
NextChunk ==
    /\ rpc = "check" /\ target > MAX_I32_SCALE
    /\ target' = target - MAX_I32_SCALE
    /\ rpc' = "divide"
    /\ UNCHANGED <<arg, val, upper, scale, sticky, remainder>>

\* Mutant of OneMore: gives up with a digit left.
OneMoreEarly ==
    /\ rpc = "check" /\ target <= MAX_I32_SCALE /\ upper > 2
    /\ IF scale <= 1
       THEN rpc' = "overflow" /\ UNCHANGED <<scale, target>>
       ELSE scale' = scale - 1 /\ target' = 1 /\ rpc' = "divide"
    /\ UNCHANGED <<arg, val, upper, sticky, remainder>>

\* The estimate was short of 96 bits: one more digit, if there is one.
OneMore ==
    /\ rpc = "check" /\ target <= MAX_I32_SCALE /\ upper > 2
    /\ IF scale = 0
       THEN rpc' = "overflow" /\ UNCHANGED <<scale, target>>
       ELSE scale' = scale - 1 /\ target' = 1 /\ rpc' = "divide"
    /\ UNCHANGED <<arg, val, upper, sticky, remainder>>

RoundsUp ==
    LET half == POWERS[Chunk(target)] \div 2
    IN  half < remainder \/ (half = remainder /\ (val % 2 = 1 \/ sticky))

Round ==
    /\ rpc = "check" /\ target <= MAX_I32_SCALE /\ upper <= 2
    /\ ~(RoundsUp /\ val = Max96)
    /\ val' = IF RoundsUp THEN val + 1 ELSE val
    /\ rpc' = "done"
    /\ UNCHANGED <<arg, upper, scale, target, sticky, remainder>>

\* Rounding up carried into the fourth word: drop one more digit.
RoundCarries ==
    /\ rpc = "check" /\ target <= MAX_I32_SCALE /\ upper <= 2
    /\ RoundsUp /\ val = Max96
    /\ val' = val + 1
    /\ IF scale = 0
       THEN rpc' = "overflow" /\ UNCHANGED <<upper, scale, target, sticky, remainder>>
       ELSE /\ upper' = 3 /\ sticky' = FALSE /\ remainder' = 0
            /\ target' = 1 /\ scale' = scale - 1
            /\ rpc' = "divide"
    /\ UNCHANGED arg

RescaleNext ==
    EnterOverflow \/ Enter \/ Divide \/ NextChunk \/ OneMore \/ Round \/ RoundCarries

RescaleSpec == RescaleInit /\ [][RescaleNext]_rvars

-----------------------------------------------------------------------------
\* The values each variable of the routine can take.
RescaleTypeOK ==
    /\ arg \in [v : Nat, u : 0..5, s : 0..(2 * MAX_SCALE)]
    /\ val \in Nat
    /\ upper \in 0..5
    /\ scale \in 0..(2 * MAX_SCALE)
    /\ target \in 0..(2 * MAX_SCALE)
    /\ sticky \in BOOLEAN
    /\ remainder \in Nat
    /\ rpc \in {"idle", "enter", "divide", "check", "done", "overflow"}

Dropped == arg.s - scale

\* A call's `upper` is the last word in use, or one that a borrow of less than
\* 2^96 has just emptied: what the estimate of the digits to drop relies on.
TopInUse(a) == a.u > 2 => a.v >= Weight[a.u] - B3

\* The result is the argument with its last digits rounded off once, half to
\* even, however many passes, single digits and carries it took: the sticky
\* flag stands for every digit dropped before the last pass.
RescaleRounded ==
    rpc = "done" =>
        /\ val <= Max96
        /\ scale <= MAX_SCALE
        /\ IsHalfEven(val, arg.v, POWERS[Dropped])

\* No digit is dropped that could have been kept: with one digit fewer the
\* rounded value needs more than 96 bits or the scale exceeds MAX_SCALE.
RescaleKeepsDigits ==
    TopInUse(arg) /\ rpc = "done" /\ Dropped > 0 /\ scale < MAX_SCALE =>
        HalfEven(arg.v, POWERS[Dropped - 1]) > Max96

\* Overflow is reported only when not even the integral part fits.
RescaleOverflows ==
    TopInUse(arg) /\ rpc = "overflow" => HalfEven(arg.v, POWERS[arg.s]) > Max96

\* A call returns, with a result or an overflow.
RescaleTerminates == rpc = "enter" ~> rpc \in {"done", "overflow"}
=============================================================================
