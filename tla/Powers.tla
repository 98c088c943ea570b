-------------------------------- MODULE Powers --------------------------------
(***************************************************************************)
(* The mathematical functions that do not end in a series: integer powers  *)
(* by squaring, the square root by the Babylonian method, the logarithm of *)
(* a power of ten (maths.rs).  One action per pass of a loop.  What may be *)
(* answered is a set of decimals, empty for None.                          *)
(***************************************************************************)
EXTENDS Arithmetic

CONSTANTS
    CircuitBreaker      \* the passes after which sqrt asserts that it has ended (1000)

\* Twice as many places as there are can be asked for; 2^96 < 10^29, and it ends in a 6.
ASSUME MathsAssumption ==
    /\ CircuitBreaker \in Nat
    /\ 2 * MAX_SCALE <= PowLimit
    /\ B3 <= POWERS[MAX_SCALE + 1]
    /\ B3 % Ten = (Ten \div 2) + 1

VARIABLES
    maths,              \* the call: [op, d |-> the decimal, n |-> the exponent, a decimal]
    mask,               \* `mask`: the bits of the exponent that are left
    product, power,     \* `product` and `power`
    guess, last,        \* `result` and `last` of sqrt
    circuit,            \* `circuit_breaker`
    left, tens,         \* `working` and `result` of checked_log10
    reply,              \* what may be returned
    mpc                 \* where the function is

mvars == <<maths, mask, product, power, guess, last, circuit, left, tens, reply, mpc>>
powVars == <<mask, product, power>>
sqrtVars == <<guess, last, circuit>>
logVars == <<left, tens>>

Integer(n) == [neg |-> n < 0, m |-> IF n < 0 THEN -n ELSE n, s |-> 0]
IsOne(d) == ~d.neg /\ d.m = POWERS[d.s]

MathsAt(call, at) ==
    /\ maths = call
    /\ mask = 0 /\ product = Integer(1) /\ power = ZERO
    /\ guess = ZERO /\ last = ZERO /\ circuit = 0
    /\ left = 0 /\ tens = 0
    /\ reply = {} /\ mpc = at
MathsIdle == MathsAt([op |-> "none", d |-> ZERO, n |-> ZERO], "idle")
MathsStart(op, d, n) == MathsAt([op |-> op, d |-> d, n |-> n], op)

X == maths.d
Replies(answers) == reply' = answers /\ mpc' = "done"

-----------------------------------------------------------------------------
(***************************************************************************)
(* checked_powd, checked_powi, checked_powu: an exponent is a decimal, the *)
(* integers have scale 0.                                                  *)
(***************************************************************************)
PowdTrivial ==
    /\ mpc = "powd"
    /\ maths.n.m = 0 \/ X.m = 0 \/ IsOne(X) \/ IsOne(maths.n)
    /\ Replies(IF maths.n.m = 0 THEN {Integer(1)} ELSE IF X.m = 0 THEN {ZERO}
               ELSE IF IsOne(X) THEN {Integer(1)} ELSE {X})
    /\ UNCHANGED <<maths, powVars, sqrtVars, logVars>>

\* An exponent with a fraction is left to exp and ln, one of two words refused.
PowdWhole ==
    LET n == Stripped(maths.n)
    IN  /\ mpc = "powd"
        /\ maths.n.m # 0 /\ X.m # 0 /\ ~IsOne(X) /\ ~IsOne(maths.n)
        /\ maths' = [maths EXCEPT !.n = n]
        /\ mpc' = CASE n.s > 0     -> "series"
                    [] n.s = 0 /\ n.m >= Base -> "done"
                    [] OTHER       -> "powi"
        /\ UNCHANGED <<powVars, sqrtVars, logVars, reply>>

\* What checked_powu answers, or checked_powi as the reciprocal of it.
Powered(p) == Replies(IF maths.n.neg THEN Quotients(Integer(1), p) ELSE {p})

PowTrivial ==
    /\ mpc = "powi"
    /\ \/ maths.n.m = 0 /\ Powered(Integer(1))
       \/ maths.n.m # 0 /\ X.m = 0 /\ Powered(ZERO)
       \/ maths.n.m # 0 /\ IsOne(X) /\ Powered(Integer(1))
       \/ maths.n.m = 1 /\ X.m # 0 /\ ~IsOne(X) /\ Powered(X)
    /\ UNCHANGED <<maths, powVars, sqrtVars, logVars>>

PowSquare ==
    /\ mpc = "powi" /\ maths.n.m = 2 /\ X.m # 0 /\ ~IsOne(X)
    /\ \/ \E p \in Products(X, X) : Powered(p)
       \/ Products(X, X) = {} /\ Replies({})
    /\ UNCHANGED <<maths, powVars, sqrtVars, logVars>>

PowStart ==
    /\ mpc = "powi" /\ maths.n.m > 2 /\ X.m # 0 /\ ~IsOne(X)
    /\ mask' = maths.n.m /\ power' = X /\ mpc' = "squares"
    /\ UNCHANGED <<maths, product, sqrtVars, logVars, reply>>

\* Mutant of Squared: the first pass squares, too.
SquaredAlways == Products(power, power)

Squared == IF mask = maths.n.m THEN {power} ELSE Products(power, power)
PowPass ==
    LET times(p) == IF mask % 2 = 1 THEN Products(product, p) ELSE {product}
    IN  /\ mpc = "squares" /\ mask > 0
        /\ \/ \E p \in Squared : \E r \in times(p) :
                 power' = p /\ product' = r /\ mask' = mask \div 2 /\ UNCHANGED <<reply, mpc>>
           \/ (\A p \in Squared : times(p) = {}) /\ Replies({}) /\ UNCHANGED powVars
        /\ UNCHANGED <<maths, sqrtVars, logVars>>

PowDone ==
    /\ mpc = "squares" /\ mask = 0
    /\ Powered(Stripped(product))
    /\ UNCHANGED <<maths, powVars, sqrtVars, logVars>>

-----------------------------------------------------------------------------
(***************************************************************************)
(* sqrt.                                                                   *)
(***************************************************************************)
SqrtTrivial ==
    /\ mpc = "sqrt" /\ (X.neg \/ X.m = 0)
    /\ Replies(IF X.neg THEN {} ELSE {ZERO})
    /\ UNCHANGED <<maths, powVars, sqrtVars, logVars>>

\* Half of the number, unless that rounds to zero, and anything else as `last`.
SqrtStart ==
    /\ mpc = "sqrt" /\ ~X.neg /\ X.m # 0
    /\ \E h \in Quotients(X, Integer(2)) :
        /\ guess' = IF h.m = 0 THEN X ELSE h
        /\ last' \in Sums(guess', Integer(1))
    /\ mpc' = "babylon"
    /\ UNCHANGED <<maths, powVars, circuit, logVars, reply>>

SqrtPass ==
    /\ mpc = "babylon" /\ ~Same(last, guess) /\ circuit + 1 < CircuitBreaker
    /\ circuit' = circuit + 1 /\ last' = guess
    /\ \E q \in Quotients(X, guess) : \E sum \in Sums(guess, q) : guess' \in Quotients(sum, Integer(2))
    /\ UNCHANGED <<maths, powVars, logVars, reply, mpc>>

\* assert!(circuit_breaker < 1000, "geo mean circuit breaker")
SqrtBreaks ==
    /\ mpc = "babylon" /\ ~Same(last, guess) /\ circuit + 1 >= CircuitBreaker
    /\ circuit' = circuit + 1 /\ mpc' = "broken"
    /\ UNCHANGED <<maths, powVars, guess, last, logVars, reply>>

\* Mutant of SqrtDone: a guess that does not fall is the root.
SqrtDoneRising ==
    /\ mpc = "babylon" /\ last.m * POWERS[guess.s] <= guess.m * POWERS[last.s]
    /\ Replies({guess})
    /\ UNCHANGED <<maths, powVars, sqrtVars, logVars>>

SqrtDone ==
    /\ mpc = "babylon" /\ Same(last, guess)
    /\ Replies({guess})
    /\ UNCHANGED <<maths, powVars, sqrtVars, logVars>>

-----------------------------------------------------------------------------
(***************************************************************************)
(* checked_log10.                                                          *)
(***************************************************************************)
LogTrivial ==
    /\ mpc = "log10"
    /\ \/ (X.neg \/ X.m = 0) /\ Replies({})
       \/ IsOne(X) /\ Replies({ZERO})
       \/ ~X.neg /\ X.s > 0 /\ X.m = 1 /\ Replies({Integer(-X.s)})
    /\ UNCHANGED <<maths, powVars, sqrtVars, logVars>>

LogStart ==
    /\ mpc = "log10" /\ ~X.neg /\ X.m > 1 /\ ~IsOne(X)
    /\ left' = X.m /\ mpc' = "tens"
    /\ UNCHANGED <<maths, powVars, sqrtVars, tens, reply>>

\* The last pass is the one that leaves a 1; a digit that is not zero hands over to ln.
LogDigit ==
    /\ mpc = "tens" /\ left # 1
    /\ left' = left \div Ten
    /\ IF left % Ten = 0 THEN tens' = tens + 1 /\ mpc' = mpc ELSE tens' = tens /\ mpc' = "series"
    /\ UNCHANGED <<maths, powVars, sqrtVars, reply>>

LogDone ==
    /\ mpc = "tens" /\ left = 1
    /\ Replies({Integer(tens - X.s)})
    /\ UNCHANGED <<maths, powVars, sqrtVars, logVars>>

MathsNext ==
    \/ PowdTrivial \/ PowdWhole \/ PowTrivial \/ PowSquare \/ PowStart \/ PowPass \/ PowDone
    \/ SqrtTrivial \/ SqrtStart \/ SqrtPass \/ SqrtBreaks \/ SqrtDone
    \/ LogTrivial \/ LogStart \/ LogDigit \/ LogDone

\* Any decimal; the exponent of powi is an integer.
MathsInit ==
    \/ MathsIdle
    \/ \E op \in {"powd", "powi", "sqrt", "log10"}, d, n \in Decimal :
            (op = "powi" => n.s = 0) /\ MathsStart(op, d, n)

MathsSpec == MathsInit /\ [][MathsNext]_mvars

-----------------------------------------------------------------------------
\* The places that a mantissa has room for.
Room(d) == CHOOSE t \in d.s..MAX_SCALE :
    /\ d.m * POWERS[t - d.s] <= Max96
    /\ t = MAX_SCALE \/ d.m * POWERS[t + 1 - d.s] > Max96

\* A power that is a decimal is found exactly, whatever the squares on the way to
\* it; any other is off by no more than half of Ten units of the last place it has
\* room for by each multiplication; the sign is that of an odd number of negative
\* factors; and there is no answer only if the power exceeds 96 bits or is that
\* close to them.
PowersClose ==
    mpc = "done" /\ maths.op \in {"powi", "powd"} /\ ~maths.n.neg /\ Stripped(maths.n).s = 0 =>
        LET n == Stripped(maths.n).m
            v == IF n = 0 THEN 1 ELSE X.m ^ n
            s == X.s * n
        IN  IF reply = {} THEN n >= Base \/ v > (Max96 - n * (Ten \div 2)) * POWERS[s]
            ELSE \A r \in reply :
                /\ r.m # 0 => r.neg = (X.neg /\ n % 2 = 1)
                /\ IF r.s >= s THEN r.m = v * POWERS[r.s - s]
                   ELSE Off(r.m * POWERS[s - r.s], v) <=
                            (n - 1) * (Ten \div 2) * POWERS[IF s > Room(r) THEN s - Room(r) ELSE 0]
                /\ v <= Max96 /\ s <= MAX_SCALE => r.m * POWERS[s - r.s] = v

\* The logarithm of every power of ten, and of no other number, is found without a series.
LogarithmExact ==
    maths.op = "log10" =>
        LET tenTo(e) == e + X.s \in 0..PowLimit /\ X.m = POWERS[e + X.s] /\ ~X.neg
        IN  /\ mpc = "series" => \A e \in -MAX_SCALE..PowLimit : ~tenTo(e)
            /\ mpc = "done" /\ reply = {} => X.neg \/ X.m = 0
            /\ mpc = "done" => \A r \in reply : tenTo(IF r.neg THEN -r.m ELSE r.m)

\* The root found is within half of Ten units of the last place it has room for.
RootClose ==
    mpc = "done" /\ maths.op = "sqrt" /\ X.m # 0 /\ ~X.neg =>
        \A r \in reply :
            LET t    == Room(r)
                a    == r.m * POWERS[t - r.s]
                c    == Ten \div 2
                v(b) == b * b * POWERS[IF X.s > 2 * t THEN X.s - 2 * t ELSE 0]
                x    == X.m * POWERS[IF X.s < 2 * t THEN 2 * t - X.s ELSE 0]
            IN  v(Off(a, SmallerOf(a, c))) <= x /\ x <= v(a + c)

\* What sqrt and log10 return: a root is within half of Ten units of the last place it
\* has room for, and the logarithm of a power of ten is its exponent, while any other
\* positive number is left to the series and only zero and negatives have no answer.
RootsAndLogarithms == RootClose /\ LogarithmExact

\* What the assertion in the loop of sqrt says: it ends.
SqrtConverges == mpc # "broken"
===============================================================================
