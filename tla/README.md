# rust_decimal: models and proofs

`rust_decimal` computes with decimals of 96 bits: a sign, a mantissa of three
32-bit words and a scale of 0 to 28, worth (-1)^sign * mantissa / 10^scale.
There are no threads, no I/O and no state between calls; what is hard is the
arithmetic. Every operation is a loop over machine words that has to be right at
each carry, each wrap, each table boundary and each tie, on inputs a random test
reaches with probability 2^-32 or less. This project models the operations as
state machines, one action per pass of a loop, checks them on word sizes small
enough to reach all of those cases, and proves the operations themselves for every
word size, radix and table: multiplication, addition and subtraction, division,
remainder, comparison, the rounding of wide results and every rounding strategy, and
with them the parsers of texts in radix ten and any other, scientific notation, the formatter, the literals of `dec!`, the byte form, the
form PostgreSQL sends, the conversions from and to machine integers, the sampler of random decimals, square roots, logarithms of powers
of ten and the reduction of angles.

## Components

| component | source | state it keeps | what makes it correct | module |
|---|---|---|---|---|
| Number representation | `src/decimal.rs`, `src/constants.rs` | four words: flags (sign, scale), lo, mid, hi | scale at most 28; zero from a constructor is not negative; tables hold the powers they claim | `DecimalBase` |
| Rescaling of wide results | `src/ops/common.rs`, `Buf24::rescale` | a six-word buffer, its top word, the scale, the digits still to drop, a sticky flag | rounded once, half to even; no digit dropped that could stay; overflow only if the integral part does not fit | `Rescale24`, proofs in `AddMul_proofs` |
| Multiplication | `src/ops/mul.rs` | six-word product | the partial products add up; one rounding | `Mul`, proofs in `AddMul_proofs` |
| Addition, subtraction | `src/ops/add.rs` | the operand being scaled, the factor still due, a six-word buffer | scaling is exact; carries and borrows reach exactly as far as they must; one rounding | `AddSub`, proofs in `AddMul_proofs` |
| Division | `src/ops/div.rs`, `find_scale` in `src/ops/common.rs` | quotient, remainder of up to four words, shifted divisor, a scale that may be negative | nothing is lost between passes; nearest quotient, ties to even, as many digits as fit; ends | `Division`, `Scaling`, `PartialDivide`, proofs in `Division_proofs` |
| Remainder | `src/ops/rem.rs` | dividend or divisor being scaled, a buffer of up to seven words, a window in it | the exact remainder at the larger scale; sign of the dividend | `Remainder`, proofs in `Remainder_proofs` |
| Comparison, hashing | `src/ops/cmp.rs`, `Hash` | two mantissas, one being scaled | the order of the values; equal values hash alike | `Comparison`, proofs in `Remainder_proofs` |
| Digit loops, rounding strategies, significant figures, normalisation | `src/ops/array.rs`, `src/decimal.rs` 941-1698 | a mantissa, a scale, digits left | each strategy on the signed value at the place asked for; the value stays when no digit goes | `Rounding`, proofs in `Rounding_proofs` |
| The promise of an operation | `src/arithmetic_impls.rs` | a question, an answer | answered once, rounded once, or truly overflowing | `RoundedResult` (abstract) |
| Operators, checked and saturating API | `src/arithmetic_impls.rs` | - | an overflow becomes None, a panic or the nearest bound | `Arithmetic` (as functions), `Saturated` in `AddSub` |
| Text parser | `src/str.rs` | bytes left, what was seen, a 64 or 128 bit accumulator, the scale | accepts the grammar, rounds the tail once | `Parser`, proofs in `Texts_proofs`; other radices `RadixParser`, proofs in `RadixParser_proofs` |
| Scientific notation, serde's text form | `src/decimal.rs` 576-740, `src/serde.rs` | the number read, the exponent still due | the number, as the text parser reads it, times the power; the exponent loses digits in the lossy variant only | `Scientific`, proofs in `Texts_proofs` |
| Formatter | `src/str.rs` 14-155 | digits, a buffer of 32 bytes | written without a precision it is read back the same, and fits | `Formatter`, proofs in `Texts_proofs` |
| Binary floats | `base2_to_decimal` | a mantissa, factors of five and of ten still due | less than a unit away; the nearest float of a short decimal gives that decimal | `BinaryFraction` |
| Byte form, integers | `serialize`, `deserialize`, `From`, `ToPrimitive` | - | round trips; any bytes become a decimal; a type's limits are respected | `Forms`, proofs in `Conversions_proofs` |
| PostgreSQL form | `src/postgres/common.rs` | groups of four digits, weight, scale | round trip; any numeric read to the last place that fits, or refused | `Postgres`, proofs in `Conversions_proofs` |
| Literal macros | `macros/src/str.rs` | an i128, an exponent in an i32, a count in a u8 | the number that is written, or refused | `Literal`, proofs in `Texts_proofs` |
| Mathematical functions | `src/maths.rs` | powers and products, guesses, an angle | exact where the answer is a decimal; close otherwise; loops and recursion end | `Powers`, `Angles`, proofs about roots, logarithms and angles in `Conversions_proofs`; the series are not modelled |
| Random ranges | `src/rand_0_9.rs` | two ends | one scale; nothing drawn outside the range | `RandomRange`, proofs in `Conversions_proofs` |
| MySQL, drivers, borsh, rocket, proptest, fuzz, errors | `src/*.rs` | - | delegation to the parser and the conversions | not modelled |

How they interact: the operators and the checked and saturating functions
unpack a `CalculationResult` of the operations in `src/ops`. Addition and
multiplication end in `Buf24::rescale`; division has its own way back from an
overflow. `floor`, `ceil`, `fract` and `round_sf` are written with the
operations and the digit loops; the parsers, the drivers, serde and the
mathematical functions are written with all of those. Nothing is concurrent and
nothing is persisted, so the hazards are of sequences of steps: a carry between
two loops, a flag read from a word another step left behind, a limit met by the
second of two steps, a loop that must end. `PROJECT.json` lists them line by line.

## How the models are built

**Numbers.** `DecimalBase` has the word size (`Base`, 2^32 in the code, and `WordBits`, its
32 bits), the radix (`Ten`), the maximal scale, the number of digits that fit one and two
words, and the tables of powers as constants, with the laws that relate them as
assumptions. A mantissa is an integer below Base^3 and its words are `Lo`, `Mid`,
`Hi`. Wrapping arithmetic is written with `%`, and where the code recognises a
wrap by comparing words, the model compares the same words.

**Steps.** A routine is a machine with a program counter. A pass of a loop is
one action; a branch with an early return is one action. A division of a number by one
word, word by word from the top, is written as the integer division it computes.
Loops over words whose carries are the question are modelled word by word: the
partial products of `Mul`, the carry and borrow loops of `AddSub`.

**Calls.** `Mul` and `AddSub` extend `Rescale24`: they set its variables
(`RescaleCall`), its own actions run, and they take its answer. In the same way
`Remainder` runs `Comparison` and `PartialDivide`, `Scientific` runs `Parser`,
and `Formatter` runs `Scientific` over the text it has written. Where a routine only
needs the answer of an operation (`Scientific`, `Postgres`, `Powers`,
`RandomRange`), `Arithmetic` gives it as a function of the exact result; that the
algorithms give these answers is the subject of `Mul`, `AddSub`, `Division` and `Rounding`.
The exceptions those modules name cannot occur there: no such caller subtracts, and
for the ties of a long divisor `Quotients` allows either neighbour.

**Idle machines.** A run over several machines makes one call of one of them in each
behaviour; the others stay in the state `...Idle`, which none of their actions leave. `radix10` has no idle
machines: a behaviour multiplies, adds and divides, and two of the three have trivial operands.

**Initial states.** `Init` of every module is every call the code accepts. The
MC modules start from subsets chosen around the boundaries. The operands stay in
variables (`arg`, `x`, `y`, `call`) so that properties can compare the result
with the exact value.

**Mutants.** Next to the definitions stand variants with a plausible mistake,
each marked as a mutant: a flag that remembers one pass, a digit counted twice,
a dropped borrow. No specification uses them; each was put in the place of its original
to see a property fail, so that every property is known to depend on the code.

## Modules

| module | models | remarks |
|---|---|---|
| `DecimalBase` | representation, tables | also defines what a correct rounding is: `IsHalfEven`, `IsRoundingOf` |
| `DecimalLemmas` | - | what the proofs share: quotients and remainders, powers, chunks, words, `HalfEven`, `find_scale`, shifts, recursive functions, the values of digits |
| `Rescale24` | `Buf24::rescale` | actions `EnterOverflow`, `Enter`, `Divide`, `NextChunk`, `OneMore`, `Round`, `RoundCarries` are the returns and turns of its loop in order |
| `*_proofs` | - | the inductive invariant of the component, one lemma per action, the theorems |
| `RoundedResult` | the abstract operation | a question and one answer |
| `Mul` | `mul_impl`, `mul_by_32bit_lhs` | zero, one-word, long; `LongProduct` has the nine partial products |
| `AddSub` | `add_sub_internal`, `fast_add`, `aligned_add`, `flip_sign`, `reduce_scale`, `unaligned_add` | loops `ScaleLow`, `ScaleMid`, `ScaleHigh`, `ScaleBuffer`, `Carry`, `Borrow` |
| `Limits` | - | what `Rescale24` and `Division` assume of the largest mantissa and of the table |
| `Scaling` | `find_scale`, the shift that sets a divisor's top bit | used by `Division` and `Remainder` |
| `Division` | `div_impl`, `unscale_from_overflow`, `round_up`, `unscale` | one machine for the three loops; `numer` and `denom` are the operands, `div_scale` and `div_remainder` the `scale` and `remainder` of the code, `stale` the fourth word of the remainder |
| `PartialDivide` | `partial_divide_64`, `partial_divide_96` | the estimate of a quotient word and the passes that add the divisor back |
| `Comparison` | `cmp_impl`, `cmp_internal`, its `rescale`, `Hash` | `Remainder` enters at `cmp_internal` |
| `Remainder` | `rem_impl`, `rem_full` | `ScaleDivisor`, `ScaleDividend`, `GrowBuffer`, `NextWindow` are the loops; `cut` remembers that an estimate did not fit a word |
| `Rounding` | `array::rescale`, and the methods of `Decimal` that change a scale | `round_sf` hands over to the loops of `rescale` or `round_dp` |
| `Arithmetic` | what the operations answer | functions of the exact result |
| `Numerals` | - | what the digits of a text say, and how many they are: recursive functions of a position, used by the properties of the parsers |
| `Parser` | `parse_str_radix_10` and its exact variant | the const generics of the chain of functions are the record `seen`; an action is a byte |
| `Scientific` | `from_scientific_exact`, `from_scientific_lossy`, `visit_str` | |
| `Formatter` | `to_str_internal`, `fmt_scientific_notation` | |
| `RadixParser` | `parse_str_radix_n` | digits collected, rounded, then multiplied in |
| `BinaryFraction` | `from_f32`, `from_f64`, `base2_to_decimal` | a format is a record of widths |
| `Postgres` | `to_postgres`, `checked_from_postgres` | an i128 power that overflows wraps, or panics in a build with overflow checks (`PowerOverflows`) |
| `Literal` | `parse_dec`, `parse_radix_dec`, `to_decimal` of the macros | an exponent or a count that leaves its type wraps, or panics in a build with overflow checks (`Overflows`) |
| `Powers` | `checked_powd`, `checked_powi`, `checked_powu`, `sqrt`, `checked_log10` | hand over to the series in the state "series" |
| `Angles` | `checked_sin`, `checked_cos`, `checked_tan` | a recursive call is an action; an angle is a number of units of the last place |
| `Forms` | `serialize`, `deserialize`, `div_by_power`, `from_i32` to `to_u128` | |
| `RandomRange` | `DecimalSampler`, `sync_scales` | |
| `MC*` | - | constants and initial states of the runs |

## Runs

| run | number system | shows |
|---|---|---|
| `radix10` | radix 10, words of 4 bits | `MulProductExact`: no carry between partial products is lost; `MulImplements`: `Mul` refines `RoundedResult`, termination included; `ScalingExact` at every pass of the sums, `SumRounded` (with overflow and saturation), `AddTerminates`; `LongDivisionExact` between passes of the division, `DivNearest`, `DivHalfEven`, `DivTerminates`, for the three widths of divisors |
| `addsub_borrow` | the same | violation of `DifferenceRounded`, below |
| `radix6` | radix 6, words of 6 bits, two digits per pass | `ScalesByLargest`: the table search of `find_scale`; `PartialDivideExact`; `CompareExact`; `RemainderExact`, `WindowsKeepRemainder`, `RemTerminates` |
| `division_ties` | radix 10, words of 6 bits | violation of `DivTiesToEven`, below |
| `remainder_cut` | as `radix6` | violation of `RemainderTrue`, below |
| `rounding` | radix 4, words of 5 bits, two digits per word | `RescaleRounded`: one rounding, half to even, through chunks, single digits and carries; `RescaleKeepsDigits`, `RescaleOverflows`: the fixed point estimate never costs a digit; `RescaleTerminates`; `RoundsAsAsked` for eight operations and seven strategies, `ValueKept`, `SfOverflows`, `RoundingTerminates` |
| `rounding_max` | the same | violation of `ScaleWithinMax`, below |
| `conversions` | radix 6, words of 4 bits | one property for each conversion and for the mathematical functions: see the next section |
| `conversions_literal` | the same | violation of `LiteralExact`, below |
| `conversions_radix` | the same, radices 2 and 3 | violation of `RadixWorth`, below |
| `conversions_scientific` | the same | violation of `ScientificExact`, below |
| `conversions_sqrt` | the same | violation of `SqrtConverges`, below |

`CHECK_DEADLOCK FALSE` is in every configuration because a call that has
returned takes no further step.

**Why small words are enough.** Nothing in the code depends on 32 and 10 but
through the laws in `DecimalBase` and a few numbers checked there: the maximal scale is
the largest power below 2^96, a word holds a fixed number of digits, and the residue
of 2^96 modulo 10 is 6. With words of four bits and radix 10, Base^3 % 10 is 6 as
well, and all the shapes occur: products of six words, sums one above the largest
mantissa, quotients that overflow in either of two steps. What radix 10 with four bits cannot
show is a loop that drops or adds more than one digit per word, so `rounding` and
`radix6` use systems where a word holds two digits. (Radix 4 is
no use for `find_scale`: its overflow table has all low bits set.) The operands
are the words 0, 1 and Base-1 in every position, powers of the radix and their
halves, and quotients, products and sums next to them; each configuration's
comments say which.

The conversions use radix 6 because it has, like 10, an odd prime and a power of two
next to each other: half of it is 3 where half of 10 is 5, so the factors of five of the
binary conversion become factors of three, and a mantissa has up to four digits.
What the code fixes is kept in proportion:

* the parser changes from 64 to 128 bits at `BYTES_TO_OVERFLOW_U64` = 4 bytes or when
  `WILL_OVERFLOW_U64` is reached, both the largest safe ones as in the code;
* the buffer of the formatter has `MAX_STR_BUFFER_SIZE` = 8 bytes, one more than the
  longest decimal (sign, zero, point and four digits) needs, as in the code;
* a PostgreSQL group has two digits and MAX_SCALE is a multiple of that (28 and 4);
* the integer of the literal parser has four words (`Max128`), its exponent runs to `Max32` = 31, far beyond
  MAX_SCALE, and its count of decimals to `Max8` = 7, above MAX_SCALE, as 2^31 - 1 and 255 do;
* `ScaleBits` is 8, so that three scales that the flags hold are too large, as 29 to 31 are;
* `EIGHTH_PI` is such that the constants stand in the relations those of `decimal.rs` do:
  2π is twice π, but π is one unit more than twice π/2, which is twice π/4 and four
  times π/8;
* `CircuitBreaker` is 40 instead of 1000: every root that ends does so within a dozen passes.

Bounds: `PowLimit`, the sets of the MC modules, `CircuitBreaker`, and the 32-bit
integers of TLC, which limit the bases of powers and the width of the words. No
counter is capped otherwise.

## What the conversions promise

The properties state what the code does for every input, so they name the inputs for
which it does less than one would expect. Where a sentence of the documentation
or a comment says otherwise, the bullet quotes it or names the run in which it is violated (see Findings).

* `ParsedRounded`: a text is rounded half away from zero at the first digit there is
  no room for. Bytes behind that digit are not validated (`1.` followed by 30 digits and
  letters is a number), and if the byte there is `_` while the 64 bit stage runs, it
  counts as a digit 0 (`SeparatorRounds`); the 128 bit stage looks behind it.
* `ScientificRounded`: the part in front of the exponent is read by `from_str`, which rounds it once where its digits do not
  fit; when all of them are kept, the exact variant returns the number of the whole text. An exponent changes the scale, or
  multiplies when the scale has nothing left. By the exponent the lossy variant alone loses digits, and rounds half away from zero.
  A negative exponent may have a `+` behind its `-`. That the exact variant may lose digits without an error is
  `conversions_scientific`.
* `FormatParses`: without a precision, reading undoes writing. A precision cuts the
  plain form and does not round it, and a long one overflows the buffer of 32 bytes and
  panics. A zero is written `e0` in scientific notation, which no parser reads.
* `RadixDigitsKept`: the mantissa is what the digits say in the radix of the text, and the scale how many of them are behind the
  point. That is the number of the text only if there are none: `from_parts` takes the scale for places of ten (`conversions_radix`).
  Leading zeros count as digits, so enough of them cut the integral
  part (`IntegralCut`, by all the digits in front of the first point); the rounding and its carry assume digits of at most 9
  (the property says nothing of the numbers larger radices give); carrying over 96 bits is an error
  (`CarryRefused`); more than 28 places, or a 97th binary digit, panic.
* `FloatClose`: rounding digit by digit stays within a unit, and short decimals survive.
* `PostgresKeeps`: the sign and the scale of zero are lost. A power for the groups of zeros not sent that no decimal holds panics
  instead of being refused; one that no i128 holds panics in a build with overflow checks and wraps in one without
  (`10i128.pow`, `src/postgres/common.rs:59`). What is read then is not the number sent, and the property says nothing of it
  (`PowerWraps`). From 32 groups of zeros on the wrapped power is 0, so that NUMERIC 1e128 is read as 0, against the
  comments and tests of the driver, where a number that is too large is an overflow; from 8 to 31 groups the power has more than
  96 bits and the call panics in either build. The run reaches both: in radix 6, the digit 1 with the weight 8 is read as 0.
* `LiteralAgrees`: exact, but for the finding below. The decimals are counted in a u8 and the exponents
  added up in an i32 before they are judged; where either leaves its type (`NothingWraps` is false) a build without overflow checks
  accepts another number, for example `0.` with 255 zeros and a 1 as 1, or `dec!(1e2147483647, exp 2147483647)` as 0.01,
  although `dec!` says that the exponent "must be between -28 and +28 inclusive".
* `FormsAgree`: a byte form with a scale of 29 loses one digit, rounded half up; with 30
  or 31 the whole remainder is compared with five, so that nearly every fraction counts
  as one more. The comment there says "Only two values can be greater than this"; there are three.
* `PowersClose`: an integer power that is a decimal is exact, others are off by at most
  half of `Ten` units for each multiplication. A negative exponent gives the reciprocal
  of the rounded power, about which nothing is said: for a small base it is far off, or
  None when the power rounds to zero. `powd` of zero to a negative power is zero where `powi` is None.
* `RootsAndLogarithms`: a root that is found is within half of `Ten` units of the last place it has room for (`RootClose`), and the logarithm
  of a power of ten, and of no other number, is found without the series (`LogarithmExact`).
* `AngleReduced`: after at most six calls, an angle for the series, whose phase is that
  of the angle asked for within three units of the last place. The remainder by 2π is taken to be
  exact: the angles for which it is not are those of the finding `remainder_cut`.
* `RangeAgrees`: nothing drawn is outside the range, but for half a unit where an end
  has more places than the other end can be given. An exclusive range that ends at the
  smallest decimal panics.

**Fairness.** `WF(Next)` is the only fairness used, and only for termination: a
function that has been called is executed to its end.

## Findings

* `addsub_borrow`: in `unaligned_add` (`src/ops/add.rs:324-330`) a borrow that leaves the third
  word is propagated until a word is positive *after* it was decremented. If
  the fourth word is 0 it wraps, the loop stops, and the borrow from the fifth
  word is lost; if it is 1 it becomes 0 and the fifth word is decremented as
  well. `SumRounded` states the same for all other cases (`BorrowMiscounts`
  names the exception). For example 34028236692093846346337460744 - 9.9999999999.
* `division_ties`: with a three-word divisor, the flag that breaks a tie upwards
  (`src/ops/div.rs:542`) includes the fourth word of the remainder, which
  the preceding scaling set and the division did not clear. An exact tie that
  overflows 96 bits is rounded up to an odd digit; the nearest-value property
  `DivNearest` still holds. For example 15845632502852867518708790069 /
  20000000000000000000.
* `rounding_max`: rescaling a non-zero value upwards is not held to `MAX_SCALE`
  (`src/ops/array.rs:54`), against the documentation of `rescale`. `ValueKept` therefore asks for the zeros up to
  `MAX_SCALE` only.
* `remainder_cut`: `partial_divide_96` (`src/ops/div.rs:161`) cuts its estimate to a
  word. Its comment says that the divisor must require 96 bits "otherwise various assumptions fail (e.g. 32
  bit quotient)"; `rem_full` meets that, but also calls it on windows whose top word
  equals the divisor's, where the quotient has 33 bits. `RemainderExact` states the
  same for all other cases. For example 74033215031846134903087154086 % 39614081367.812633238525765639.
* `conversions_literal`: `to_decimal` of the macros (`macros/src/str.rs:147`) ignores a
  product that overflows an i128, so `dec!(100_000_000_000e28)` is 100000000000 where a number
  a little smaller is refused.
* `conversions_sqrt`: the iteration of `sqrt` (`src/maths.rs:373`) can alternate between two
  neighbours for ever; after a thousand passes an assertion panics. For example the
  root of 39720354828415177818323744671. `RootsAndLogarithms` holds of every root that is found.
* `conversions_radix`: `parse_str_radix_n` (`src/str.rs:723`) counts the places of a fraction in the radix of the text and
  returns them as the scale of the decimal, so `from_str_radix("1.1", 2)` is 0.3, though the documentation
  says that it converts a string in a given base. Without a point the number is right.
* `conversions_scientific`: the documentation of `from_scientific_exact` promises an error when the value
  "underflows and cannot be represented with the given scale"; the part in front of the exponent is read by `from_str`
  (`src/decimal.rs:584`), which rounds. `0.00000000000000000000000000001e1` (28 zeros behind the point) is read as 0, although
  the number is 10^-28.

Which of the shortest counterexamples TLC prints depends on the order of its workers; for `remainder_cut`
and `rounding_max` that changes the operands and not the path.

Numbers at the full width in this list come from reasoning with the model or from a
simulation of the routine with wide integers, not from a run of TLC.

## Proofs

Every theorem holds for all values of the constants that satisfy the named assumptions;
TLC evaluates those on every run. They say of the numbers of the code:

* `BaseAssumption`, `BitsAssumption`: a word has `WordBits` bits and is even.
  `TwosAssumption` spells out what 2^i is (the prover has no rules for `^`).
* `ScaleAssumption`, `PowersAssumption`, `WidthAssumption`: the tables of
  `constants.rs` are powers, and those of 9, 19 and 28 places fit one, two and three words.
* `LimitAssumption`: the model's table goes as far as two scales together.
* `CarryAssumption`: 2^96 does not end in the digit 5, so a mantissa that carried over 96 bits
  is no tie when it loses its last digit (2^96 ends in 6).
* `LogAssumption`, `EstimateAssumption`: 77/256 underrates the decimal logarithm of 2, which
  `Buf24::rescale` needs for its estimate of the digits to drop.
* `VanishAssumption`: two factors of one word and 20 more places round to zero.
* `UnscaleAssumption`: the passes of `unscale` divide by powers of one word.
* `FiguresAssumption`: a mantissa has at most one digit more than the largest scale.
* `ScaleBitsAssumption`: the flags tell 32 scales apart, three more than there are, and the
  table has the three powers those need. `AngleAssumption`: 2π is a decimal of the largest scale.
* `ParserAssumption`: the bytes read and the value reached when the parser changes to 128 bits are ones to which
  64 bits can add another digit. `FormatterAssumption`: the buffer has room for the longest decimal.
* `LiteralAssumption`: an i128 holds a mantissa with a digit more, an i32 exponents beyond `MAX_SCALE`.
* `RadixAssumption`: the parser is given the radices 2 to 36 but for ten, which has a parser of its own. In a radix above
  ten a coefficient that carries over to 1 and zeros has too few digits to exceed `MAX_SCALE` places, or is too large
  for a mantissa: the estimates there are at most 28, and 11^28 is above 2^96.
* `PostgresAssumption`: MAX_SCALE is a whole number of groups, a group fits a mantissa, 2^96 is less than the power
  after the last scale (10^29) and ends in a digit one above half of `Ten` (6). `MathsAssumption`: the same of 2^96, for the rounding of sums.
* `PowLimit` is any number that meets these. The power of the last group PostgreSQL sends is at most that, on either
  side of the point. The texts of the parsers are as long as that, and so are the precisions
  of the formatter: the table of powers must reach the place a text speaks of. It bounds nothing else.

A state's property is seldom inductive: it speaks of the answer, which is right because of
what held at each pass before. For each component there is an invariant that says what is in
hand at each point, one lemma per action that the action keeps it, and the theorems follow.

**`AddMul_proofs`**, the rescale and its callers.
*Rescaling* (`RescaleInv`): between passes the value in hand is the argument
divided by all but the last chunk, or, after a carry, it is 2^96 and the argument lies at
its rounding; the last remainder is below its divisor; the sticky flag is set exactly when
a digit dropped before the last pass was not zero. `RoundOnce` is the core: comparing the last
remainder with half a chunk, the flag breaking a tie, decides as comparing the
whole tail with half of the whole power does. `RoundCarried` is the case of a carry.
`RescaleCorrect` follows. For `RescaleKeeps` and `RescaleOverflowsTruly` the invariant
also says that with one digit fewer the rounded value would not fit (`KeepInv`): the estimate
drops only what `EstimateAssumption` proves has to go, and a digit more is dropped
only when the quotient did not fit.

*Multiplication* (`MulInv`): the nine partial products and the carries between them,
recognised by comparing words, add up to the product, whose words are those of the
buffer. `MulKeepsPromise` is the refinement: every step of `Mul` is the answer of
`RoundedResult` or a stutter, where the answer is right by `RescaleCorrect` and
`RescaleOverflowsTruly`, whose lemmas are used here for the calls `Mul` makes.
*Sums and differences* (`AddInv`): what is in hand times the powers still due is the
scaled operand; in the carry loop the words owe exactly the carry of the word they have reached; a
borrow is either paid or one of those that `BorrowMiscounts` describes; the buffer that is
rescaled holds the exact sum, with its top word in use unless a borrow was miscounted.

**`Division_proofs`** (`DivInv`). Between passes quotient and remainder make the dividend
scaled by the places gained (`LongDivisionExact`); once it is rounded, the quotient is
nearest to the true one, with a place more or the last that fits (`Promised`), and `unscale` removes only zeros.
`FindScaleLargest` proves that the search in the overflow table ends at
the largest power that fits. Ties are followed apart, because the finding `division_ties`
excludes some of them.

**`Remainder_proofs`** (`RemInv`). The comparison scales one mantissa in passes that may
stop early: what is left over decides the order (`ComparePart`); `HashedAlike` shows that stripping
zeros makes equal numbers alike. While the operands are scaled, what is left to divide is
congruent to the scaled dividend (`ScalingPart`). The buffer of `rem_full` keeps its value
times the power of each pass, carry by carry, and the top bit of its last word stays clear
(`GrowPart`), so the first window is less than the divisor. In `PartialDivide` each
estimate is at most a few units too large, and the sums that wrap tell when it is not any more
(`EstimateTwo`, `EstimateThree`, `AddedBack`, `AddedThree`). What a window leaves is congruent to the window, so
the words that still count keep the remainder (`ModsAgree`), which is shifted back at the end.
A path on which an estimate was cut (`cut`, the finding `remainder_cut`) is followed with no claim on its value.

**`Rounding_proofs`** (`RoundInv`). The mantissa in hand is the given one without the
digits dropped so far; the last digit dropped and what was lost before it decide
between truncation and rounding up as the whole tail does; `round_sf` multiplies back the one
multiple that follows the strategy, so that its overflow is a true one (`FollowsOnce`).

**`Conversions_proofs`**: angles, forms, ranges, the PostgreSQL form, roots and logarithms, the machines around the operations proved above.
*Angles* (`AngleInv`): `Distance` says how many calls an angle may still take, and every call
takes one off it, which bounds the recursion by six. For sin and cos the phase, with half a turn
for a change of sign, and for tan the angle whose tangent is the result, stay those of the angle asked
for up to whole turns; what they may be off by depends on the distance, since π is a unit more than
twice π/2 and halving an angle rounds it. Without that the slack would grow with every call.
*Forms* (`FormInv`): each form is one call of one function, so what is proved are the functions: that the
division of `div_by_power` word by word is the division of the mantissa (`DividesByPower`),
that bytes of any scale are a decimal rounded as `FormsAgree` says (`DeserializedRight`), and
that the tests on words and signs in `to_i64` to `to_u128` are exactly the limits of each type (`ToI64Right`, `ToRight`).
*Ranges* (`RangeInv`): the first pass raises one end as far as 96 bits let it (`LargestFitting`), and only if that falls
short does the second round the other end (`SyncBackStep`); so at most one end is rounded, and by half a unit at most.
The upper end before which there is no number has the largest mantissa, which is odd; a mantissa with zeros put behind
it is even and a rounded one is smaller, so that end was asked for as it is.
*PostgreSQL* (`PostgresInv`): while a decimal is sent, the mantissa left and the groups pushed make the padded
mantissa (`SendPart`), so that the groups on the wire say the decimal (`WirePart`). What has been read of them
(`ReadPart`) is in one of three conditions, since a group behind the point is added to the sum in two operations that may round.
It is `Exact`; or `Frozen`: the sum has all the digits that fit and one more is too many, so that what is added behind them
never changes it again (`RoundedFrozen`); or `Halved`: the places have run out at MAX_SCALE, and it is off by half
of its last place at most. That a sum with fewer places than asked for has no room for another (`RoundedTight`) needs the
last digit of 2^96: rounding up could otherwise leave room. `FractionStep` follows the three conditions
from group to group; a decimal that was sent stays `Exact` throughout (`SentExact`). The last rescaling then adds less
than the other half of a unit (`ReadClose`), or gives the decimal its scale back (`ReturnedBack`). A number is
refused when what has been read of it is half a unit above the largest mantissa, and then so is the whole (`RefusedLarge`).
The power for the groups not sent is followed in i128s (`Pow128Steps`): up to the largest exponent whose power fits, it is
the true one (`Pow128Facts`), and one that is no decimal or overflows belongs to a number that is too large or zero
(`TooLargeAbove`, `MissingLarge`). Where it overflowed nothing is claimed of what is read; the groups of `to_postgres`
never come to that (`SentUnwrapped`).
*Roots and logarithms* (`MathsInv`): two guesses that agree were one halved from its sum with a quotient, and each of the three operations
rounds by at most half a place (`RootPart`); squaring what that leaves gives the distance, without a word about the first guess or
the number of passes. `log10` takes zeros off one at a time, and what is left times the power counted is the argument (`LogPart`).

**`Texts_proofs`**: the readers and the writers of text.
*Texts* (`ParserInv`): `Understood` says what the first bytes of a text amount to: a number, its decimals, a sign,
a point. It is kept in step with the digits the parser has read, in 64 or in 128 bits, and the byte at which the number
no longer fits is the one at which `HalfUp` of the whole text is that of the part read (`RoundsHere`). The bytes behind it
are not read, so the text they are in is well formed only as far as that.
*Exponents* (`ScientificInv`): the mantissa is the number read times the powers multiplied in so far, and divided by
those that `Arithmetic` took away with zeros behind them.
*Literals* (`LiteralInv`): the same as for texts, in any radix, with an exponent and a count that wrap; `NothingWraps` says when
they have not, and from then on a wrapped one is followed with no claim on its value.
*Formatter* (`FormatterInv`): `Spells` says of a text without exponent which number it is. The digits taken are
those of the mantissa (`AreDigits`), the first of them with the point among them are the text so far (`Leading`), and the room the rest
needs is still there, which is why only a precision overflows the buffer. What was written is read by the parser, whose
properties (`ParsedRounded`, `ScientificRounded`) hold of that text too; `OriginPart` tells which part of it the number
was read from, and `ExponentRefused` shows that the plain parser, which is tried first, does not take the digits in front of the exponent for the number.

**`RadixParser_proofs`** (`RadixInv`). Until the coefficient is rounded, each of its beginnings is the value of a
beginning of the text (`IsRead`), and the point is where it was (`DotRead`). The byte behind it may round it: below ten a carry
ends in the last digit, which may then be as large as the radix (`RoundedUp`), while above ten `Carried` may leave 1 and zeros
(`CarriedOver`), of which only the places are followed. What has been multiplied in is the value of the digits before `index`;
when a product overflows, the digits left are dropped from the places, and the first of them rounds. `ValueWithin` is the core:
the text lies between the value of any of its beginnings and one more, in units of the place of that beginning, so
a number that is one of the two is within a unit (`CloseBelow`, `CloseAbove`). An overflow with digits of the integral
part left means that this part is too large (`BodyAbove`, `BodyLarge`). The proof needed an invariant stated by
beginnings of the text, which is also how `RadixDigitsKept` says it, and it showed that `RWhole` must count to the
first point, for a text with two is refused only when the second is read.

The words of buffers, the digits of remainders and the value of a text are recursive functions in the models. What
they compute is proved with induction over an interval of integers (`RangeInduction`: the least
counterexample) and with the existence of the function (`RecursionExists`), so that no
theorem relies on an induction principle the provers cannot instantiate.

Only model-checked: that calls end (`MulImplements` with its liveness part, `AddTerminates`,
`DivTerminates`, `RemTerminates`, `RescaleTerminates`, `RoundingTerminates`: liveness is
outside what the prover does), the conversion of binary
fractions (`FloatClose`), and powers (`PowersClose`).

## Plan

Next: the loops of the powers, with the error of each multiplication as the measure, and the conversion of binary
fractions, whose factors of five and two are dropped one at a time.

## Not modelled

* The series of `src/maths.rs` (`exp`, `ln`, the sums of `sin`, `cos`, `tan`, `erf`, `norm_cdf`,
  `norm_pdf`): approximations whose error at small widths says nothing of the error at 96 bits.
* `to_f32`, `to_f64`: divisions of doubles.
* The drivers of PostgreSQL and MySQL, borsh, rocket, proptest, the serde visitors other than that
  of the text form, the forwarding operators, sums and products of iterators: each calls one
  of the operations above and keeps no state.
* Padding and alignment of formatted text: `Formatter::pad_integral` of the standard library.
* The tokens of `dec!` (`macros/src/lib.rs`): glue around the parser that is modelled.
