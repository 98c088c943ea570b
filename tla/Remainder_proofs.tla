--------------------------- MODULE Remainder_proofs ---------------------------
(***************************************************************************)
(* Proofs about remainder, comparison and the division of windows: the     *)
(* theorems hold for every width of the words, every radix and every       *)
(* number of places that DecimalBase allows.                               *)
(***************************************************************************)
EXTENDS Remainder, DecimalLemmas

-----------------------------------------------------------------------------
(***************************************************************************)
(* The numbers at the larger of their scales.                              *)
(***************************************************************************)
Lacking(s, t) == IF s < t THEN t - s ELSE 0

\* The mantissa of a at the larger of the scales of a and b.
Against(a, b) == a.m * POWERS[Lacking(a.s, b.s)]

InOrder(u, v) == IF u < v THEN "Less" ELSE IF v < u THEN "Greater" ELSE "Equal"

\* The operands as cmp_internal gets them: two negatives change places.
First  == IF call.op = "cmp" /\ call.x.neg THEN call.y ELSE call.x
Second == IF call.op = "cmp" /\ call.x.neg THEN call.x ELSE call.y

Answer == IF call.op = "cmp" THEN NumberOrder(call.x, call.y) ELSE MagnitudeOrder(call.x, call.y)

\* What the routine divides by in the end, and what it owes.
Divisor   == Against(call.y, call.x)
Remaining == Against(call.x, call.y) % Divisor

LargerScale == IF call.x.s > call.y.s THEN call.x.s ELSE call.y.s

\* The digits that the dividend still lacks.
Lack == IF scale < 0 THEN -scale ELSE 0

\* The value of the words of a buffer from the i-th up, shifted down to it.
From(b) ==
    LET from[j \in 0..7] == IF j = 0 THEN 0 ELSE from[j - 1] * Base + b[7 - j]
    IN  from

Value(b) == From(b)[7]

-----------------------------------------------------------------------------
(***************************************************************************)
(* The invariant, in parts.                                                *)
(***************************************************************************)
CallOK == call \in [op : {"rem", "cmp"}, x : Decimal, y : Decimal]

\* What is untouched until it is needed.
FreshPart ==
    /\ d1 = [m |-> d1.m, s |-> d1.s]
    /\ pc \in {"cmp", "rem"} => cpc = "idle"
    /\ pc = "cmp" => call.op = "cmp"
    /\ pc \notin {"cmp", "comparing", "compared"} => call.op = "rem"
    /\ pc \in {"rem", "comparing"} /\ call.op = "rem" =>
           d1 = [m |-> call.x.m, s |-> call.x.s] /\ d2 = call.y.m
    /\ pc = "comparing" => cpc \in {"scale", "compare", "ordered"}
    /\ pc = "comparing" /\ call.op = "rem" => call.x.m # 0 /\ call.y.m # 0
    /\ pc \in {"cmp", "rem", "comparing", "compared", "divisor", "dividend", "reduce", "grow"} => ~cut
    /\ pc \in {"cmp", "rem", "comparing", "compared", "divisor", "dividend", "reduce"} =>
           buffer = [i \in 0..6 |-> 0]

\* A comparison on its way.
ComparePart ==
    pc = "comparing" =>
        /\ cpc \in {"scale", "compare"} =>
               /\ left = [m |-> left.m, s |-> First.s] /\ right = [m |-> right.m, s |-> Second.s]
               /\ call.op = "cmp" => call.x.m # 0 /\ call.y.m # 0 /\ call.x.neg = call.y.neg
        /\ cpc = "scale" =>
               \/ left.s < right.s /\ left.m * POWERS[diff] = Against(First, Second) /\ right.m = Second.m
               \/ left.s > right.s /\ left.m = First.m /\ right.m * POWERS[diff] = Against(Second, First)
        /\ cpc = "compare" => left.m = Against(First, Second) /\ right.m = Against(Second, First)
        /\ cpc = "ordered" => order = Answer

\* The passes of scaling: what is left to divide is congruent to the dividend.
ScalingPart ==
    /\ pc \in {"divisor", "dividend", "reduce", "grow", "window", "shift_back"} =>
           /\ call.x.m # 0 /\ call.y.m # 0
           /\ Divisor < Against(call.x, call.y)
    /\ pc = "divisor" =>
           /\ call.x.s > call.y.s /\ scale \in 1..MAX_SCALE
           /\ d1 = [m |-> call.x.m, s |-> call.x.s] /\ d2 * POWERS[scale] = Divisor
    /\ pc \in {"dividend", "reduce"} =>
           /\ d2 = Divisor /\ scale <= 0
           /\ (d1.m * POWERS[-scale]) % d2 = Remaining
           /\ d2 < Base \/ d2 < d1.m * POWERS[-scale]
    /\ pc = "dividend" => scale < 0 /\ call.x.s < call.y.s
    /\ pc = "reduce" => /\ scale < 0 => call.x.s < call.y.s
                        /\ Hi(d1.m) = 0 => scale = 0
    /\ pc \in {"reduce", "grow", "window", "shift_back"} => d1.s = LargerScale

\* The buffer of rem_full: it is the dividend, shifted, and has room for the digits
\* it lacks.
GrowPart ==
    pc = "grow" =>
        /\ d2 = Divisor /\ d2 >= Base
        /\ upper \in 3..6 /\ 2 * buffer[upper] < Base
        /\ (Value(buffer) * POWERS[Lack]) % (d2 * Shift) = Remaining * Shift
        /\ 2 * (Value(buffer) * POWERS[Lack]) < B3 * B3 * Base

\* The windows.
WindowPart ==
    /\ pc = "window" =>
           /\ d2 = Divisor /\ d2 >= Base
           /\ at + Width <= 6
           /\ den = d2 * Shift /\ window = WindowAt(at)
           /\ ppc \in (IF Width = 2 THEN {"divide64", "add64", "divided"} ELSE {"divide96", "add96", "divided"})
           /\ cut => Width = 3
           /\ ~cut => Divisible /\ BufferMod(at + Width) = Remaining * Shift
    /\ pc = "shift_back" =>
           /\ d2 = Divisor /\ d2 >= Base
           /\ ~cut => buffer[0] + buffer[1] * Base + (IF Width = 2 THEN 0 ELSE buffer[2] * B2) = Remaining * Shift

\* A division of a window on its way.
DividePart ==
    pc = "window" =>
        /\ ppc \in {"divide64", "divide96"} =>
               quo = 0 /\ num = window[1] + window[2] * Base /\ top = window[3]
        /\ ~cut /\ ~EstimateCut =>
               /\ ppc = "add64" => Dividend = quo * den + Rest - B2
               /\ ppc = "add96" => Dividend = quo * den + Rest - B3
               /\ ppc = "divided" => Dividend = quo * den + Rest /\ Rest < den

RemInv ==
    /\ RemTypeOK
    /\ CallOK /\ FreshPart
    /\ ComparePart /\ CompareExact
    /\ ScalingPart
    /\ GrowPart
    /\ WindowPart /\ DividePart
    /\ RemainderExact

-----------------------------------------------------------------------------
(***************************************************************************)
(* The recursive functions of the model.                                   *)
(***************************************************************************)
\* The value of the words, from the top down.
LEMMA FromSteps ==
    ASSUME NEW b \in [0..6 -> Nat]
    PROVE  /\ From(b)[0] = 0
           /\ \A j \in 1..7 : From(b)[j] = From(b)[j - 1] * Base + b[7 - j]
           /\ \A j \in 0..7 : From(b)[j] \in Nat
<1> DEFINE step == [p \in Nat \X Nat |-> p[2] * Base + (IF p[1] \in 1..7 THEN b[7 - p[1]] ELSE 0)]
<1>1. \A i \in 1..7 : 7 - i \in 0..6 /\ b[7 - i] \in Nat
  OBVIOUS
<1>2. step \in [Nat \X Nat -> Nat]
  <2>1. \A p \in Nat \X Nat : p[2] * Base + (IF p[1] \in 1..7 THEN b[7 - p[1]] ELSE 0) \in Nat
    BY <1>1, BaseType
  <2>2. QED
    BY <2>1
<1>3. PICK f : Recurs(f, 7, 0, step)
  <2> HIDE DEF step
  <2>1. QED
    BY <1>2, RecursionExists, 7 \in Nat, 0 \in Nat
<1>4. \A i \in 1..7 : f[i] = f[i - 1] * Base + b[7 - i]
  <2>1. \A i \in 1..7 : <<i, f[i - 1]>> \in Nat \X Nat
    BY <1>3 DEF Recurs
  <2>2. QED
    BY <1>3, <2>1 DEF Recurs
<1> DEFINE body(h) == [j \in 0..7 |-> IF j = 0 THEN 0 ELSE h[j - 1] * Base + b[7 - j]]
<1>5. f = body(f)
  <2>1. \A i \in 0..7 : i # 0 => i \in 1..7
    OBVIOUS
  <2>2. \A i \in 0..7 : f[i] = body(f)[i]
    BY <1>3, <1>4, <2>1 DEF Recurs
  <2>3. f \in [0..7 -> Nat]
    BY <1>3 DEF Recurs
  <2>4. QED
    BY <2>2, <2>3
<1>6. From(b) = body(From(b))
  BY <1>5 DEF From
<1> DEFINE h == From(b)
<1>7. h = body(h)
  BY <1>6
<1> HIDE DEF h
<1>8. h[0] = 0 /\ \A j \in 1..7 : h[j] = h[j - 1] * Base + b[7 - j]
  BY <1>7
<1> DEFINE T == {j \in 0..7 : h[j] \in Nat}
<1>9. \A j \in 0..7 : j \in T
  <2>1. 0 \in T
    BY <1>8
  <2>2. \A j \in 1..7 : j - 1 \in T => j \in T
    BY <1>1, <1>8, BaseType
  <2> HIDE DEF T
  <2>3. QED
    BY <2>1, <2>2, RangeInduction, 7 \in Nat
<1>10. QED
  BY <1>8, <1>9 DEF h

\* The products of a pass: each carries what exceeds a word into the next.
LEMMA ProductSteps ==
    ASSUME NEW power \in Nat, buffer \in [0..6 -> Word]
    PROVE  /\ Product(power)[0] = buffer[0] * power
           /\ \A i \in 1..6 : Product(power)[i] = buffer[i] * power + (Product(power)[i - 1] \div Base)
           /\ \A i \in 0..6 : Product(power)[i] \in Nat
<1> DEFINE step == [p \in Nat \X Nat |-> (IF p[1] \in 0..6 THEN buffer[p[1]] ELSE 0) * power + (p[2] \div Base)]
<1>1. \A i \in 0..6 : buffer[i] \in Nat /\ buffer[i] * power \in Nat
  <2>1. \A i \in 0..6 : buffer[i] \in Nat
    BY BaseType DEF Word
  <2>2. QED
    BY <2>1, \A u, v \in Nat : u * v \in Nat
<1>2. Base \in Nat \ {0}
  BY BaseType
<1>3. step \in [Nat \X Nat -> Nat]
  <2>1. ASSUME NEW p \in Nat \X Nat
        PROVE  (IF p[1] \in 0..6 THEN buffer[p[1]] ELSE 0) * power + (p[2] \div Base) \in Nat
    <3>1. p[2] \div Base \in Nat
      BY <1>2, DivMod
    <3>2. (IF p[1] \in 0..6 THEN buffer[p[1]] ELSE 0) * power \in Nat
      BY <1>1
    <3>3. QED
      BY <3>1, <3>2
  <2>2. QED
    BY <2>1
<1>4. PICK f : Recurs(f, 6, buffer[0] * power, step)
  <2>1. buffer[0] * power \in Nat
    BY <1>1
  <2> HIDE DEF step
  <2>2. QED
    BY <1>3, <2>1, RecursionExists, 6 \in Nat
<1>5. \A i \in 1..6 : f[i] = buffer[i] * power + (f[i - 1] \div Base)
  <2>1. \A i \in 1..6 : i \in 0..6 /\ <<i, f[i - 1]>> \in Nat \X Nat
    BY <1>4 DEF Recurs
  <2>2. QED
    BY <1>4, <2>1 DEF Recurs
<1> DEFINE body(h) == [i \in 0..6 |-> buffer[i] * power + (IF i = 0 THEN 0 ELSE h[i - 1] \div Base)]
<1>6. f = body(f)
  <2>1. \A i \in 0..6 : i # 0 => i \in 1..6
    OBVIOUS
  <2>2. f[0] = buffer[0] * power + 0
    BY <1>1, <1>4 DEF Recurs
  <2>3. \A i \in 0..6 : f[i] = body(f)[i]
    BY <1>5, <2>1, <2>2
  <2>4. f \in [0..6 -> Nat]
    BY <1>4, SMTT(60) DEF Recurs
  <2>5. QED
    BY <2>3, <2>4
<1>7. Product(power) = body(Product(power))
  BY <1>6 DEF Product
<1> DEFINE h == Product(power)
<1>8. h = body(h)
  BY <1>7
<1> HIDE DEF h
<1>9. /\ h[0] = buffer[0] * power
      /\ \A i \in 1..6 : h[i] = buffer[i] * power + (h[i - 1] \div Base)
  <2>1. h[0] = buffer[0] * power + 0
    BY <1>8
  <2>2. QED
    BY <1>1, <1>8, <2>1
<1> DEFINE T == {j \in 0..6 : h[j] \in Nat}
<1>10. \A j \in 0..6 : j \in T
  <2>1. 0 \in T
    BY <1>1, <1>9
  <2>2. ASSUME NEW j \in 1..6, j - 1 \in T PROVE j \in T
    <3>1. h[j - 1] \in Nat /\ j \in 0..6
      BY <2>2
    <3>2. h[j - 1] \div Base \in Nat
      BY <1>2, <3>1, DivMod
    <3>3. buffer[j] * power \in Nat
      BY <1>1, <3>1
    <3>4. h[j] \in Nat
      BY <1>9, <3>2, <3>3
    <3>5. QED
      BY <3>1, <3>4
  <2> HIDE DEF T
  <2>3. QED
    BY <2>1, <2>2, RangeInduction, 6 \in Nat
<1>11. QED
  BY <1>9, <1>10 DEF h

\* The words of a buffer modulo n, from the k-th down.
Mods(b, k, n) ==
    LET mod[i \in 0..k] == (IF i = 0 THEN b[k] ELSE mod[i - 1] * Base + b[k - i]) % n
    IN  mod

LEMMA ModsSteps ==
    ASSUME NEW b \in [0..6 -> Nat], NEW k \in 0..6, NEW n \in Nat \ {0}
    PROVE  /\ Mods(b, k, n)[0] = b[k] % n
           /\ \A i \in 1..k : Mods(b, k, n)[i] = (Mods(b, k, n)[i - 1] * Base + b[k - i]) % n
           /\ \A i \in 0..k : Mods(b, k, n)[i] \in Nat
<1> DEFINE step == [p \in Nat \X Nat |-> (p[2] * Base + (IF p[1] \in 1..k THEN b[k - p[1]] ELSE 0)) % n]
<1>1. k \in Nat /\ b[k] \in Nat /\ \A i \in 1..k : k - i \in 0..6 /\ b[k - i] \in Nat
  OBVIOUS
<1>2. Base \in Nat
  BY BaseType
<1>3. step \in [Nat \X Nat -> Nat]
  <2>1. ASSUME NEW p \in Nat \X Nat
        PROVE  (p[2] * Base + (IF p[1] \in 1..k THEN b[k - p[1]] ELSE 0)) % n \in Nat
    <3>1. p[2] * Base \in Nat
      BY <1>2, \A u, v \in Nat : u * v \in Nat
    <3>2. p[2] * Base + (IF p[1] \in 1..k THEN b[k - p[1]] ELSE 0) \in Nat
      BY <1>1, <3>1
    <3>3. QED
      BY <3>2, DivMod
  <2>2. QED
    BY <2>1
<1>4. PICK f : Recurs(f, k, b[k] % n, step)
  <2>1. b[k] % n \in Nat
    BY <1>1, DivMod
  <2> HIDE DEF step
  <2>2. QED
    BY <1>1, <1>3, <2>1, RecursionExists
<1>5. \A i \in 1..k : f[i] = (f[i - 1] * Base + b[k - i]) % n
  <2>1. \A i \in 1..k : <<i, f[i - 1]>> \in Nat \X Nat
    <3>1. k \in Nat /\ \A i \in 1..k : i \in Nat /\ i - 1 \in 0..k
      BY <1>1
    <3>2. f \in [0..k -> Nat]
      BY <1>4 DEF Recurs
    <3>3. QED
      BY <3>1, <3>2
  <2>2. QED
    BY <1>4, <2>1 DEF Recurs
<1> DEFINE body(h) == [i \in 0..k |-> (IF i = 0 THEN b[k] ELSE h[i - 1] * Base + b[k - i]) % n]
<1>6. f = body(f)
  <2>1. \A i \in 0..k : i # 0 => i \in 1..k
    OBVIOUS
  <2>2. f[0] = b[k] % n /\ f \in [0..k -> Nat]
    BY <1>4 DEF Recurs
  <2>3. \A i \in 0..k : f[i] = body(f)[i]
    BY <1>5, <2>1, <2>2
  <2>4. QED
    BY <2>2, <2>3
<1>7. Mods(b, k, n) = body(Mods(b, k, n))
  BY <1>6 DEF Mods
<1> DEFINE h == Mods(b, k, n)
<1>8. h = body(h)
  BY <1>7
<1> HIDE DEF h
<1>9. h[0] = b[k] % n /\ \A i \in 1..k : h[i] = (h[i - 1] * Base + b[k - i]) % n
  <2>1. k \in Nat /\ 0 \in 0..k /\ \A i \in 1..k : i \in 0..k /\ i # 0
    BY <1>1
  <2>2. QED
    BY <1>8, <2>1
<1> DEFINE T == {j \in 0..k : h[j] \in Nat}
<1>10. \A j \in 0..k : j \in T
  <2>1. 0 \in T
    BY <1>1, <1>9, DivMod
  <2>2. ASSUME NEW j \in 1..k, j - 1 \in T PROVE j \in T
    <3>1. h[j - 1] * Base + b[k - j] \in Nat
      BY <1>1, <1>2, <2>2
    <3>2. h[j] \in Nat
      BY <1>9, <3>1, DivMod
    <3>3. QED
      BY <3>2
  <2> HIDE DEF T
  <2>3. QED
    BY <1>1, <2>1, <2>2, RangeInduction
<1>11. QED
  BY <1>9, <1>10 DEF h

LEMMA BufferModIs ==
    ASSUME NEW k \in 0..6
    PROVE  BufferMod(k) = Mods(buffer, k, d2 * Shift)[k]
  BY DEF BufferMod, Mods

\* The scaled number modulo n is what its definition computes a digit at a time.
LEMMA ScaledModRight ==
    ASSUME NEW m \in Nat, NEW k \in 0..PowLimit, NEW n \in Nat \ {0}
    PROVE  ScaledMod(m, k, n) = (m * POWERS[k]) % n
<1> DEFINE step == [p \in Nat \X Nat |-> (p[2] * Ten) % n]
<1>1. k \in Nat /\ PowLimit \in Nat /\ Ten \in Nat /\ k <= PowLimit
  BY ScaleAssumption, BaseAssumption
<1>2. step \in [Nat \X Nat -> Nat]
  <2>1. \A p \in Nat \X Nat : (p[2] * Ten) % n \in Nat
    BY <1>1, DivMod
  <2>2. QED
    BY <2>1
<1>3. m % n \in Nat
  BY DivMod
<1>4. PICK f : Recurs(f, k, m % n, step)
  <2> HIDE DEF step
  <2>1. QED
    BY <1>1, <1>2, <1>3, RecursionExists
<1>5. \A i \in 1..k : f[i] = (f[i - 1] * Ten) % n
  <2>1. \A i \in 1..k : <<i, f[i - 1]>> \in Nat \X Nat
    <3>1. k \in Nat /\ \A i \in 1..k : i \in Nat /\ i - 1 \in 0..k
      BY <1>1
    <3>2. f \in [0..k -> Nat]
      BY <1>4 DEF Recurs
    <3>3. QED
      BY <3>1, <3>2
  <2>2. QED
    BY <1>4, <2>1 DEF Recurs
<1> DEFINE body(h) == [i \in 0..k |-> IF i = 0 THEN m % n ELSE (h[i - 1] * Ten) % n]
<1>6. f = body(f)
  <2>1. \A i \in 0..k : i # 0 => i \in 1..k
    OBVIOUS
  <2>2. f[0] = m % n /\ f \in [0..k -> Nat]
    BY <1>4 DEF Recurs
  <2>3. \A i \in 0..k : f[i] = body(f)[i]
    BY <1>5, <2>1, <2>2
  <2>4. QED
    BY <2>2, <2>3
<1> DEFINE h == CHOOSE g : g = body(g)
<1>7. ScaledMod(m, k, n) = h[k] /\ h = body(h)
  <2>1. h = body(h)
    BY <1>6
  <2>2. QED
    BY <2>1 DEF ScaledMod
<1> HIDE DEF h
<1>8. h[0] = m % n /\ \A i \in 1..k : h[i] = (h[i - 1] * Ten) % n
  BY <1>1, <1>7
<1> DEFINE T == {j \in 0..k : h[j] = (m * POWERS[j]) % n}
<1>9. \A j \in 0..k : j \in T
  <2>1. 0 \in T
    <3>1. m * POWERS[0] = m
      BY PowersAssumption
    <3>2. QED
      BY <1>1, <1>8, <3>1
  <2>2. ASSUME NEW j \in 1..k, j - 1 \in T PROVE j \in T
    <3>1. j \in 0..k /\ j - 1 \in 0..PowLimit /\ 1 \in 0..PowLimit /\ (j - 1) + 1 = j /\ j <= PowLimit
      BY <1>1
    <3>2. POWERS[j] = POWERS[j - 1] * Ten /\ POWERS[j - 1] \in Nat
      <4>1. POWERS[(j - 1) + 1] = POWERS[j - 1] * POWERS[1]
        BY <1>1, <3>1, PowersAdd
      <4>2. POWERS[1] = Ten
        BY PowersAssumption
      <4>3. QED
        BY <3>1, <4>1, <4>2, PowersType
    <3>3. h[j] = (((m * POWERS[j - 1]) % n) * Ten) % n
      BY <1>8, <2>2
    <3>4. m * POWERS[j - 1] \in Nat
      BY <3>2, \A u, v \in Nat : u * v \in Nat
    <3>5. (((m * POWERS[j - 1]) % n) * Ten) % n = ((m * POWERS[j - 1]) * Ten) % n
      BY <1>1, <3>4, ModProduct
    <3>6. (m * POWERS[j - 1]) * Ten = m * POWERS[j]
      BY <1>1, <3>2, MulAssoc
    <3>7. QED
      BY <3>1, <3>3, <3>5, <3>6
  <2> HIDE DEF T
  <2>3. QED
    BY <1>1, <2>1, <2>2, RangeInduction
<1>10. k \in T
  BY <1>1, <1>9
<1>11. QED
  BY <1>7, <1>10

-----------------------------------------------------------------------------
(***************************************************************************)
(* Comparison.                                                             *)
(***************************************************************************)
LEMMA DecimalType ==
    ASSUME NEW a \in Decimal
    PROVE  /\ a.neg \in BOOLEAN /\ a.m \in Mantissa /\ a.m \in Nat /\ a.m <= Max96 /\ Max96 \in Nat
           /\ a.s \in 0..MAX_SCALE /\ a.s \in Int /\ 0 <= a.s /\ a.s <= MAX_SCALE
  BY BaseType, ScaleAssumption DEF Decimal, Mantissa

LEMMA LackingType ==
    ASSUME NEW s \in 0..MAX_SCALE, NEW t \in 0..MAX_SCALE
    PROVE  /\ Lacking(s, t) \in 0..MAX_SCALE /\ Lacking(s, t) \in 0..PowLimit
           /\ s < t => Lacking(s, t) = t - s
           /\ t <= s => Lacking(s, t) = 0
  BY ScaleAssumption DEF Lacking

LEMMA AgainstType ==
    ASSUME NEW a \in Decimal, NEW b \in Decimal
    PROVE  /\ POWERS[Lacking(a.s, b.s)] \in Nat \ {0}
           /\ Against(a, b) \in Nat
           /\ a.m # 0 => Against(a, b) # 0
           /\ b.s <= a.s => Against(a, b) = a.m
           /\ a.s < b.s => Against(a, b) = a.m * POWERS[b.s - a.s] /\ b.s - a.s \in 1..MAX_SCALE
<1>1. a.m \in Nat /\ a.s \in 0..MAX_SCALE /\ b.s \in 0..MAX_SCALE /\ a.s \in Int /\ b.s \in Int
  BY DecimalType
<1> DEFINE p == POWERS[Lacking(a.s, b.s)]
<1>2. p \in Nat /\ p >= 1
  BY <1>1, LackingType, PowersType
<1>3. Against(a, b) = a.m * p
  BY DEF Against
<1>4. b.s <= a.s => p = 1
  BY <1>1, LackingType, PowersAssumption
<1>5. a.s < b.s => p = POWERS[b.s - a.s]
  BY <1>1, LackingType
<1> HIDE DEF p
<1>6. a.m * p \in Nat /\ (a.m # 0 => a.m * p # 0)
  BY <1>1, <1>2, \A u, v \in Nat : u * v \in Nat /\ (u # 0 /\ v # 0 => u * v # 0)
<1>7. a.m * 1 = a.m
  BY <1>1
<1>8. a.s < b.s => b.s - a.s \in 1..MAX_SCALE
  BY <1>1, ScaleAssumption
<1>9. p \in Nat \ {0}
  BY <1>2
<1>10. QED
  BY <1>3, <1>4, <1>5, <1>6, <1>7, <1>8, <1>9 DEF p

\* The order of two magnitudes is that of the mantissas at the larger scale.
LEMMA MagnitudeIs ==
    ASSUME NEW a \in Decimal, NEW b \in Decimal
    PROVE  MagnitudeOrder(a, b) = InOrder(Against(a, b), Against(b, a))
<1>1. /\ a.m \in Nat /\ a.s \in 0..MAX_SCALE /\ a.s \in Int
      /\ b.m \in Nat /\ b.s \in 0..MAX_SCALE /\ b.s \in Int
  BY DecimalType
<1>2. MAX_SCALE \in Nat /\ PowLimit \in Nat /\ MAX_SCALE <= PowLimit
  BY ScaleAssumption
<1> DEFINE below(m, n, k) == m <= (n - 1) \div POWERS[k]
<1>3. ASSUME NEW m \in Nat, NEW n \in Nat, NEW k \in 0..MAX_SCALE
      PROVE  m * POWERS[k] \in Nat /\ (below(m, n, k) <=> m * POWERS[k] < n)
  <2>1. POWERS[k] \in Nat \ {0} /\ n - 1 \in Int
    BY <1>2, PowersType
  <2>2. m * POWERS[k] \in Nat
    BY <2>1, \A u, v \in Nat : u * v \in Nat
  <2>3. m <= (n - 1) \div POWERS[k] <=> m * POWERS[k] <= n - 1
    BY <2>1, AtMostQuotient
  <2>4. QED
    BY <2>2, <2>3
<1>4. MagnitudeOrder(a, b) =
        IF (IF a.s <= b.s THEN below(a.m, b.m, b.s - a.s) ELSE ~below(b.m, a.m + 1, a.s - b.s)) THEN "Less"
        ELSE IF (IF a.s <= b.s THEN ~below(a.m, b.m + 1, b.s - a.s) ELSE below(b.m, a.m, a.s - b.s)) THEN "Greater"
        ELSE "Equal"
  BY DEF MagnitudeOrder
<1> HIDE DEF below
<1>5. a.m + 1 \in Nat /\ b.m + 1 \in Nat
  BY <1>1
<1>6. CASE a.s <= b.s
  <2>1. b.s - a.s \in 0..MAX_SCALE
    BY <1>1, <1>2, <1>6
  <2> DEFINE A == a.m * POWERS[b.s - a.s]
  <2>2. A \in Nat /\ (below(a.m, b.m, b.s - a.s) <=> A < b.m) /\ (below(a.m, b.m + 1, b.s - a.s) <=> A < b.m + 1)
    BY <1>1, <1>3, <1>5, <2>1
  <2>3. Against(b, a) = b.m
    BY <1>6, AgainstType
  <2>4. Against(a, b) = A
    <3>1. a.s = b.s => b.s - a.s = 0
      BY <1>1
    <3>2. a.s = b.s => A = a.m
      <4>1. POWERS[0] = 1 /\ a.m * 1 = a.m
        BY <1>1, PowersAssumption
      <4>2. QED
        BY <3>1, <4>1
    <3>3. a.s = b.s => Against(a, b) = a.m
      BY <1>1, AgainstType
    <3>4. a.s < b.s => Against(a, b) = A
      BY AgainstType
    <3>5. QED
      BY <1>1, <1>6, <3>2, <3>3, <3>4
  <2> HIDE DEF A
  <2>5. MagnitudeOrder(a, b) = IF A < b.m THEN "Less" ELSE IF ~(A < b.m + 1) THEN "Greater" ELSE "Equal"
    BY <1>4, <1>6, <2>2
  <2>6. QED
    BY <1>1, <2>2, <2>3, <2>4, <2>5 DEF InOrder
<1>7. CASE ~(a.s <= b.s)
  <2>1. a.s - b.s \in 0..MAX_SCALE /\ b.s < a.s /\ b.s <= a.s
    BY <1>1, <1>2, <1>7
  <2> DEFINE B == b.m * POWERS[a.s - b.s]
  <2>2. B \in Nat /\ (below(b.m, a.m, a.s - b.s) <=> B < a.m) /\ (below(b.m, a.m + 1, a.s - b.s) <=> B < a.m + 1)
    BY <1>1, <1>3, <1>5, <2>1
  <2>3. Against(a, b) = a.m /\ Against(b, a) = B
    BY <2>1, AgainstType
  <2> HIDE DEF B
  <2>4. MagnitudeOrder(a, b) = IF ~(B < a.m + 1) THEN "Less" ELSE IF B < a.m THEN "Greater" ELSE "Equal"
    BY <1>4, <1>7, <2>2
  <2>5. QED
    BY <1>1, <2>2, <2>3, <2>4 DEF InOrder
<1>8. QED
  BY <1>6, <1>7

LEMMA InOrderFacts ==
    ASSUME NEW u \in Nat, NEW v \in Nat
    PROVE  /\ InOrder(u, v) \in Orders
           /\ Reversed(InOrder(u, v)) = InOrder(v, u)
           /\ InOrder(u, v) = "Equal" <=> u = v
           /\ InOrder(u, v) = "Less" <=> u < v
           /\ InOrder(u, v) = "Greater" <=> v < u
<1>1. CASE u < v
  BY <1>1 DEF InOrder, Orders, Reversed
<1>2. CASE v < u
  BY <1>2 DEF InOrder, Orders, Reversed
<1>3. CASE u = v
  BY <1>3 DEF InOrder, Orders, Reversed
<1>4. QED
  BY <1>1, <1>2, <1>3

\* The high words and then the lower two decide as the mantissas do.
LEMMA WordsInOrder ==
    ASSUME NEW u \in Mantissa, NEW v \in Mantissa
    PROVE  (IF Hi(u) # Hi(v) THEN (IF Hi(u) < Hi(v) THEN "Less" ELSE "Greater")
            ELSE IF Low64(u) < Low64(v) THEN "Less"
            ELSE IF Low64(u) > Low64(v) THEN "Greater" ELSE "Equal") = InOrder(u, v)
<1>1. /\ Hi(u) \in Nat /\ Hi(v) \in Nat /\ u \in Nat /\ v \in Nat
      /\ Hi(u) < Hi(v) => u < v
      /\ Hi(v) < Hi(u) => v < u
      /\ Hi(u) = Hi(v) => (u <= v <=> Low64(u) <= Low64(v))
      /\ Hi(v) = Hi(u) => (v <= u <=> Low64(v) <= Low64(u))
  BY HighFirst, BaseType DEF Mantissa
<1>2. Low64(u) \in Nat /\ Low64(v) \in Nat
  BY HighLow, BaseType
<1>3. QED
  BY <1>1, <1>2 DEF InOrder

-----------------------------------------------------------------------------
(***************************************************************************)
(* What is hashed.                                                         *)
(***************************************************************************)
\* c is the mantissa m without its last k zeros, of s places at most.
StripsTo(c, k, m, s) ==
    /\ c \in Nat \ {0} /\ k \in 0..s
    /\ m = c * POWERS[k]
    /\ k = s \/ m % POWERS[k + 1] # 0

\* A number that is not zero is hashed without its zeros.
LEMMA HashedIs ==
    ASSUME NEW d \in Decimal, d.m # 0
    PROVE  \E k \in 0..d.s, c \in Nat \ {0} :
               StripsTo(c, k, d.m, d.s) /\ Hashed(d) = [neg |-> d.neg, m |-> c, s |-> d.s - k]
<1>1. d.m \in Nat \ {0} /\ d.s \in Nat /\ d.s \in 0..MAX_SCALE /\ d.s <= PowLimit /\ PowLimit \in Nat
  BY DecimalType, ScaleAssumption
<1> DEFINE Good(k) == d.m % POWERS[k] = 0 /\ (k = d.s \/ d.m % POWERS[k + 1] # 0)
<1> DEFINE T == {k \in 0..d.s : k = d.s \/ d.m % POWERS[k + 1] # 0}
<1>2. \E k \in 0..d.s : Good(k)
  <2>1. PICK k \in T : \A j \in T : k <= j
    <3>1. d.s \in T /\ T \subseteq Nat
      BY <1>1
    <3> HIDE DEF T
    <3>2. QED
      BY <3>1, LeastOf
  <2>2. k \in 0..d.s /\ (k = d.s \/ d.m % POWERS[k + 1] # 0)
    BY <2>1
  <2>3. d.m % POWERS[k] = 0
    <3>1. CASE k = 0
      <4>1. POWERS[0] = 1
        BY PowersAssumption
      <4>2. d.m % 1 = 0
        BY <1>1
      <4>3. QED
        BY <3>1, <4>1, <4>2
    <3>2. CASE k # 0
      <4>1. k - 1 \in 0..d.s /\ ~(k <= k - 1) /\ (k - 1) + 1 = k /\ k - 1 # d.s
        BY <1>1, <2>2, <3>2
      <4>2. k - 1 \notin T
        BY <2>1, <4>1
      <4>3. QED
        BY <4>1, <4>2
    <3>3. QED
      BY <3>1, <3>2
  <2>4. QED
    BY <2>2, <2>3
<1> DEFINE k == CHOOSE k \in 0..d.s : Good(k)
<1>3. k \in 0..d.s /\ Good(k)
  BY <1>2
<1>4. Hashed(d) = [neg |-> d.neg, m |-> d.m \div POWERS[k], s |-> d.s - k]
  BY <1>1 DEF Hashed, Canonical!Stripped
<1> HIDE DEF k
<1> DEFINE c == d.m \div POWERS[k]
<1>5. POWERS[k] \in Nat \ {0}
  <2>1. k \in 0..PowLimit
    BY <1>1, <1>3
  <2>2. QED
    BY <2>1, PowersType
<1>6. c \in Nat /\ d.m = c * POWERS[k] + 0
  <2>1. d.m % POWERS[k] = 0
    BY <1>3
  <2>2. QED
    BY <1>1, <1>5, <2>1, DivMod
<1> HIDE DEF c
<1>7. d.m = c * POWERS[k] /\ c # 0
  <2>1. c * POWERS[k] \in Nat
    BY <1>5, <1>6, \A u, v \in Nat : u * v \in Nat
  <2>2. d.m = c * POWERS[k]
    BY <1>6, <2>1
  <2>3. c = 0 => c * POWERS[k] = 0
    BY <1>5
  <2>4. QED
    BY <1>1, <2>2, <2>3
<1>8. StripsTo(c, k, d.m, d.s)
  BY <1>3, <1>6, <1>7 DEF StripsTo
<1>9. Hashed(d) = [neg |-> d.neg, m |-> c, s |-> d.s - k]
  BY <1>4 DEF c
<1>10. c \in Nat \ {0}
  BY <1>6, <1>7
<1>11. QED
  BY <1>3, <1>8, <1>9, <1>10

\* The mantissa at a larger scale, from what is left of it without its zeros.
LEMMA StrippedAgainst ==
    ASSUME NEW m \in Nat, NEW s \in 0..MAX_SCALE, NEW larger \in s..MAX_SCALE,
           NEW c, NEW k, StripsTo(c, k, m, s)
    PROVE  /\ s - k \in 0..s /\ s - k \in Int /\ larger - (s - k) \in 0..MAX_SCALE
           /\ m * POWERS[larger - s] = c * POWERS[larger - (s - k)]
<1>1. c \in Nat \ {0} /\ k \in 0..s /\ m = c * POWERS[k]
  BY DEF StripsTo
<1>2. MAX_SCALE \in Nat /\ PowLimit \in Nat /\ MAX_SCALE <= PowLimit /\ s \in Nat /\ larger \in Nat /\ s <= larger /\ larger <= MAX_SCALE
  BY ScaleAssumption
<1>3. s - k \in 0..s /\ s - k \in Int /\ larger - (s - k) \in 0..MAX_SCALE
  BY <1>1, <1>2
<1>4. k \in 0..PowLimit /\ larger - s \in 0..PowLimit /\ k + (larger - s) <= PowLimit /\ k + (larger - s) = larger - (s - k)
  BY <1>1, <1>2
<1>5. POWERS[larger - (s - k)] = POWERS[k] * POWERS[larger - s] /\ POWERS[k] \in Nat /\ POWERS[larger - s] \in Nat
  BY <1>4, PowersAdd, PowersType
<1>6. (c * POWERS[k]) * POWERS[larger - s] = c * (POWERS[k] * POWERS[larger - s])
  BY <1>1, <1>5, MulAssoc
<1>7. QED
  BY <1>1, <1>3, <1>5, <1>6

\* Two ways to write a number end with equally many places.
LEMMA StrippedPlaces ==
    ASSUME NEW n \in Nat, NEW c \in Nat \ {0}, NEW e \in Nat \ {0}, NEW k, NEW s \in 0..MAX_SCALE,
           StripsTo(e, k, n, s), NEW t \in 0..MAX_SCALE, NEW larger \in 0..MAX_SCALE, s <= larger, t <= larger,
           c * POWERS[larger - t] = e * POWERS[larger - (s - k)]
    PROVE  s - k <= t
<1>1. k \in 0..s /\ n = e * POWERS[k]
  BY DEF StripsTo
<1>2. MAX_SCALE \in Nat /\ PowLimit \in Nat /\ MAX_SCALE <= PowLimit /\ s \in Int /\ larger \in Int /\ larger <= MAX_SCALE
      /\ t \in Int /\ 0 <= t /\ k \in Int /\ 0 <= k /\ k <= s
  BY <1>1, ScaleAssumption
<1>3. SUFFICES ASSUME t + 1 <= s - k PROVE FALSE
  BY <1>2
<1> DEFINE b == s - k
<1>4. b \in Int /\ t + 1 <= b /\ b <= s /\ b - t \in 1..PowLimit /\ b - t \in 0..PowLimit /\ larger - b \in 0..PowLimit
      /\ (b - t) + (larger - b) = larger - t /\ larger - t <= PowLimit
  BY <1>2, <1>3
<1>5. b - t - 1 \in 0..PowLimit /\ k + 1 \in 0..PowLimit /\ (b - t - 1) + (k + 1) = (b - t) + k
      /\ (b - t) + k <= PowLimit /\ k \in 0..PowLimit /\ k # s
  BY <1>2, <1>3
<1>6. POWERS[larger - t] = POWERS[b - t] * POWERS[larger - b]
  BY <1>4, PowersAdd
<1>7. POWERS[b - t] \in Nat /\ POWERS[larger - b] \in Nat \ {0}
  BY <1>4, PowersType
<1> DEFINE u == POWERS[b - t]
<1> DEFINE v == POWERS[larger - b]
<1>8. c * (u * v) = e * v
  <2>1. POWERS[larger - (s - k)] = v
    OBVIOUS
  <2>2. QED
    BY <1>6, <2>1
<1>9. u \in Nat /\ v \in Nat \ {0}
  BY <1>7
<1>10. c * u = e
  <2> HIDE DEF u, v
  <2>1. (c * u) * v = c * (u * v) /\ c * u \in Int
    BY <1>9, MulAssoc
  <2>2. QED
    BY <1>8, <1>9, <2>1, Cancel
<1>11. n % POWERS[k + 1] = 0
  <2> DEFINE w == POWERS[b - t - 1]
  <2> DEFINE p == POWERS[k + 1]
  <2> DEFINE r == POWERS[k]
  <2>1. w \in Nat /\ p \in Nat \ {0} /\ r \in Nat
    BY <1>5, PowersType
  <2>2. u * r = w * p
    <3>1. POWERS[(b - t) + k] = POWERS[b - t] * POWERS[k]
      BY <1>4, <1>5, PowersAdd
    <3>2. POWERS[(b - t - 1) + (k + 1)] = POWERS[b - t - 1] * POWERS[k + 1]
      BY <1>5, PowersAdd
    <3>3. QED
      BY <1>5, <3>1, <3>2
  <2>3. n = (c * u) * r
    BY <1>1, <1>10
  <2> HIDE DEF u, w, p, r
  <2>4. (c * u) * r = c * (u * r) /\ c * (w * p) = (c * w) * p /\ c * w \in Nat
    BY <1>9, <2>1, MulAssoc, \A x1, y1 \in Nat : x1 * y1 \in Nat
  <2>5. n = (c * w) * p + 0
    <3>1. (c * w) * p \in Nat
      BY <2>1, <2>4, \A x1, y1 \in Nat : x1 * y1 \in Nat
    <3>2. QED
      BY <2>2, <2>3, <2>4, <3>1
  <2>6. n % p = 0
    <3> DEFINE z == c * w
    <3>1. z \in Nat /\ n = z * p + 0 /\ 0 \in Nat /\ 0 < p
      BY <2>1, <2>4, <2>5
    <3> HIDE DEF z
    <3>2. QED
      BY <2>1, <3>1, QuotientUnique
  <2>7. QED
    BY <2>6 DEF p
<1>12. QED
  BY <1>5, <1>11 DEF StripsTo

LEMMA AgainstLarger ==
    ASSUME NEW a \in Decimal, NEW b \in Decimal, NEW larger, larger = (IF a.s > b.s THEN a.s ELSE b.s)
    PROVE  /\ larger \in 0..MAX_SCALE /\ a.s <= larger /\ b.s <= larger
           /\ larger \in a.s..MAX_SCALE /\ larger \in b.s..MAX_SCALE
           /\ Against(a, b) = a.m * POWERS[larger - a.s]
           /\ Against(b, a) = b.m * POWERS[larger - b.s]
<1>1. a.s \in Int /\ b.s \in Int /\ 0 <= a.s /\ a.s <= MAX_SCALE /\ 0 <= b.s /\ b.s <= MAX_SCALE /\ MAX_SCALE \in Nat
      /\ a.m \in Nat /\ b.m \in Nat
  BY DecimalType, ScaleAssumption
<1>2. larger \in Int /\ a.s <= larger /\ b.s <= larger /\ larger <= MAX_SCALE /\ 0 <= larger
  BY <1>1
<1>3. Lacking(a.s, b.s) = larger - a.s /\ Lacking(b.s, a.s) = larger - b.s
  BY <1>1 DEF Lacking
<1>4. QED
  BY <1>1, <1>2, <1>3 DEF Against

\* Numbers hash alike just when they are equal.
LEMMA HashedAlike ==
    ASSUME NEW a \in Decimal, NEW b \in Decimal, a.m # 0, b.m # 0
    PROVE  Hashed(a) = Hashed(b) <=> a.neg = b.neg /\ Against(a, b) = Against(b, a)
<1> DEFINE larger == IF a.s > b.s THEN a.s ELSE b.s
<1>1. /\ larger \in 0..MAX_SCALE /\ a.s <= larger /\ b.s <= larger
      /\ larger \in a.s..MAX_SCALE /\ larger \in b.s..MAX_SCALE
      /\ Against(a, b) = a.m * POWERS[larger - a.s]
      /\ Against(b, a) = b.m * POWERS[larger - b.s]
  BY AgainstLarger
<1> HIDE DEF larger
<1>2. PICK k \in 0..a.s, c \in Nat \ {0} :
          StripsTo(c, k, a.m, a.s) /\ Hashed(a) = [neg |-> a.neg, m |-> c, s |-> a.s - k]
  BY HashedIs
<1>3. PICK l \in 0..b.s, e \in Nat \ {0} :
          StripsTo(e, l, b.m, b.s) /\ Hashed(b) = [neg |-> b.neg, m |-> e, s |-> b.s - l]
  BY HashedIs
<1>4. a.m \in Nat /\ a.s \in 0..MAX_SCALE /\ b.m \in Nat /\ b.s \in 0..MAX_SCALE
  BY DecimalType
<1>5. /\ a.s - k \in 0..a.s /\ a.s - k \in Int /\ larger - (a.s - k) \in 0..MAX_SCALE
      /\ a.m * POWERS[larger - a.s] = c * POWERS[larger - (a.s - k)]
  BY <1>1, <1>2, <1>4, StrippedAgainst
<1>6. /\ b.s - l \in 0..b.s /\ b.s - l \in Int /\ larger - (b.s - l) \in 0..MAX_SCALE
      /\ b.m * POWERS[larger - b.s] = e * POWERS[larger - (b.s - l)]
  BY <1>1, <1>3, <1>4, StrippedAgainst
<1>7. a.s - k \in 0..MAX_SCALE /\ b.s - l \in 0..MAX_SCALE /\ a.s - k <= larger /\ b.s - l <= larger
  BY <1>1, <1>4, <1>5, <1>6, ScaleAssumption
<1>8. Hashed(a) = Hashed(b) <=> a.neg = b.neg /\ c = e /\ a.s - k = b.s - l
  <2>1. Hashed(a) = Hashed(b) => Hashed(a).neg = Hashed(b).neg /\ Hashed(a).m = Hashed(b).m /\ Hashed(a).s = Hashed(b).s
    OBVIOUS
  <2>2. Hashed(a).neg = a.neg /\ Hashed(a).m = c /\ Hashed(a).s = a.s - k
    BY <1>2
  <2>3. Hashed(b).neg = b.neg /\ Hashed(b).m = e /\ Hashed(b).s = b.s - l
    BY <1>3
  <2>4. a.neg = b.neg /\ c = e /\ a.s - k = b.s - l => Hashed(a) = Hashed(b)
    BY <1>2, <1>3
  <2>5. QED
    BY <2>1, <2>2, <2>3, <2>4
<1>9. ASSUME Against(a, b) = Against(b, a) PROVE c = e /\ a.s - k = b.s - l
  <2>1. c * POWERS[larger - (a.s - k)] = e * POWERS[larger - (b.s - l)]
    BY <1>1, <1>5, <1>6, <1>9
  <2>2. b.s - l <= a.s - k
    <3> DEFINE t == a.s - k
    <3>1. t \in 0..MAX_SCALE /\ t <= larger /\ c * POWERS[larger - t] = e * POWERS[larger - (b.s - l)]
      BY <1>7, <2>1
    <3> HIDE DEF t
    <3>2. b.s - l <= t
      BY <1>1, <1>3, <1>4, <3>1, StrippedPlaces
    <3>3. QED
      BY <3>2 DEF t
  <2>3. a.s - k <= b.s - l
    <3> DEFINE t == b.s - l
    <3>1. t \in 0..MAX_SCALE /\ t <= larger /\ e * POWERS[larger - t] = c * POWERS[larger - (a.s - k)]
      BY <1>7, <2>1
    <3> HIDE DEF t
    <3>2. a.s - k <= t
      BY <1>1, <1>2, <1>4, <3>1, StrippedPlaces
    <3>3. QED
      BY <3>2 DEF t
  <2>4. a.s - k = b.s - l
    BY <1>5, <1>6, <2>2, <2>3
  <2>5. POWERS[larger - (a.s - k)] \in Nat \ {0}
    BY <1>5, PowersType, ScaleAssumption
  <2> DEFINE p == POWERS[larger - (a.s - k)]
  <2>6. c * p = e * p /\ p \in Nat \ {0}
    BY <2>1, <2>4, <2>5
  <2> HIDE DEF p
  <2>7. c = e
    BY <2>6, Cancel
  <2>8. QED
    BY <2>4, <2>7
<1>10. ASSUME c = e, a.s - k = b.s - l PROVE Against(a, b) = Against(b, a)
  BY <1>1, <1>5, <1>6, <1>10
<1>11. QED
  BY <1>8, <1>9, <1>10

\* The order of two numbers is Equal just when they hash alike.
LEMMA EqualHashed ==
    ASSUME NEW a \in Decimal, NEW b \in Decimal
    PROVE  /\ NumberOrder(a, b) \in Orders
           /\ (NumberOrder(a, b) = "Equal") = (Hashed(a) = Hashed(b))
<1>1. a.m \in Nat /\ b.m \in Nat /\ a.neg \in BOOLEAN /\ b.neg \in BOOLEAN
  BY DecimalType
<1> DEFINE A == Against(a, b)
<1> DEFINE B == Against(b, a)
<1>2. A \in Nat /\ B \in Nat /\ MagnitudeOrder(a, b) = InOrder(A, B)
  BY AgainstType, MagnitudeIs
<1>3. /\ InOrder(A, B) \in Orders /\ InOrder(B, A) \in Orders
      /\ Reversed(InOrder(A, B)) = InOrder(B, A)
      /\ InOrder(A, B) = "Equal" <=> A = B
      /\ InOrder(B, A) = "Equal" <=> B = A
  BY <1>2, InOrderFacts
<1> HIDE DEF A, B
<1>4. ASSUME NEW d \in Decimal, d.m = 0 PROVE Hashed(d) = ZERO
  BY <1>4 DEF Hashed, Canonical!Stripped, Canonical!ZERO, ZERO
<1>5. ASSUME NEW d \in Decimal, d.m # 0 PROVE Hashed(d) # ZERO
  <2>1. PICK k \in 0..d.s, c \in Nat \ {0} :
          StripsTo(c, k, d.m, d.s) /\ Hashed(d) = [neg |-> d.neg, m |-> c, s |-> d.s - k]
    BY <1>5, HashedIs
  <2>2. Hashed(d).m = c /\ c # 0 /\ ZERO.m = 0
    BY <2>1 DEF ZERO
  <2>3. QED
    BY <2>2
<1>6. CASE a.m = 0 \/ b.m = 0
  <2>1. SignOf(a) = SignOf(b) <=> a.m = 0 /\ b.m = 0
    BY <1>1, <1>6 DEF SignOf
  <2>2. a.m = 0 /\ b.m = 0 => SignOf(a) = 0
    BY DEF SignOf
  <2>3. NumberOrder(a, b) \in Orders /\ (NumberOrder(a, b) = "Equal" <=> a.m = 0 /\ b.m = 0)
    BY <2>1, <2>2 DEF NumberOrder, Orders
  <2>4. Hashed(a) = Hashed(b) <=> a.m = 0 /\ b.m = 0
    BY <1>4, <1>5, <1>6
  <2>5. QED
    BY <2>3, <2>4
<1>7. CASE a.m # 0 /\ b.m # 0
  <2>1. SignOf(a) = SignOf(b) <=> a.neg = b.neg
    BY <1>1, <1>7 DEF SignOf
  <2>2. SignOf(a) # 0 /\ (SignOf(a) = 1 <=> ~a.neg)
    BY <1>1, <1>7 DEF SignOf
  <2>3. NumberOrder(a, b) =
          IF a.neg # b.neg THEN (IF SignOf(a) < SignOf(b) THEN "Less" ELSE "Greater")
          ELSE IF ~a.neg THEN InOrder(A, B) ELSE InOrder(B, A)
    BY <1>2, <1>3, <2>1, <2>2 DEF NumberOrder
  <2>4. Hashed(a) = Hashed(b) <=> a.neg = b.neg /\ A = B
    BY <1>7, HashedAlike DEF A, B
  <2>5. CASE a.neg # b.neg
    BY <2>3, <2>4, <2>5 DEF Orders
  <2>6. CASE a.neg = b.neg
    <3>1. NumberOrder(a, b) = IF ~a.neg THEN InOrder(A, B) ELSE InOrder(B, A)
      BY <2>3, <2>6
    <3>2. NumberOrder(a, b) \in Orders /\ (NumberOrder(a, b) = "Equal" <=> A = B)
      BY <1>3, <3>1
    <3>3. Hashed(a) = Hashed(b) <=> A = B
      BY <2>4, <2>6
    <3>4. QED
      BY <3>2, <3>3
  <2>7. QED
    BY <2>5, <2>6
<1>8. QED
  BY <1>6, <1>7

-----------------------------------------------------------------------------
(***************************************************************************)
(* The division of a window, as facts about integers.                      *)
(***************************************************************************)
\* A number of either sign, less than n away from zero, modulo n.
LEMMA SmallMod ==
    ASSUME NEW n \in Nat \ {0}, NEW v \in Int, -n <= v, v < n
    PROVE  v % n = (IF v < 0 THEN v + n ELSE v) /\ v % n \in 0..(n - 1)
<1>1. CASE v < 0
  <2>1. v + n \in Nat /\ v = (-1) * n + (v + n) /\ -1 \in Int /\ v + n < n
    BY <1>1
  <2>2. QED
    BY <1>1, <2>1, IntQuotientUnique
<1>2. CASE ~(v < 0)
  <2>1. v \in Nat /\ v = 0 * n + v /\ 0 \in Int
    BY <1>2
  <2>2. QED
    BY <1>2, <2>1, IntQuotientUnique
<1>3. QED
  BY <1>1, <1>2

LEMMA DistributeTwo ==
    ASSUME NEW q \in Int, NEW h \in Int, NEW t \in Int, NEW c \in Int
    PROVE  /\ (q * h + t) * c = (q * h) * c + t * c
           /\ (q * h) * c = q * (h * c)
<1>1. q * h \in Int /\ (q * h) * c = q * (h * c)
  BY MulAssoc
<1>2. QED
  BY <1>1, Distribute

\* A two-word divisor and the largest quotient there is: the top words are equal.
LEMMA LargestEstimate ==
    ASSUME NEW w1 \in Word, NEW w2 \in Word, NEW h \in Word, NEW l \in Word, w2 < l,
           NEW d, d = h * Base + l,
           NEW a, a = w1 + (w2 + h * Base) * Base,
           NEW r, r = (w1 + w2 * Base - d * Base + d) % B2
    PROVE  /\ r \in 0..(B2 - 1)
           /\ r < d => a = (Base - 1) * d + r
           /\ ~(r < d) => a = (Base - 1) * d + r - B2
<1>1. /\ Base \in Nat /\ Base >= 2 /\ B2 \in Nat \ {0} /\ B2 = Base * Base
      /\ w1 \in Nat /\ w1 < Base /\ w2 \in Nat /\ h \in Nat /\ l \in Nat /\ l < Base
  BY BaseType DEF Word, B2
<1> DEFINE hB == h * Base
<1> DEFINE hBB == h * B2
<1> DEFINE wB == w2 * Base
<1> DEFINE lB == l * Base
<1>2. hB \in Nat /\ hBB \in Nat /\ wB \in Nat /\ lB \in Nat
  BY <1>1, \A u, v \in Nat : u * v \in Nat
<1>3. wB + Base <= lB
  <2>1. (w2 + 1) * Base <= l * Base /\ (w2 + 1) * Base = w2 * Base + 1 * Base
    BY <1>1, MulMono, Distribute
  <2>2. QED
    BY <1>1, <1>2, <2>1
<1>4. lB + Base <= B2
  <2>1. (l + 1) * Base <= Base * Base /\ (l + 1) * Base = l * Base + 1 * Base
    BY <1>1, MulMono, Distribute
  <2>2. QED
    BY <1>1, <1>2, <2>1
<1>5. d * Base = hBB + lB /\ (w2 + h * Base) * Base = wB + hBB
  <2>1. (h * Base) * Base = h * (Base * Base)
    BY <1>1, MulAssoc
  <2>2. (hB + l) * Base = hB * Base + l * Base
    BY <1>1, <1>2, Distribute
  <2>3. (w2 + hB) * Base = w2 * Base + hB * Base
    BY <1>1, <1>2, Distribute
  <2>4. QED
    BY <1>1, <2>1, <2>2, <2>3
<1>6. d \in Nat /\ l <= d /\ d < Base + hB
  BY <1>1, <1>2
<1>7. hB + Base <= B2
  <2>1. h + 1 <= Base
    BY <1>1 DEF Word
  <2>2. (h + 1) * Base <= Base * Base /\ (h + 1) * Base = h * Base + 1 * Base
    BY <1>1, <2>1, MulMono, Distribute
  <2>3. QED
    BY <1>1, <1>2, <2>2
<1>8. (Base - 1) * d = d * Base - d /\ d * Base \in Int
  <2>1. (Base - 1) * d = Base * d - 1 * d /\ Base * d = d * Base /\ Base * d \in Int
    BY <1>1, <1>6, Distribute, MulAssoc
  <2>2. QED
    BY <1>6, <2>1
<1> DEFINE v == w1 + wB - lB + d
<1>9. v \in Int /\ -B2 <= v /\ v < d /\ d < B2 /\ v < B2
  BY <1>1, <1>2, <1>3, <1>4, <1>6, <1>7
<1>10. w1 + w2 * Base - d * Base + d = (-h) * B2 + v
  <2>1. (-h) * B2 = -hBB
    BY <1>1
  <2>2. QED
    BY <1>1, <1>2, <1>5, <1>6, <2>1
<1>11. a = (Base - 1) * d + v
  BY <1>1, <1>2, <1>5, <1>6, <1>8
<1>12. r = v % B2
  <2> HIDE DEF v
  <2>1. -h \in Int
    BY <1>1
  <2>2. ((-h) * B2 + v) % B2 = v % B2
    BY <1>1, <1>9, <2>1, ModShift
  <2>3. QED
    BY <1>10, <2>2
<1>13. (Base - 1) * d \in Int
  BY <1>1, <1>6
<1> DEFINE y == (Base - 1) * d
<1> HIDE DEF v, y
<1>14. r = (IF v < 0 THEN v + B2 ELSE v) /\ r \in 0..(B2 - 1)
  BY <1>1, <1>9, <1>12, SmallMod
<1>15. v < 0 => v + B2 >= d
  <2>1. v < 0 => r = v + B2
    BY <1>14
  <2>2. w1 + wB - lB + B2 >= 0
    BY <1>1, <1>2, <1>4
  <2>3. QED
    BY <1>1, <1>2, <1>4, <1>6, <2>2 DEF v
<1>16. y \in Int /\ a = y + v
  BY <1>11, <1>13 DEF y
<1>17. r < d => a = y + r
  BY <1>1, <1>6, <1>9, <1>14, <1>15, <1>16
<1>18. ~(r < d) => a = y + r - B2
  BY <1>1, <1>6, <1>9, <1>14, <1>15, <1>16
<1>19. QED
  BY <1>14, <1>17, <1>18 DEF y

\* The words w2 and w3 by h are q, and leave t.
TopQuotient(w2, w3, h, q, t) == q \in Word /\ t \in Word /\ t < h /\ w2 + w3 * Base = q * h + t

\* A two-word divisor and the quotient of the top words: what is left.
LEMMA EstimateLeaves ==
    ASSUME NEW w1 \in Word, NEW w2 \in Word, NEW w3 \in Word, NEW h \in Word, NEW l \in Word,
           NEW q, NEW t, TopQuotient(w2, w3, h, q, t)
    PROVE  /\ q * l \in 0..(B2 - 1) /\ (w1 + t * Base) - q * l \in Int
           /\ -B2 <= (w1 + t * Base) - q * l
           /\ w1 + t * Base < B2 /\ w1 + t * Base \in Nat
           /\ (w1 + t * Base) - q * l < h * Base + l /\ h * Base + l \in Nat
           /\ w1 + (w2 + w3 * Base) * Base = q * (h * Base + l) + ((w1 + t * Base) - q * l)
           /\ q * (h * Base + l) \in Int
<1>1. /\ Base \in Nat /\ Base >= 2 /\ B2 \in Nat \ {0} /\ B2 = Base * Base
      /\ w1 \in Nat /\ w1 < Base /\ h \in Nat /\ h < Base
      /\ l \in Nat /\ l < Base /\ q \in Nat /\ q < Base /\ t \in Nat /\ t < h
  BY BaseType DEF Word, B2, TopQuotient
<1> DEFINE n == w2 + w3 * Base
<1> DEFINE p == q * l
<1> DEFINE tB == t * Base
<1> DEFINE hB == h * Base
<1>2. n = q * h + t
  BY DEF TopQuotient
<1> HIDE DEF n
<1>4. p \in Nat /\ tB \in Nat /\ hB \in Nat
  BY <1>1, \A u, v \in Nat : u * v \in Nat
<1>5. p < B2
  <2>1. q * l <= Base * l /\ Base * l = l * Base /\ (l + 1) * Base <= Base * Base /\ (l + 1) * Base = l * Base + 1 * Base
        /\ l * Base \in Int
    BY <1>1, MulMono, MulAssoc, Distribute
  <2>2. QED
    BY <1>1, <1>4, <2>1
<1>6. tB + Base <= hB
  <2>1. (t + 1) * Base <= h * Base /\ (t + 1) * Base = t * Base + 1 * Base
    BY <1>1, MulMono, Distribute
  <2>2. QED
    BY <1>1, <1>4, <2>1
<1>7. hB + Base <= B2
  <2>1. (h + 1) * Base <= Base * Base /\ (h + 1) * Base = h * Base + 1 * Base
    BY <1>1, MulMono, Distribute
  <2>2. QED
    BY <1>1, <1>4, <2>1
<1>8. n * Base = q * hB + tB /\ q * hB \in Int
  <2>1. (q * h + t) * Base = (q * h) * Base + t * Base /\ (q * h) * Base = q * (h * Base)
    BY <1>1, DistributeTwo
  <2>2. n * Base = (q * h + t) * Base
    BY <1>2
  <2>3. QED
    BY <1>1, <1>4, <2>1, <2>2
<1>9. q * (hB + l) = q * hB + p
  BY <1>1, <1>4
<1> DEFINE y == q * hB
<1>10. y \in Int /\ n * Base = y + tB /\ q * (hB + l) = y + p
  BY <1>8, <1>9
<1> HIDE DEF p, tB, hB, y
<1>11. /\ p \in 0..(B2 - 1) /\ (w1 + tB) - p \in Int
       /\ -B2 <= (w1 + tB) - p
       /\ w1 + tB < B2 /\ w1 + tB \in Nat
       /\ (w1 + tB) - p < hB + l /\ hB + l \in Nat
       /\ w1 + n * Base = q * (hB + l) + ((w1 + tB) - p)
       /\ q * (hB + l) \in Int
  BY <1>1, <1>4, <1>5, <1>6, <1>7, <1>10
<1>12. QED
  BY <1>11 DEF n, p, tB, hB

\* What the estimate by the top words leaves, wrapped.
Estimated(w1, n, h, l) == (w1 + (n % h) * Base - (n \div h) * l) % B2

\* A two-word divisor and the quotient of the top words.
LEMMA EstimateTwo ==
    ASSUME NEW w1 \in Word, NEW w2 \in Word, NEW w3 \in Word, NEW h \in Word, NEW l \in Word, w3 < h
    PROVE  LET n == w2 + w3 * Base
               q == n \div h
               r == Estimated(w1, n, h, l)
           IN  /\ q \in Word /\ r \in 0..(B2 - 1)
               /\ r > B2 - 1 - q * l => w1 + n * Base = q * (h * Base + l) + r - B2
               /\ ~(r > B2 - 1 - q * l) => w1 + n * Base = q * (h * Base + l) + r /\ r < h * Base + l
<1>1. /\ Base \in Nat /\ B2 \in Nat \ {0} /\ w2 \in Nat /\ w2 < Base /\ w3 \in Nat /\ h \in Nat \ {0} /\ h < Base
  BY BaseType DEF Word, B2
<1> DEFINE n == w2 + w3 * Base
<1> DEFINE q == n \div h
<1> DEFINE t == n % h
<1> DEFINE r == Estimated(w1, n, h, l)
<1>2. n \in Nat /\ n < h * Base
  <2>1. (w3 + 1) * Base <= h * Base /\ (w3 + 1) * Base = w3 * Base + 1 * Base /\ w3 * Base \in Int
    BY <1>1, MulMono, Distribute
  <2>2. w3 * Base \in Nat
    BY <1>1, \A u, v \in Nat : u * v \in Nat
  <2>3. QED
    BY <1>1, <2>1, <2>2
<1>3. q \in Word /\ t \in Word /\ t < h /\ n = q * h + t
  <2> HIDE DEF n
  <2>1. q \in Nat /\ t \in Nat /\ t < h /\ n = q * h + t
    BY <1>1, <1>2, DivMod
  <2>2. q < Base
    BY <1>1, <1>2, QuotientBound
  <2> HIDE DEF q, t
  <2>3. QED
    BY <1>1, <2>1, <2>2 DEF Word
<1>r. r = ((w1 + t * Base) - q * l) % B2
  <2>1. r = (w1 + (t * Base - q * l)) % B2
    BY DEF Estimated
  <2>2. t * Base \in Int /\ q * l \in Int /\ w1 \in Int
    <3> HIDE DEF q, t
    <3>1. QED
      BY <1>1, <1>3, BaseType DEF Word
  <2> HIDE DEF r
  <2> DEFINE x1 == t * Base
  <2> DEFINE y1 == q * l
  <2>3. x1 \in Int /\ y1 \in Int /\ w1 \in Int /\ r = (w1 + (x1 - y1)) % B2
    BY <2>1, <2>2
  <2> HIDE DEF x1, y1
  <2>4. r = ((w1 + x1) - y1) % B2
    BY <2>3
  <2>5. QED
    BY <2>4 DEF x1, y1
<1>n. n = w2 + w3 * Base
  OBVIOUS
<1> HIDE DEF n, q, t, r
<1> DEFINE p == q * l
<1> DEFINE u == w1 + t * Base
<1> DEFINE d == h * Base + l
<1> DEFINE a == w1 + n * Base
<1> DEFINE z == q * d
<1> DEFINE v == u - p
<1>4. r = v % B2
  BY <1>r
<1>5. /\ p \in 0..(B2 - 1) /\ v \in Int /\ -B2 <= v /\ u < B2 /\ u \in Nat /\ v < d /\ d \in Nat
      /\ a = z + v /\ z \in Int
  <2>1. w2 + w3 * Base = q * h + t
    BY <1>3, <1>n
  <2>2. TopQuotient(w2, w3, h, q, t)
    BY <1>3, <2>1 DEF TopQuotient
  <2>3. /\ q * l \in 0..(B2 - 1) /\ (w1 + t * Base) - q * l \in Int
        /\ -B2 <= (w1 + t * Base) - q * l
        /\ w1 + t * Base < B2 /\ w1 + t * Base \in Nat
        /\ (w1 + t * Base) - q * l < h * Base + l /\ h * Base + l \in Nat
        /\ w1 + (w2 + w3 * Base) * Base = q * (h * Base + l) + ((w1 + t * Base) - q * l)
        /\ q * (h * Base + l) \in Int
    BY <2>2, EstimateLeaves
  <2>4. a = z + v
    BY <2>3, <1>n
  <2>5. QED
    BY <2>3, <2>4
<1>6. v = u - p
  OBVIOUS
<1> HIDE DEF p, u, d, a, z, v
<1>7. v < B2 /\ (v < 0 => v + B2 > B2 - 1 - p) /\ (~(v < 0) => ~(v > B2 - 1 - p))
  BY <1>1, <1>5, <1>6
<1>8. r = (IF v < 0 THEN v + B2 ELSE v) /\ r \in 0..(B2 - 1)
  BY <1>1, <1>4, <1>5, <1>7, SmallMod
<1>9. /\ r > B2 - 1 - p => a = z + r - B2
      /\ ~(r > B2 - 1 - p) => a = z + r /\ r < d
  <2>1. CASE v < 0
    <3>1. r = v + B2 /\ r > B2 - 1 - p
      BY <1>7, <1>8, <2>1
    <3>2. a = z + r - B2
      BY <1>1, <1>5, <3>1
    <3>3. QED
      BY <3>1, <3>2
  <2>2. CASE ~(v < 0)
    <3>1. r = v /\ ~(r > B2 - 1 - p)
      BY <1>7, <1>8, <2>2
    <3>2. a = z + r /\ r < d
      BY <1>5, <3>1
    <3>3. QED
      BY <3>1, <3>2
  <2>3. QED
    BY <2>1, <2>2
<1>10. QED
  BY <1>3, <1>8, <1>9 DEF n, q, r, p, d, a, z

\* The divisor is added back until the sum wraps round, whatever it wraps at.
LEMMA AddedBack ==
    ASSUME NEW n \in Nat \ {0}, NEW d \in 1..(n - 1), NEW v \in 0..(n - 1), NEW q \in Nat, NEW a \in Nat,
           a = q * d + v - n, NEW r, r = (v + d) % n
    PROVE  /\ q >= 1 /\ r \in 0..(n - 1)
           /\ r < d <=> v + d >= n
           /\ r < d => a = (q - 1) * d + r
           /\ ~(r < d) => a = (q - 1) * d + r - n
<1>1. d \in Nat /\ v \in Nat /\ n \in Nat /\ v < n /\ d < n /\ d \in 0..(n - 1)
  OBVIOUS
<1>2. q # 0
  <2>1. q = 0 => q * d = 0
    BY <1>1
  <2>2. QED
    BY <1>1, <2>1
<1>3. q >= 1
  BY <1>2
<1>4. (q - 1) * d = q * d - d /\ q * d \in Int
  <2>1. (q - 1) * d = q * d - 1 * d /\ q * d \in Int
    BY <1>1, Distribute
  <2>2. QED
    BY <1>1, <2>1
<1>5. r = IF v + d < n THEN v + d ELSE v + d - n
  BY <1>1, WrapMod
<1> DEFINE y == q * d
<1> DEFINE z == (q - 1) * d
<1>6. y \in Int /\ z = y - d /\ a = y + v - n
  BY <1>4
<1> HIDE DEF y, z
<1>7. QED
  <2>1. /\ r \in 0..(n - 1) /\ (r < d <=> v + d >= n)
        /\ r < d => a = z + r
        /\ ~(r < d) => a = z + r - n
    BY <1>1, <1>5, <1>6
  <2>2. QED
    BY <1>3, <2>1 DEF z

\* The sums of partial_divide_96 when it estimates: the product of the quotient and
\* the low words of the divisor is p2 * B2 + p1.
Low96(v, p1)       == (v - p1) % B2
Borrows(v, p1)     == Low96(v, p1) > B2 - 1 - p1
High96(w, q, h, p2) == (w - q * h - p2) % Base
Left96(v, p1, w, q, h, p2) ==
    IF Borrows(v, p1) THEN (High96(w, q, h, p2) - 1) % Base ELSE High96(w, q, h, p2)
Fits96(v, p1, w, q, h, p2) ==
    IF Borrows(v, p1) THEN Left96(v, p1, w, q, h, p2) < Base - 1 - p2
    ELSE Left96(v, p1, w, q, h, p2) <= Base - 1 - p2

LEMMA LowPart ==
    ASSUME NEW v \in 0..(B2 - 1), NEW p1 \in 0..(B2 - 1)
    PROVE  /\ Low96(v, p1) \in 0..(B2 - 1)
           /\ Borrows(v, p1) <=> v < p1
           /\ Low96(v, p1) = v - p1 + (IF v < p1 THEN B2 ELSE 0)
<1>1. B2 \in Nat \ {0} /\ v \in Nat /\ p1 \in Nat /\ v < B2 /\ p1 < B2
  BY BaseType
<1>2. Low96(v, p1) = IF v < p1 THEN v - p1 + B2 ELSE v - p1
  BY <1>1, WrapMod DEF Low96
<1>3. CASE v < p1
  BY <1>1, <1>2, <1>3 DEF Borrows
<1>4. CASE ~(v < p1)
  BY <1>1, <1>2, <1>4 DEF Borrows
<1>5. QED
  BY <1>3, <1>4

LEMMA HighPart ==
    ASSUME NEW w \in Word, NEW w4 \in Word, NEW h \in Word, NEW q, NEW t, TopQuotient(w, w4, h, q, t),
           NEW p2 \in 0..(Base - 1)
    PROVE  High96(w, q, h, p2) = (IF t < p2 THEN t - p2 + Base ELSE t - p2) /\ High96(w, q, h, p2) \in Word
<1>1. Base \in Nat \ {0} /\ w \in Nat /\ w4 \in Nat /\ h \in Nat /\ q \in Nat /\ t \in Nat /\ t < Base /\ p2 \in Nat /\ p2 < Base
  BY BaseType DEF Word, TopQuotient
<1>2. w + w4 * Base = q * h + t
  BY DEF TopQuotient
<1> DEFINE x1 == w4 * Base
<1> DEFINE y1 == q * h
<1>3. x1 \in Int /\ y1 \in Int /\ (-w4) * Base = -x1
  BY <1>1
<1>4. High96(w, q, h, p2) = (w - y1 - p2) % Base
  BY DEF High96
<1>5. w + x1 = y1 + t
  BY <1>2
<1> DEFINE z1 == (-w4) * Base
<1>6. z1 = -x1
  BY <1>3
<1> HIDE DEF x1, y1, z1
<1>7. w - y1 - p2 = z1 + (t - p2)
  BY <1>1, <1>3, <1>5, <1>6
<1>8. (z1 + (t - p2)) % Base = (t - p2) % Base
  <2>1. -w4 \in Int /\ t - p2 \in Int
    BY <1>1
  <2>2. ((-w4) * Base + (t - p2)) % Base = (t - p2) % Base
    BY <1>1, <2>1, ModShift
  <2>3. QED
    BY <2>2 DEF z1
<1>9. (t - p2) % Base = (IF t - p2 < 0 THEN (t - p2) + Base ELSE t - p2) /\ (t - p2) % Base \in 0..(Base - 1)
  <2>1. t - p2 \in Int /\ -Base <= t - p2 /\ t - p2 < Base
    BY <1>1
  <2>2. QED
    BY <1>1, <2>1, SmallMod
<1>10. QED
  BY <1>1, <1>4, <1>7, <1>8, <1>9 DEF Word

\* What is left fits when it is not negative, and then it is the remainder.
LEMMA EstimateThree ==
    ASSUME NEW v \in 0..(B2 - 1), NEW w \in Word, NEW w4 \in Word, NEW h \in Word, NEW l \in 0..(B2 - 1),
           NEW q, NEW t, TopQuotient(w, w4, h, q, t),
           NEW p1 \in 0..(B2 - 1), NEW p2 \in 0..(Base - 2), q * l = p2 * B2 + p1
    PROVE  /\ Low96(v, p1) \in 0..(B2 - 1) /\ Left96(v, p1, w, q, h, p2) \in Word
           /\ Fits96(v, p1, w, q, h, p2) =>
                  /\ v + (w + w4 * Base) * B2 = q * (h * B2 + l) + (Low96(v, p1) + Left96(v, p1, w, q, h, p2) * B2)
                  /\ Low96(v, p1) + Left96(v, p1, w, q, h, p2) * B2 < h * B2 + l
           /\ ~Fits96(v, p1, w, q, h, p2) =>
                  v + (w + w4 * Base) * B2
                      = q * (h * B2 + l) + (Low96(v, p1) + Left96(v, p1, w, q, h, p2) * B2) - B3
<1>1. /\ Base \in Nat \ {0} /\ B2 \in Nat \ {0} /\ B3 \in Nat /\ B3 = Base * B2
      /\ q \in Nat /\ t \in Nat /\ t < h /\ h \in Nat /\ h < Base /\ l \in Nat
      /\ v \in Nat /\ v < B2 /\ p1 \in Nat /\ p1 < B2 /\ p2 \in Nat /\ p2 + 2 <= Base
  BY BaseType DEF Word, TopQuotient, B3, B2
<1> DEFINE low == Low96(v, p1)
<1> DEFINE high == High96(w, q, h, p2)
<1> DEFINE rest == Left96(v, p1, w, q, h, p2)
<1> DEFINE fits == Fits96(v, p1, w, q, h, p2)
<1> DEFINE b == IF v < p1 THEN 1 ELSE 0
<1>2. low \in 0..(B2 - 1) /\ (Borrows(v, p1) <=> v < p1) /\ low = v - p1 + (IF v < p1 THEN B2 ELSE 0)
  BY LowPart
<1>3. high = (IF t < p2 THEN t - p2 + Base ELSE t - p2) /\ high \in Word
  <2>1. p2 \in 0..(Base - 1)
    BY <1>1
  <2>2. QED
    BY <2>1, HighPart
<1>4. rest = IF v < p1 THEN (high - 1) % Base ELSE high
  BY <1>2 DEF Left96
<1>5. fits <=> IF v < p1 THEN rest < Base - 1 - p2 ELSE rest <= Base - 1 - p2
  BY <1>2 DEF Fits96
<1> HIDE DEF low, high, rest, fits
<1>6. rest = IF t < p2 + b THEN t - p2 - b + Base ELSE t - p2 - b
  <2>1. CASE v < p1
    <3>1. high \in Nat /\ high < Base /\ high - 1 \in Int /\ -Base <= high - 1 /\ high - 1 < Base
      BY <1>1, <1>3 DEF Word
    <3>2. (high - 1) % Base = IF high - 1 < 0 THEN (high - 1) + Base ELSE high - 1
      BY <1>1, <3>1, SmallMod
    <3>3. QED
      BY <1>1, <1>3, <1>4, <2>1, <3>1, <3>2
  <2>2. CASE ~(v < p1)
    BY <1>1, <1>3, <1>4, <2>2
  <2>3. QED
    BY <2>1, <2>2
<1>7. rest \in Word
  BY <1>1, <1>6 DEF Word
<1>8. fits <=> ~(t < p2 + b)
  BY <1>1, <1>5, <1>6
<1> DEFINE tB == t * B2
<1> DEFINE pB == p2 * B2
<1> DEFINE hB == h * B2
<1> DEFINE bB == b * B2
<1>9. tB \in Nat /\ pB \in Nat /\ hB \in Nat /\ bB \in Nat
  BY <1>1, \A u1, v1 \in Nat : u1 * v1 \in Nat
<1>10. low = v - p1 + bB
  BY <1>1, <1>2
<1>11. (t - p2 - b) * B2 = tB - pB - bB
  <2>1. (t - p2 - b) * B2 = (t - p2) * B2 - b * B2 /\ (t - p2) * B2 = t * B2 - p2 * B2
    <3>1. t \in Int /\ p2 \in Int /\ b \in Int /\ B2 \in Int /\ t - p2 \in Int
      BY <1>1
    <3> HIDE DEF b
    <3>2. QED
      BY <3>1, Distribute
  <2>2. QED
    BY <2>1
<1>12. rest * B2 = (IF t < p2 + b THEN (tB - pB - bB) + B3 ELSE tB - pB - bB)
  <2>1. CASE t < p2 + b
    <3> DEFINE e == t - p2 - b
    <3>1. rest = e + Base /\ e \in Int
      BY <1>1, <1>6, <2>1
    <3> HIDE DEF e
    <3>2. (e + Base) * B2 = e * B2 + Base * B2
      BY <1>1, <3>1, Distribute
    <3>3. e * B2 = tB - pB - bB
      BY <1>11 DEF e
    <3>4. QED
      BY <1>1, <2>1, <3>1, <3>2, <3>3
  <2>2. CASE ~(t < p2 + b)
    BY <1>6, <1>11, <2>2
  <2>3. QED
    BY <2>1, <2>2
<1>13. (w + w4 * Base) * B2 = q * hB + tB /\ q * hB \in Int
  <2>1. w + w4 * Base = q * h + t
    BY DEF TopQuotient
  <2>2. (q * h + t) * B2 = (q * h) * B2 + t * B2 /\ (q * h) * B2 = q * (h * B2)
    BY <1>1, DistributeTwo
  <2>3. QED
    BY <1>1, <1>9, <2>1, <2>2
<1>14. q * (hB + l) = q * hB + (pB + p1)
  <2>1. q * (hB + l) = q * hB + q * l
    BY <1>1, <1>9
  <2>2. QED
    BY <2>1
<1>15. ~(t < p2 + b) => low + (tB - pB - bB) < hB
  <2>1. (t + 1) * B2 <= h * B2 /\ (t + 1) * B2 = t * B2 + 1 * B2
    BY <1>1, MulMono, Distribute
  <2>2. QED
    BY <1>1, <1>9, <1>10, <2>1
<1> DEFINE y == q * hB
<1> DEFINE a == v + (w + w4 * Base) * B2
<1> DEFINE z == q * (hB + l)
<1> DEFINE rB == rest * B2
<1>16. y \in Int /\ a = v + (y + tB) /\ z = y + (pB + p1) /\ rB = (IF t < p2 + b THEN (tB - pB - bB) + B3 ELSE tB - pB - bB)
  BY <1>12, <1>13, <1>14
<1>17. low \in Int
  BY <1>1, <1>2
<1> HIDE DEF tB, pB, hB, bB, y, a, z, rB, b
<1>18. /\ ~(t < p2 + b) => a = z + (low + rB) /\ low + rB < hB + l
       /\ t < p2 + b => a = z + (low + rB) - B3
  BY <1>1, <1>9, <1>10, <1>15, <1>16, <1>17
<1>19. QED
  BY <1>2, <1>7, <1>8, <1>18 DEF low, rest, fits, a, z, rB, hB

\* The sums of partial_divide_96 when the divisor is added back.
Sum96(v, l)   == (v + l) % B2
Carries(v, l) == Sum96(v, l) < l
Top96(w, h)   == (w + h) % Base
Sum96Top(v, l, w, h) == IF Carries(v, l) THEN (Top96(w, h) + 1) % Base ELSE Top96(w, h)
Stops96(v, l, w, h)  == (Carries(v, l) /\ Top96(w, h) < h) \/ Sum96Top(v, l, w, h) < h

\* They stop just when the whole sum wraps round.
LEMMA AddedThree ==
    ASSUME NEW v \in 0..(B2 - 1), NEW l \in 0..(B2 - 1), NEW w \in Word, NEW h \in Word, h # 0
    PROVE  /\ Sum96(v, l) \in 0..(B2 - 1) /\ Sum96Top(v, l, w, h) \in Word
           /\ v + w * B2 \in 0..(B3 - 1) /\ h * B2 + l \in 0..(B3 - 1)
           /\ Sum96(v, l) + Sum96Top(v, l, w, h) * B2 = ((v + w * B2) + (h * B2 + l)) % B3
           /\ Stops96(v, l, w, h) <=> (v + w * B2) + (h * B2 + l) >= B3
<1>1. /\ Base \in Nat \ {0} /\ B2 \in Nat \ {0} /\ B3 \in Nat \ {0} /\ B3 = Base * B2
      /\ v \in Nat /\ v < B2 /\ l \in Nat /\ l < B2 /\ w \in Nat /\ w < Base /\ h \in Nat /\ h < Base
  BY BaseType DEF Word, B3, B2
<1> DEFINE low == Sum96(v, l)
<1> DEFINE high == Top96(w, h)
<1> DEFINE rest == Sum96Top(v, l, w, h)
<1> DEFINE c == IF v + l >= B2 THEN 1 ELSE 0
<1>2. low = (IF v + l < B2 THEN v + l ELSE v + l - B2) /\ low \in 0..(B2 - 1) /\ (Carries(v, l) <=> v + l >= B2)
  <2>1. low = IF v + l < B2 THEN v + l ELSE v + l - B2
    BY <1>1, WrapMod DEF Sum96
  <2>2. QED
    BY <1>1, <2>1 DEF Carries
<1>3. high = (IF w + h < Base THEN w + h ELSE w + h - Base) /\ high \in Word
  <2>1. w \in 0..(Base - 1) /\ h \in 0..(Base - 1)
    BY DEF Word
  <2>2. high = (IF w + h < Base THEN w + h ELSE w + h - Base)
    BY <1>1, <2>1, WrapMod DEF Top96
  <2>3. QED
    BY <1>1, <2>2 DEF Word
<1>4. rest = IF v + l >= B2 THEN (high + 1) % Base ELSE high
  BY <1>2 DEF Sum96Top
<1>5. Stops96(v, l, w, h) <=> (v + l >= B2 /\ high < h) \/ rest < h
  BY <1>2 DEF Stops96
<1> HIDE DEF low, high, rest
<1>6. rest = IF w + h + c < Base THEN w + h + c ELSE w + h + c - Base
  <2>1. CASE v + l >= B2
    <3>1. high \in Nat /\ high < Base
      BY <1>1, <1>3 DEF Word
    <3>2. CASE high + 1 < Base
      <4>1. (high + 1) % Base = high + 1
        <5>1. high + 1 = 0 * Base + (high + 1) /\ high + 1 \in Nat
          BY <1>1, <3>1
        <5>2. QED
          BY <1>1, <3>2, <5>1, QuotientUnique
      <4>2. QED
        BY <1>1, <1>3, <1>4, <2>1, <3>1, <3>2, <4>1
    <3>3. CASE ~(high + 1 < Base)
      <4>1. high + 1 = 1 * Base + 0
        BY <1>1, <3>1, <3>3
      <4>2. (high + 1) % Base = 0
        BY <1>1, <3>1, <4>1, QuotientUnique
      <4>3. QED
        BY <1>1, <1>3, <1>4, <2>1, <3>1, <3>3, <4>2
    <3>4. QED
      BY <3>2, <3>3
  <2>2. CASE ~(v + l >= B2)
    BY <1>1, <1>3, <1>4, <2>2
  <2>3. QED
    BY <2>1, <2>2
<1>7. rest \in Word
  BY <1>1, <1>6 DEF Word
<1>8. (v + l >= B2 /\ high < h) \/ rest < h <=> w + h + c >= Base
  <2>1. CASE v + l >= B2
    <3>1. c = 1
      BY <2>1
    <3> HIDE DEF c
    <3>2. CASE w + h >= Base
      <4>1. high = w + h - Base /\ high < h /\ w + h + c >= Base
        BY <1>1, <1>3, <3>1, <3>2
      <4>2. QED
        BY <2>1, <4>1
    <3>3. CASE w + h + 1 = Base
      <4>1. rest = 0 /\ w + h + c >= Base
        BY <1>1, <1>6, <3>1, <3>3
      <4>2. rest < h
        BY <1>1, <4>1
      <4>3. QED
        BY <4>1, <4>2
    <3>4. CASE w + h + 1 < Base
      <4>1. high = w + h /\ rest = w + h + 1 /\ ~(w + h + c >= Base) /\ ~(high < h) /\ ~(rest < h)
        BY <1>1, <1>3, <1>6, <3>1, <3>4
      <4>2. QED
        BY <4>1
    <3>5. QED
      BY <1>1, <3>2, <3>3, <3>4
  <2>2. CASE ~(v + l >= B2)
    BY <1>1, <1>3, <1>6, <2>2
  <2>3. QED
    BY <2>1, <2>2
<1> DEFINE wB == w * B2
<1> DEFINE hB == h * B2
<1>9. wB \in Nat /\ hB \in Nat /\ wB + B2 <= B3 /\ hB + B2 <= B3
  <2>1. wB \in Nat /\ hB \in Nat
    BY <1>1, \A u1, v1 \in Nat : u1 * v1 \in Nat
  <2>2. (w + 1) * B2 <= Base * B2 /\ (w + 1) * B2 = w * B2 + 1 * B2
    BY <1>1, MulMono, Distribute
  <2>3. (h + 1) * B2 <= Base * B2 /\ (h + 1) * B2 = h * B2 + 1 * B2
    BY <1>1, MulMono, Distribute
  <2>4. QED
    BY <1>1, <2>1, <2>2, <2>3
<1>10. (w + h + c) * B2 = wB + hB + c * B2
  <2>1. w \in Int /\ h \in Int /\ c \in Int /\ B2 \in Int /\ w + h \in Int
    BY <1>1
  <2> HIDE DEF c
  <2>2. (w + h + c) * B2 = (w + h) * B2 + c * B2 /\ (w + h) * B2 = w * B2 + h * B2
    BY <2>1, Distribute
  <2>3. QED
    BY <2>2
<1>11. low + c * B2 = v + l
  BY <1>1, <1>2
<1>12. w + h + c >= Base => (w + h + c - Base) * B2 = (w + h + c) * B2 - B3
  <2> DEFINE e == w + h + c
  <2>1. e \in Int
    BY <1>1
  <2> HIDE DEF e
  <2>2. (e - Base) * B2 = e * B2 - Base * B2
    BY <1>1, <2>1, Distribute
  <2>3. QED
    BY <1>1, <2>2 DEF e
<1> DEFINE cB == c * B2
<1> DEFINE rB == rest * B2
<1>13. cB \in Nat
  BY <1>1
<1>14. rB = IF w + h + c >= Base THEN (wB + hB + cB) - B3 ELSE wB + hB + cB
  BY <1>1, <1>6, <1>10, <1>12
<1>15. w + h + c >= Base <=> v + wB + (hB + l) >= B3
  <2>1. w + h + c \in Nat
    BY <1>1
  <2>2. w + h + c >= Base => B3 <= (w + h + c) * B2
    <3> DEFINE e == w + h + c
    <3>1. e \in Int
      BY <1>1
    <3> HIDE DEF e
    <3>2. Base <= e => Base * B2 <= e * B2
      BY <1>1, <3>1, MulMono
    <3>3. QED
      BY <1>1, <3>1, <3>2 DEF e
  <2>3. w + h + c < Base => (w + h + c) * B2 <= B3 - B2
    <3> DEFINE e == w + h + c
    <3>1. e \in Int /\ e + 1 \in Int
      BY <1>1
    <3> HIDE DEF e
    <3>2. e + 1 <= Base => (e + 1) * B2 <= Base * B2
      BY <1>1, <3>1, MulMono
    <3>3. (e + 1) * B2 = e * B2 + 1 * B2 /\ e * B2 \in Int
      BY <1>1, <3>1, Distribute
    <3>4. QED
      BY <1>1, <3>1, <3>2, <3>3 DEF e
  <2> DEFINE x1 == (w + h + c) * B2
  <2>4. x1 = wB + hB + cB /\ low + cB = v + l
    BY <1>10, <1>11
  <2>5. w + h + c >= Base => B3 <= x1
    BY <2>2
  <2>6. w + h + c < Base => x1 <= B3 - B2
    BY <2>3
  <2> HIDE DEF x1, cB, wB, hB, c
  <2>7. w + h + c >= Base => v + wB + (hB + l) >= B3
    BY <1>1, <1>2, <1>9, <1>13, <2>4, <2>5
  <2>8. w + h + c < Base => v + wB + (hB + l) < B3
    BY <1>1, <1>2, <1>9, <1>13, <2>4, <2>6
  <2>9. QED
    BY <1>1, <1>9, <2>1, <2>7, <2>8
<1>16. v + wB \in 0..(B3 - 1) /\ hB + l \in 0..(B3 - 1)
  BY <1>1, <1>9
<1>17. low + cB = v + l
  BY <1>11
<1> DEFINE s1 == (v + wB) + (hB + l)
<1>18. s1 = v + wB + (hB + l) /\ s1 \in Nat
  BY <1>1, <1>9
<1> HIDE DEF wB, hB, cB, rB, c
<1>19. s1 % B3 = IF s1 < B3 THEN s1 ELSE s1 - B3
  <2> DEFINE e1 == v + wB
  <2> DEFINE e2 == hB + l
  <2>1. e1 \in 0..(B3 - 1) /\ e2 \in 0..(B3 - 1) /\ s1 = e1 + e2
    BY <1>16
  <2> HIDE DEF e1, e2, s1
  <2>2. (e1 + e2) % B3 = IF e1 + e2 < B3 THEN e1 + e2 ELSE e1 + e2 - B3
    BY <1>1, <2>1, WrapMod
  <2>3. QED
    BY <1>1, <2>1, <2>2
<1>20. low + rB = s1 % B3
  BY <1>1, <1>2, <1>9, <1>13, <1>14, <1>15, <1>17, <1>18, <1>19
<1>21. /\ low \in 0..(B2 - 1) /\ rest \in Word
       /\ v + wB \in 0..(B3 - 1) /\ hB + l \in 0..(B3 - 1)
       /\ low + rB = ((v + wB) + (hB + l)) % B3
       /\ Stops96(v, l, w, h) <=> (v + wB) + (hB + l) >= B3
  BY <1>2, <1>5, <1>7, <1>8, <1>15, <1>16, <1>18, <1>20
<1>22. QED
  BY <1>21 DEF low, rest, wB, hB, rB

-----------------------------------------------------------------------------
(***************************************************************************)
(* The shifted divisor and its windows.                                    *)
(***************************************************************************)
\* A divisor of two or three words fills them when it is shifted.
LEMMA ShiftIs ==
    ASSUME d2 \in Mantissa, d2 >= Base
    PROVE  /\ d2 \in Nat \ {0} /\ Width \in {2, 3}
           /\ Shift \in Nat \ {0} /\ Shift < Base /\ 2 * Shift <= Base
           /\ d2 * Shift \in Nat \ {0} /\ d2 * Shift < B3 /\ d2 * Shift \in Mantissa
           /\ Width = 2 => d2 < B2 /\ d2 * Shift < B2 /\ B2 <= 2 * (d2 * Shift)
           /\ Width = 3 => B3 <= 2 * (d2 * Shift)
<1>1. /\ Base \in Nat /\ Base >= 2 /\ B2 \in Nat /\ B3 \in Nat /\ B2 = Base * Base /\ B3 = B2 * Base
      /\ B2 < B3 /\ Max96 = B3 - 1 /\ d2 \in Nat \ {0} /\ d2 < B3
  BY BaseType DEF Mantissa, B2, B3
<1>2. CASE d2 < B2
  <2>1. Width = 2 /\ Shift = TopShift(d2, B2)
    BY <1>2 DEF Width, Shift
  <2>2. Base * Base <= d2 * Base
    BY <1>1, MulMono
  <2>3. /\ TopShift(d2, B2) \in Nat \ {0} /\ TopShift(d2, B2) < Base /\ 2 * TopShift(d2, B2) <= Base
        /\ d2 * TopShift(d2, B2) \in Nat \ {0}
        /\ d2 * TopShift(d2, B2) < B2 /\ B2 <= 2 * (d2 * TopShift(d2, B2))
    <3>1. d2 \in Nat \ {0} /\ B2 \in Nat /\ d2 < B2 /\ B2 <= d2 * Base
      BY <1>1, <1>2, <2>2
    <3>2. QED
      BY <3>1, TopShiftFacts
  <2> DEFINE n == d2 * Shift
  <2>4. /\ Shift \in Nat \ {0} /\ Shift < Base /\ 2 * Shift <= Base
        /\ n \in Nat \ {0} /\ n < B2 /\ B2 <= 2 * n
    BY <2>1, <2>3
  <2> HIDE DEF n
  <2>5. n < B3 /\ n \in Mantissa
    BY <1>1, <2>4 DEF Mantissa
  <2>6. QED
    BY <1>1, <1>2, <2>1, <2>4, <2>5 DEF n
<1>3. CASE ~(d2 < B2)
  <2>1. Width = 3 /\ Shift = TopShift(d2, B3)
    BY <1>3 DEF Width, Shift
  <2>2. B2 * Base <= d2 * Base
    BY <1>1, <1>3, MulMono
  <2>3. /\ TopShift(d2, B3) \in Nat \ {0} /\ TopShift(d2, B3) < Base /\ 2 * TopShift(d2, B3) <= Base
        /\ d2 * TopShift(d2, B3) \in Nat \ {0}
        /\ d2 * TopShift(d2, B3) < B3 /\ B3 <= 2 * (d2 * TopShift(d2, B3))
    <3>1. d2 \in Nat \ {0} /\ B3 \in Nat /\ d2 < B3 /\ B3 <= d2 * Base
      BY <1>1, <1>3, <2>2
    <3>2. QED
      BY <3>1, TopShiftFacts
  <2> DEFINE n == d2 * Shift
  <2>4. /\ Shift \in Nat \ {0} /\ Shift < Base /\ 2 * Shift <= Base
        /\ n \in Nat \ {0} /\ n < B3 /\ B3 <= 2 * n
    BY <2>1, <2>3
  <2> HIDE DEF n
  <2>5. n \in Mantissa
    BY <1>1, <2>4 DEF Mantissa
  <2>6. QED
    BY <1>1, <2>1, <2>4, <2>5 DEF n
<1>4. QED
  BY <1>2, <1>3

\* The words of the shifted divisor; the top one is not zero.
LEMMA TwoWords ==
    ASSUME NEW d \in Nat, d < B2, B2 <= 2 * d
    PROVE  /\ Mid(d) \in Word /\ Lo(d) \in Word /\ Mid(d) # 0 /\ d = Mid(d) * Base + Lo(d) /\ d # 0
<1>1. Base \in Nat \ {0} /\ Base >= 2 /\ B2 \in Nat /\ B2 = Base * Base /\ B2 < B3 /\ B3 \in Nat /\ Max96 = B3 - 1
  BY BaseType DEF B2
<1>2. d \div Base \in Nat /\ d % Base \in Nat /\ d % Base < Base /\ d = (d \div Base) * Base + (d % Base)
  BY <1>1, DivMod
<1>3. d \div Base < Base
  BY <1>1, QuotientBound
<1> DEFINE h == d \div Base
<1> DEFINE l == d % Base
<1>4. h \in Nat /\ l \in Nat /\ l < Base /\ h < Base /\ d = h * Base + l
  BY <1>2, <1>3
<1>5. Lo(d) = l
  BY DEF Lo
<1>6. Mid(d) = h % Base
  BY DEF Mid
<1> HIDE DEF h, l
<1>7. h % Base = h
  <2>1. h = 0 * Base + h
    BY <1>1, <1>4
  <2>2. QED
    BY <1>1, <1>4, <2>1, QuotientUnique
<1>8. h # 0
  <2>1. SUFFICES ASSUME h = 0 PROVE FALSE
    OBVIOUS
  <2>2. d = l
    BY <1>1, <1>4, <2>1
  <2>3. 2 * Base <= Base * Base
    BY <1>1, MulMono
  <2>4. QED
    BY <1>1, <1>4, <2>2, <2>3
<1>9. d # 0
  BY <1>1, BaseType
<1>10. QED
  BY <1>1, <1>4, <1>5, <1>6, <1>7, <1>8, <1>9 DEF Word

LEMMA ThreeWords ==
    ASSUME NEW d \in Nat, d < B3, B3 <= 2 * d
    PROVE  /\ Hi(d) \in Word /\ Low64(d) \in 0..(B2 - 1) /\ Hi(d) # 0 /\ d = Hi(d) * B2 + Low64(d) /\ d # 0
<1>1. Base \in Nat /\ Base >= 2 /\ B2 \in Nat /\ B2 >= 4 /\ B3 \in Nat /\ B3 = Base * B2 /\ Max96 = B3 - 1
  BY BaseType DEF B2, B3
<1>2. d \in Mantissa
  BY <1>1 DEF Mantissa
<1>3. Hi(d) \in 0..(Base - 1) /\ Low64(d) \in 0..(B2 - 1) /\ d = Hi(d) * B2 + Low64(d)
  BY <1>2, HighLow
<1>4. Hi(d) # 0
  <2>1. SUFFICES ASSUME Hi(d) = 0 PROVE FALSE
    OBVIOUS
  <2>2. d = Low64(d)
    BY <1>1, <1>3, <2>1
  <2>3. 2 * B2 <= Base * B2
    BY <1>1, MulMono
  <2>4. QED
    BY <1>1, <1>3, <2>2, <2>3
<1>5. d # 0
  BY <1>1
<1>6. QED
  BY <1>3, <1>4, <1>5 DEF Word

\* A window is made of words of the buffer.
LEMMA WindowWords ==
    ASSUME buffer \in [0..6 -> Word], Width \in {2, 3}, NEW i \in Nat, i + Width <= 6
    PROVE  /\ Len(WindowAt(i)) = Width + 1
           /\ \A j \in 1..(Width + 1) : WindowAt(i)[j] = buffer[i + j - 1] /\ WindowAt(i)[j] \in Word
<1>1. Width \in Nat
  OBVIOUS
<1>2. \A j \in 1..(Width + 1) : i + j - 1 \in 0..6
  BY <1>1
<1>3. \A j \in 1..(Width + 1) : WindowAt(i)[j] = buffer[i + j - 1] /\ WindowAt(i)[j] \in Word
  BY <1>2 DEF WindowAt
<1>4. Len(WindowAt(i)) = Width + 1
  <2>1. WindowAt(i) \in [1..(Width + 1) -> Word]
    BY <1>2 DEF WindowAt
  <2>2. WindowAt(i) \in Seq(Word)
    BY <1>1, <2>1
  <2>3. DOMAIN WindowAt(i) = 1..(Width + 1)
    BY <2>1
  <2> DEFINE w == WindowAt(i)
  <2>4. w \in Seq(Word) /\ DOMAIN w = 1..(Width + 1) /\ Width + 1 \in Nat
    BY <1>1, <2>2, <2>3
  <2> HIDE DEF w
  <2>5. Len(w) = Width + 1
    BY <2>4
  <2>6. QED
    BY <2>5 DEF w
<1>5. QED
  BY <1>3, <1>4

-----------------------------------------------------------------------------
(***************************************************************************)
(* The division of a window, step by step.                                 *)
(***************************************************************************)
\* What a step of the division leaves.
Advanced ==
    /\ window' = window /\ den' = den
    /\ quo' \in Word /\ num' \in 0..(B2 - 1) /\ top' \in Word
    /\ ppc' \in (IF Width = 2 THEN {"add64", "divided"} ELSE {"add96", "divided"})
    /\ ~cut /\ ~EstimateCut =>
           /\ ppc' = "add64" => Dividend = quo' * den + num' - B2
           /\ ppc' = "add96" => Dividend = quo' * den + (num' + top' * B2) - B3
           /\ ppc' = "divided" =>
                  LET rest == IF Width = 2 THEN num' ELSE num' + top' * B2
                  IN  Dividend = quo' * den + rest /\ rest < den

\* The words of a window and of the divisor.
LEMMA WindowFacts ==
    ASSUME RemInv, pc = "window"
    PROVE  /\ Width \in {2, 3} /\ Len(window) = Width + 1
           /\ window[1] \in Word /\ window[2] \in Word /\ window[3] \in Word
           /\ Width = 3 => window[4] \in Word
           /\ quo \in Word /\ num \in 0..(B2 - 1) /\ top \in Word
           /\ den \in Nat \ {0}
           /\ Width = 2 => den < B2 /\ B2 <= 2 * den
           /\ Width = 3 => den < B3 /\ B3 <= 2 * den
<1>1. /\ buffer \in [0..6 -> Word] /\ at \in Nat /\ d2 \in Mantissa /\ d2 >= Base
      /\ at + Width <= 6 /\ den = d2 * Shift /\ window = WindowAt(at)
      /\ quo \in Word /\ num \in 0..(B2 - 1) /\ top \in Word
  BY DEF RemInv, RemTypeOK, WindowPart
<1>2. /\ Width \in {2, 3} /\ den \in Nat \ {0} /\ den < B3
      /\ Width = 2 => den < B2 /\ B2 <= 2 * den
      /\ Width = 3 => B3 <= 2 * den
  BY <1>1, ShiftIs
<1>3. Len(window) = Width + 1 /\ \A j \in 1..(Width + 1) : window[j] \in Word
  BY <1>1, <1>2, WindowWords
<1>4. 1 \in 1..(Width + 1) /\ 2 \in 1..(Width + 1) /\ 3 \in 1..(Width + 1) /\ (Width = 3 => 4 \in 1..(Width + 1))
  BY <1>2
<1>5. QED
  BY <1>1, <1>2, <1>3, <1>4

\* A window of three words and its divisor.
LEMMA NarrowFacts ==
    ASSUME RemInv, pc = "window", Width = 2
    PROVE  /\ Len(window) = 3 /\ ~cut /\ ~EstimateCut
           /\ ppc \in {"divide64", "add64", "divided"}
           /\ Mid(den) \in Word /\ Lo(den) \in Word /\ Mid(den) # 0 /\ den = Mid(den) * Base + Lo(den)
           /\ DivisorHi = Mid(den)
           /\ High64 = window[2] + window[3] * Base /\ High64 < den
           /\ Dividend = window[1] + (window[2] + window[3] * Base) * Base
           /\ Rest = num
<1>1. /\ Len(window) = 3
      /\ window[1] \in Word /\ window[2] \in Word /\ window[3] \in Word
      /\ den \in Nat /\ den < B2 /\ B2 <= 2 * den
  BY WindowFacts
<1>2. Mid(den) \in Word /\ Lo(den) \in Word /\ Mid(den) # 0 /\ den = Mid(den) * Base + Lo(den)
  BY <1>1, TwoWords
<1>3. ~cut /\ Divisible /\ ppc \in {"divide64", "add64", "divided"}
  BY DEF RemInv, WindowPart
<1>4. /\ DivisorHi = Mid(den) /\ High64 = window[2] + window[3] * Base
      /\ Dividend = window[1] + High64 * Base /\ Rest = num /\ ~EstimateCut
  <2>1. Len(window) - 1 = 2 /\ ~(Len(window) = 4)
    BY <1>1
  <2>2. QED
    BY <1>1, <2>1 DEF DivisorHi, High64, Dividend, Rest, EstimateCut
<1>5. High64 < den
  <2> DEFINE n == window[2] + window[3] * Base
  <2>1. n \in Nat /\ window[1] \in Nat /\ window[1] < Base /\ Base \in Nat \ {0}
    BY <1>1, BaseType DEF Word
  <2>2. Dividend = n * Base + window[1] /\ Dividend \in Nat
    <3>1. Dividend = window[1] + n * Base
      BY <1>4
    <3> HIDE DEF n
    <3>2. QED
      BY <2>1, <3>1
  <2> HIDE DEF n
  <2>3. Dividend \div Base = n
    BY <2>1, <2>2, QuotientUnique
  <2>4. QED
    BY <1>3, <1>4, <2>3 DEF Divisible, n
<1>6. QED
  BY <1>1, <1>2, <1>3, <1>4, <1>5

\* A window of four words and its divisor.
LEMMA WideFacts ==
    ASSUME RemInv, pc = "window", Width = 3
    PROVE  /\ Len(window) = 4
           /\ ppc \in {"divide96", "add96", "divided"}
           /\ Hi(den) \in Word /\ Low64(den) \in 0..(B2 - 1) /\ Hi(den) # 0 /\ den = Hi(den) * B2 + Low64(den)
           /\ DivisorHi = Hi(den)
           /\ High64 = window[3] + window[4] * Base /\ High64 \in Nat
           /\ Dividend = (window[1] + window[2] * Base) + (window[3] + window[4] * Base) * B2
           /\ Rest = num + top * B2
           /\ EstimateCut <=> window[4] >= Hi(den)
<1>1. /\ Len(window) = 4
      /\ window[1] \in Word /\ window[2] \in Word /\ window[3] \in Word /\ window[4] \in Word
      /\ den \in Nat /\ den < B3 /\ B3 <= 2 * den
  BY WindowFacts
<1>2. Hi(den) \in Word /\ Low64(den) \in 0..(B2 - 1) /\ Hi(den) # 0 /\ den = Hi(den) * B2 + Low64(den)
  BY <1>1, ThreeWords
<1>3. ppc \in {"divide96", "add96", "divided"}
  BY DEF RemInv, WindowPart
<1>4. /\ DivisorHi = Hi(den) /\ High64 = window[3] + window[4] * Base
      /\ Dividend = window[1] + window[2] * Base + High64 * B2 /\ Rest = num + top * B2
      /\ EstimateCut <=> window[4] >= Hi(den)
  <2>1. Len(window) - 1 = 3 /\ ~(Len(window) = 3)
    BY <1>1
  <2>2. QED
    BY <1>1, <2>1 DEF DivisorHi, High64, Dividend, Rest, EstimateCut
<1>5. High64 \in Nat
  BY <1>1, <1>4, BaseType DEF Word
<1>6. QED
  BY <1>1, <1>2, <1>3, <1>4, <1>5

LEMMA DivideLowAdvances ==
    ASSUME RemInv, pc = "window", DivideLow
    PROVE  Advanced
<1>1. /\ ppc = "divide64" /\ window[3] = 0
      /\ quo' = num \div den /\ num' = num % den
      /\ ppc' = "divided" /\ UNCHANGED <<window, den, top>>
  BY DEF DivideLow
<1>2. Width \in {2, 3} /\ Width = 2
  BY <1>1, WindowFacts, WideFacts
<1>3. /\ den \in Nat \ {0} /\ B2 <= 2 * den /\ num \in 0..(B2 - 1) /\ top \in Word
      /\ window[1] \in Word /\ window[2] \in Word
  BY <1>2, WindowFacts
<1>4. Dividend = num
  <2>1. num = window[1] + window[2] * Base
    BY <1>1 DEF RemInv, DividePart
  <2>2. Dividend = window[1] + (window[2] + 0 * Base) * Base
    BY <1>1, <1>2, NarrowFacts
  <2>3. QED
    BY <1>3, <2>1, <2>2, BaseType DEF Word
<1>5. /\ num \div den \in Nat /\ num % den \in Nat /\ num % den < den
      /\ num = (num \div den) * den + (num % den)
  BY <1>3, BaseType, DivMod
<1>6. num \div den < 2
  BY <1>3, BaseType, QuotientBound
<1>7. quo' \in Word /\ num' \in 0..(B2 - 1)
  <2>1. num % den < B2
    <3>1. num % den <= num
      <4>1. 0 <= (num \div den) * den
        BY <1>3, <1>5, MulMono
      <4> HIDE DEF B2
      <4>2. QED
        BY <1>3, <1>5, <4>1, BaseType
    <3>2. QED
      BY <1>3, <1>5, <3>1, BaseType
  <2>2. QED
    BY <1>1, <1>5, <1>6, <2>1, BaseType DEF Word
<1>8. QED
  BY <1>1, <1>2, <1>3, <1>4, <1>5, <1>7 DEF Advanced

\* Equal top words: the largest quotient, or one more than it.
LEMMA DivideLargestAdvances ==
    ASSUME RemInv, pc = "window", DivideLargest
    PROVE  Advanced
<1>1. /\ ppc = "divide64" /\ window[3] >= DivisorHi
      /\ quo' = Base - 1 /\ num' = (num - den * Base + den) % B2
      /\ ppc' = (IF num' < den THEN "divided" ELSE "add64") /\ UNCHANGED <<window, den, top>>
  BY DEF DivideLargest
<1>2. Width \in {2, 3} /\ Width = 2
  BY <1>1, WindowFacts, WideFacts
<1>3. /\ den \in Nat \ {0} /\ top \in Word
      /\ window[1] \in Word /\ window[2] \in Word /\ window[3] \in Word
  BY <1>2, WindowFacts
<1> DEFINE h == Mid(den)
<1> DEFINE l == Lo(den)
<1>4. /\ h \in Word /\ l \in Word /\ den = h * Base + l /\ window[3] >= h
      /\ window[2] + window[3] * Base < den
      /\ Dividend = window[1] + (window[2] + window[3] * Base) * Base
  BY <1>1, <1>2, NarrowFacts
<1> HIDE DEF h, l
<1>5. window[3] = h /\ window[2] < l
  <2>1. Base \in Nat /\ h \in Nat /\ l \in Nat /\ l < Base /\ window[3] \in Nat /\ window[2] \in Nat
    BY <1>3, <1>4, BaseType DEF Word
  <2>2. window[3] > h => (h + 1) * Base <= window[3] * Base /\ (h + 1) * Base = h * Base + 1 * Base
    BY <2>1, MulMono, Distribute
  <2>3. h * Base \in Nat /\ window[3] * Base \in Nat
    BY <2>1
  <2>4. window[3] = h
    BY <1>4, <2>1, <2>2, <2>3
  <2>5. QED
    BY <1>4, <2>1, <2>3, <2>4
<1> DEFINE a == window[1] + (window[2] + h * Base) * Base
<1> DEFINE r == (window[1] + window[2] * Base - den * Base + den) % B2
<1>6. Dividend = a
  BY <1>4, <1>5
<1>7. num' = r
  <2>1. num = window[1] + window[2] * Base
    BY <1>1 DEF RemInv, DividePart
  <2>2. window[1] \in Int /\ window[2] * Base \in Int /\ den * Base \in Int
    BY <1>3, BaseType DEF Word
  <2>3. num - den * Base + den = window[1] + window[2] * Base - den * Base + den
    BY <1>3, <2>1, <2>2
  <2>4. QED
    BY <1>1, <2>3
<1>8. /\ r \in 0..(B2 - 1)
      /\ r < den => a = (Base - 1) * den + r
      /\ ~(r < den) => a = (Base - 1) * den + r - B2
  <2>1. a = window[1] + (window[2] + h * Base) * Base
    OBVIOUS
  <2>2. r = (window[1] + window[2] * Base - den * Base + den) % B2
    OBVIOUS
  <2> HIDE DEF a, r
  <2>3. window[1] \in Word /\ window[2] \in Word /\ h \in Word /\ l \in Word /\ window[2] < l /\ den = h * Base + l
    BY <1>3, <1>4, <1>5
  <2>4. QED
    BY <2>1, <2>2, <2>3, LargestEstimate
<1>9. quo' \in Word
  BY <1>1, BaseType DEF Word
<1> HIDE DEF a, r
<1>10. QED
  BY <1>1, <1>2, <1>3, <1>6, <1>7, <1>8, <1>9 DEF Advanced

\* The quotient of the top words: too large if the difference wraps.
LEMMA Estimate64Advances ==
    ASSUME RemInv, pc = "window", Estimate64
    PROVE  Advanced
<1> DEFINE h == Mid(den)
<1> DEFINE l == Lo(den)
<1> DEFINE n == window[2] + window[3] * Base
<1> DEFINE q == n \div h
<1> DEFINE r == Estimated(window[1], n, h, l)
<1>1. ppc = "divide64" /\ window[3] < DivisorHi /\ UNCHANGED <<window, den, top>>
  BY DEF Estimate64
<1>2. Width \in {2, 3} /\ Width = 2
  BY <1>1, WindowFacts, WideFacts
<1>3. top \in Word /\ window[1] \in Word /\ window[2] \in Word /\ window[3] \in Word
  BY <1>2, WindowFacts
<1>4. /\ h \in Word /\ l \in Word /\ den = h * Base + l /\ window[3] < h
      /\ DivisorHi = h /\ High64 = n
      /\ Dividend = window[1] + n * Base
  BY <1>1, <1>2, NarrowFacts
<1>5. /\ quo' = q /\ num' = r
      /\ ppc' = IF num' > B2 - 1 - q * l THEN "add64" ELSE "divided"
  BY <1>4 DEF Estimate64, Estimated
<1>6. /\ q \in Word /\ r \in 0..(B2 - 1)
      /\ r > B2 - 1 - q * l => window[1] + n * Base = q * (h * Base + l) + r - B2
      /\ ~(r > B2 - 1 - q * l) => window[1] + n * Base = q * (h * Base + l) + r /\ r < h * Base + l
  <2>1. h \in Word /\ l \in Word /\ window[3] < h
    BY <1>4
  <2> HIDE DEF h, l
  <2>2. QED
    BY <1>3, <2>1, EstimateTwo
<1> HIDE DEF q, r, n, h, l
<1>7. QED
  BY <1>1, <1>2, <1>3, <1>4, <1>5, <1>6 DEF Advanced

\* The divisor is added back: the quotient is one less.
LEMMA AddBack64Advances ==
    ASSUME RemInv, pc = "window", AddBack64
    PROVE  Advanced
<1>1. /\ ppc = "add64" /\ quo' = quo - 1 /\ num' = (num + den) % B2
      /\ ppc' = (IF num' < den THEN "divided" ELSE "add64") /\ UNCHANGED <<window, den, top>>
  BY DEF AddBack64
<1>2. Width \in {2, 3} /\ Width = 2
  BY <1>1, WindowFacts, WideFacts
<1>3. /\ den \in Nat \ {0} /\ den < B2 /\ quo \in Word /\ num \in 0..(B2 - 1) /\ top \in Word
      /\ window[1] \in Word /\ window[2] \in Word /\ window[3] \in Word
  BY <1>2, WindowFacts
<1>4. ~cut /\ ~EstimateCut /\ Rest = num /\ Dividend = window[1] + (window[2] + window[3] * Base) * Base
  BY <1>2, NarrowFacts
<1>5. Dividend = quo * den + num - B2 /\ Dividend \in Nat
  <2>1. Dividend = quo * den + num - B2
    BY <1>1, <1>4 DEF RemInv, DividePart
  <2>2. QED
    BY <1>3, <1>4, <2>1, BaseType DEF Word
<1> DEFINE r == (num + den) % B2
<1>6. /\ quo >= 1 /\ r \in 0..(B2 - 1)
      /\ r < den => Dividend = (quo - 1) * den + r
      /\ ~(r < den) => Dividend = (quo - 1) * den + r - B2
  <2>1. B2 \in Nat \ {0} /\ den \in 1..(B2 - 1) /\ quo \in Nat
    BY <1>3, BaseType DEF Word
  <2>2. r = (num + den) % B2
    OBVIOUS
  <2> HIDE DEF r
  <2>3. QED
    BY <1>3, <1>5, <2>1, <2>2, AddedBack
<1> HIDE DEF r
<1>7. quo' \in Word /\ num' = r
  BY <1>1, <1>3, <1>6, BaseType DEF Word, r
<1>8. QED
  BY <1>1, <1>2, <1>3, <1>6, <1>7 DEF Advanced

\* The top words of a wider window are the remainder's.
LEMMA DivideNothingAdvances ==
    ASSUME RemInv, pc = "window", DivideNothing
    PROVE  Advanced
<1>1. ppc = "divide96" /\ High64 < DivisorHi /\ ppc' = "divided" /\ UNCHANGED <<window, den, quo, num, top>>
  BY DEF DivideNothing
<1>2. Width \in {2, 3} /\ Width = 3
  BY <1>1, WindowFacts, NarrowFacts
<1>3. /\ den \in Nat \ {0} /\ quo \in Word /\ num \in 0..(B2 - 1) /\ top \in Word
      /\ window[1] \in Word /\ window[2] \in Word /\ window[3] \in Word /\ window[4] \in Word
  BY <1>2, WindowFacts
<1> DEFINE h == Hi(den)
<1> DEFINE l == Low64(den)
<1>4. /\ h \in Word /\ l \in 0..(B2 - 1) /\ den = h * B2 + l
      /\ window[3] + window[4] * Base < h
      /\ Dividend = (window[1] + window[2] * Base) + (window[3] + window[4] * Base) * B2
  BY <1>1, <1>2, WideFacts
<1> HIDE DEF h, l
<1>5. window[4] = 0
  <2>1. Base \in Nat /\ h \in Nat /\ h < Base /\ window[3] \in Nat /\ window[4] \in Nat
    BY <1>3, <1>4, BaseType DEF Word
  <2>2. window[4] >= 1 => 1 * Base <= window[4] * Base
    BY <2>1, MulMono
  <2>3. window[4] * Base \in Nat
    BY <2>1
  <2>4. QED
    BY <1>4, <2>1, <2>2, <2>3
<1>6. quo = 0 /\ num = window[1] + window[2] * Base /\ top = window[3]
  BY <1>1 DEF RemInv, DividePart
<1>7. window[3] + window[4] * Base = top
  BY <1>3, <1>5, <1>6, BaseType DEF Word
<1>8. Dividend = num + top * B2 /\ top < h
  BY <1>4, <1>6, <1>7
<1>9. num + top * B2 < den /\ Dividend = 0 * den + (num + top * B2)
  <2>1. B2 \in Nat /\ h \in Nat /\ top \in Nat /\ l \in Nat /\ num \in Nat /\ num < B2
    BY <1>3, <1>4, BaseType DEF Word
  <2>2. (top + 1) * B2 <= h * B2 /\ (top + 1) * B2 = top * B2 + 1 * B2
    BY <1>8, <2>1, MulMono, Distribute
  <2>3. top * B2 \in Nat /\ h * B2 \in Nat
    BY <2>1, \A u, v \in Nat : u * v \in Nat
  <2> HIDE DEF B2
  <2>4. num + top * B2 < den
    BY <1>4, <2>1, <2>2, <2>3
  <2>5. QED
    BY <1>3, <1>8, <2>1, <2>3, <2>4
<1>10. QED
  BY <1>1, <1>2, <1>3, <1>6, <1>9 DEF Advanced

\* The estimate of a wider window: it is kept if what is left wraps no word.
LEMMA Estimate96Advances ==
    ASSUME RemInv, pc = "window", Estimate96
    PROVE  Advanced
<1> DEFINE h == Hi(den)
<1> DEFINE l == Low64(den)
<1> DEFINE n == window[3] + window[4] * Base
<1> DEFINE q == (n \div h) % Base
<1> DEFINE p1 == (q * l) % B2
<1> DEFINE p2 == (q * l) \div B2
<1> DEFINE left96 == Left96(num, p1, window[3], q, h, p2)
<1>1. ppc = "divide96" /\ High64 >= DivisorHi /\ UNCHANGED <<window, den>>
  BY DEF Estimate96
<1>2. Width \in {2, 3} /\ Width = 3
  BY <1>1, WindowFacts, NarrowFacts
<1>3. /\ den \in Nat \ {0} /\ num \in 0..(B2 - 1)
      /\ window[1] \in Word /\ window[2] \in Word /\ window[3] \in Word /\ window[4] \in Word
  BY <1>2, WindowFacts
<1>4. /\ h \in Word /\ h # 0 /\ l \in 0..(B2 - 1) /\ den = h * B2 + l
      /\ DivisorHi = h /\ High64 = n
      /\ Dividend = (window[1] + window[2] * Base) + n * B2
      /\ EstimateCut <=> window[4] >= h
  BY <1>2, WideFacts
<1>5. num = window[1] + window[2] * Base /\ top = window[3]
  BY <1>1 DEF RemInv, DividePart
<1>6. /\ quo' = q /\ num' = Low96(num, p1) /\ top' = left96
      /\ ppc' = IF Fits96(num, p1, window[3], q, h, p2) THEN "divided" ELSE "add96"
  BY <1>4 DEF Estimate96, Low96, Left96, High96, Borrows, Fits96
<1>7. /\ Base \in Nat \ {0} /\ Base >= 2 /\ B2 \in Nat \ {0} /\ B2 >= 4 /\ B3 \in Nat /\ B3 = Base * B2
      /\ h \in Nat \ {0} /\ l \in Nat /\ n \in Nat /\ window[4] \in Nat /\ window[3] \in Nat /\ window[3] < Base
  BY <1>3, <1>4, BaseType DEF Word, B2, B3
<1> HIDE DEF h, l
<1>8. n \div h \in Nat /\ n % h \in Nat /\ n % h < h /\ n = (n \div h) * h + (n % h)
  BY <1>7, DivMod
<1>9. q \in Word /\ q \in Nat /\ q <= Base - 1
  <2>1. q \in Nat /\ q < Base
    BY <1>7, <1>8, DivMod
  <2>2. QED
    BY <1>7, <2>1 DEF Word
<1> HIDE DEF n
<1>10. /\ q * l \in Nat /\ p1 \in Nat /\ p1 < B2 /\ p2 \in Nat /\ q * l = p2 * B2 + p1
  <2> DEFINE product == q * l
  <2>1. product \in Nat
    BY <1>7, <1>9, \A u, v \in Nat : u * v \in Nat
  <2> HIDE DEF product
  <2>2. product \div B2 \in Nat /\ product % B2 \in Nat /\ product % B2 < B2 /\ product = (product \div B2) * B2 + (product % B2)
    BY <1>7, <2>1, DivMod
  <2>3. QED
    BY <2>1, <2>2 DEF product
<1> HIDE DEF q, p1, p2
<1>11. p2 \in 0..(Base - 2)
  <2>1. q * l <= (Base - 1) * l
    BY <1>7, <1>9, MulMono
  <2>2. l * (Base - 1) <= (B2 - 1) * (Base - 1) /\ l * (Base - 1) = (Base - 1) * l
    BY <1>4, <1>7, MulMono, MulAssoc
  <2>3. (B2 - 1) * (Base - 1) < (Base - 1) * B2
    <3>1. (B2 - 1) * (Base - 1) = B2 * (Base - 1) - 1 * (Base - 1) /\ B2 * (Base - 1) = (Base - 1) * B2
      BY <1>7, Distribute, MulAssoc
    <3>2. (Base - 1) * B2 \in Int /\ 1 * (Base - 1) >= 1
      BY <1>7
    <3>3. QED
      BY <1>7, <3>1, <3>2
  <2>4. (B2 - 1) * (Base - 1) \in Int /\ (Base - 1) * B2 \in Int /\ (Base - 1) * l \in Int
    BY <1>7, \A u, v \in Int : u * v \in Int
  <2>5. q * l < (Base - 1) * B2
    BY <1>10, <2>1, <2>2, <2>3, <2>4
  <2>6. p2 * B2 < (Base - 1) * B2
    <3>1. p2 * B2 \in Nat
      BY <1>7, <1>10, \A u, v \in Nat : u * v \in Nat
    <3>2. QED
      BY <1>10, <2>4, <2>5, <3>1
  <2>7. p2 < Base - 1
    BY <1>7, <1>10, <2>6, Cancel
  <2>8. QED
    BY <1>7, <1>10, <2>7
<1>12. p1 \in 0..(B2 - 1)
  BY <1>7, <1>10
<1> DEFINE low96 == Low96(num, p1)
<1>13. low96 \in 0..(B2 - 1) /\ left96 \in Word
  <2>1. low96 \in 0..(B2 - 1)
    BY <1>3, <1>12, LowPart
  <2>2. High96(window[3], q, h, p2) \in Word
    <3>1. q * h \in Int
      BY <1>7, <1>9, \A u, v \in Int : u * v \in Int
    <3>2. window[3] - q * h - p2 \in Int
      BY <1>7, <1>11, <3>1
    <3> DEFINE e == window[3] - q * h - p2
    <3>3. e \in Int
      BY <3>2
    <3> HIDE DEF e
    <3>4. e % Base \in Word
      BY <1>7, <3>3 DEF Word
    <3>5. QED
      BY <3>4 DEF High96, e
  <2>3. (High96(window[3], q, h, p2) - 1) % Base \in Word
    <3> DEFINE e == High96(window[3], q, h, p2)
    <3>1. e \in Int
      BY <2>2 DEF Word
    <3> HIDE DEF e
    <3>2. (e - 1) % Base \in Word
      BY <1>7, <3>1 DEF Word
    <3>3. QED
      BY <3>2 DEF e
  <2>4. QED
    BY <2>1, <2>2, <2>3 DEF Left96
<1>14. ASSUME ~EstimateCut
       PROVE  TopQuotient(window[3], window[4], h, q, n % h)
  <2>1. window[4] < h
    BY <1>4, <1>7, <1>14
  <2>2. n < h * Base
    <3>1. (window[4] + 1) * Base <= h * Base /\ (window[4] + 1) * Base = window[4] * Base + 1 * Base
      BY <1>7, <2>1, MulMono, Distribute
    <3>2. window[4] * Base \in Int /\ h * Base \in Int
      BY <1>7
    <3>3. QED
      BY <1>7, <3>1, <3>2 DEF n
  <2>3. n \div h < Base
    BY <1>7, <2>2, QuotientBound
  <2>4. q = n \div h
    <3> DEFINE e == n \div h
    <3>1. e \in Nat /\ e < Base /\ e = 0 * Base + e
      BY <1>7, <1>8, <2>3
    <3> HIDE DEF e
    <3>2. e % Base = e
      BY <1>7, <3>1, QuotientUnique
    <3>3. QED
      BY <3>2 DEF q, e
  <2>5. n % h \in Word
    BY <1>4, <1>7, <1>8 DEF Word
  <2>6. QED
    BY <1>8, <1>9, <2>4, <2>5 DEF TopQuotient, n
<1>15. ASSUME ~EstimateCut
       PROVE  /\ Fits96(num, p1, window[3], q, h, p2) =>
                     /\ Dividend = q * den + (low96 + left96 * B2)
                     /\ low96 + left96 * B2 < den
              /\ ~Fits96(num, p1, window[3], q, h, p2) => Dividend = q * den + (low96 + left96 * B2) - B3
  <2>1. TopQuotient(window[3], window[4], h, q, n % h)
    BY <1>14, <1>15
  <2>2. Dividend = num + (window[3] + window[4] * Base) * B2
    BY <1>4, <1>5 DEF n
  <2>3. h \in Word /\ l \in 0..(B2 - 1) /\ num \in 0..(B2 - 1) /\ window[3] \in Word /\ window[4] \in Word
    BY <1>3, <1>4
  <2>4. /\ Fits96(num, p1, window[3], q, h, p2) =>
               /\ num + (window[3] + window[4] * Base) * B2 = q * (h * B2 + l) + (low96 + left96 * B2)
               /\ low96 + left96 * B2 < h * B2 + l
        /\ ~Fits96(num, p1, window[3], q, h, p2) =>
               num + (window[3] + window[4] * Base) * B2 = q * (h * B2 + l) + (low96 + left96 * B2) - B3
    BY <1>10, <1>11, <1>12, <2>1, <2>3, EstimateThree
  <2> HIDE DEF low96, left96
  <2>5. QED
    BY <1>4, <2>2, <2>4
<1> HIDE DEF low96, left96
<1>16. QED
  BY <1>1, <1>2, <1>6, <1>9, <1>13, <1>15 DEF Advanced, low96

\* The divisor is added back to three words, until the sum wraps.
LEMMA AddBack96Advances ==
    ASSUME RemInv, pc = "window", AddBack96
    PROVE  Advanced
<1> DEFINE h == Hi(den)
<1> DEFINE l == Low64(den)
<1>1. ppc = "add96" /\ UNCHANGED <<window, den>>
  BY DEF AddBack96
<1>2. Width \in {2, 3} /\ Width = 3
  BY <1>1, WindowFacts, NarrowFacts
<1>3. /\ den \in Nat \ {0} /\ den < B3 /\ quo \in Word /\ num \in 0..(B2 - 1) /\ top \in Word
      /\ window[1] \in Word /\ window[2] \in Word /\ window[3] \in Word /\ window[4] \in Word
  BY <1>2, WindowFacts
<1>4. /\ h \in Word /\ h # 0 /\ l \in 0..(B2 - 1) /\ den = h * B2 + l
      /\ DivisorHi = h /\ Rest = num + top * B2
      /\ Dividend = (window[1] + window[2] * Base) + (window[3] + window[4] * Base) * B2
  BY <1>2, WideFacts
<1>5. /\ quo' = (quo - 1) % Base /\ num' = Sum96(num, l) /\ top' = Sum96Top(num, l, top, h)
      /\ ppc' = IF Stops96(num, l, top, h) THEN "divided" ELSE "add96"
  BY <1>4 DEF AddBack96, Sum96, Carries, Top96, Sum96Top, Stops96
<1> HIDE DEF h, l
<1> DEFINE low96 == Sum96(num, l)
<1> DEFINE left96 == Sum96Top(num, l, top, h)
<1>6. /\ low96 \in 0..(B2 - 1) /\ left96 \in Word
      /\ num + top * B2 \in 0..(B3 - 1)
      /\ low96 + left96 * B2 = ((num + top * B2) + den) % B3
      /\ Stops96(num, l, top, h) <=> (num + top * B2) + den >= B3
  BY <1>3, <1>4, AddedThree
<1>7. quo' \in Word
  <2>1. Base \in Nat \ {0} /\ quo \in Int
    BY <1>3, BaseType DEF Word
  <2>2. QED
    BY <1>5, <2>1 DEF Word
<1>8. ASSUME ~cut, ~EstimateCut
      PROVE  /\ quo' = quo - 1
             /\ Stops96(num, l, top, h) =>
                    /\ Dividend = (quo - 1) * den + (low96 + left96 * B2)
                    /\ low96 + left96 * B2 < den
             /\ ~Stops96(num, l, top, h) => Dividend = (quo - 1) * den + (low96 + left96 * B2) - B3
  <2> DEFINE v == num + top * B2
  <2> DEFINE r == low96 + left96 * B2
  <2>1. Dividend = quo * den + v - B3 /\ Dividend \in Nat
    <3>1. Dividend = quo * den + Rest - B3
      BY <1>1, <1>8 DEF RemInv, DividePart
    <3>2. QED
      BY <1>3, <1>4, <3>1, BaseType DEF Word
  <2>2. /\ B3 \in Nat \ {0} /\ den \in 1..(B3 - 1) /\ v \in 0..(B3 - 1) /\ quo \in Nat /\ r = (v + den) % B3
    BY <1>3, <1>6, BaseType DEF Word
  <2>3. Stops96(num, l, top, h) <=> v + den >= B3
    BY <1>6
  <2> HIDE DEF v, r
  <2>4. /\ quo >= 1
        /\ r < den <=> v + den >= B3
        /\ r < den => Dividend = (quo - 1) * den + r
        /\ ~(r < den) => Dividend = (quo - 1) * den + r - B3
    BY <2>1, <2>2, AddedBack
  <2>5. quo' = quo - 1
    <3>1. quo - 1 \in Nat /\ quo - 1 < Base /\ Base \in Nat \ {0}
      BY <1>3, <2>4, BaseType DEF Word
    <3> DEFINE e == quo - 1
    <3>2. e \in Nat /\ e < Base /\ e = 0 * Base + e
      BY <3>1
    <3> HIDE DEF e
    <3>3. e % Base = e
      BY <3>1, <3>2, QuotientUnique
    <3>4. QED
      BY <1>5, <3>3 DEF e
  <2>6. QED
    BY <2>3, <2>4, <2>5 DEF r
<1> HIDE DEF low96, left96
<1>9. QED
  BY <1>1, <1>2, <1>5, <1>6, <1>7, <1>8 DEF Advanced, low96, left96

\* Whatever step the division takes.
LEMMA DivideAdvances ==
    ASSUME RemInv, pc = "window", DivideNext
    PROVE  Advanced
  BY DivideLowAdvances, DivideLargestAdvances, Estimate64Advances, AddBack64Advances,
     DivideNothingAdvances, Estimate96Advances, AddBack96Advances DEF DivideNext

-----------------------------------------------------------------------------
(***************************************************************************)
(* What the steps leave alone.                                             *)
(***************************************************************************)
LEMMA CallKept ==
    ASSUME call' = call
    PROVE  /\ CallOK => CallOK'
           /\ Divisor' = Divisor /\ Remaining' = Remaining /\ LargerScale' = LargerScale
           /\ First' = First /\ Second' = Second /\ Answer' = Answer
  BY DEF CallOK, Divisor, Remaining, LargerScale, First, Second, Answer

LEMMA ShiftKept ==
    ASSUME d2' = d2
    PROVE  Width' = Width /\ Shift' = Shift
  BY DEF Width, Shift

LEMMA WindowKept ==
    ASSUME d2' = d2, buffer' = buffer, at' = at
    PROVE  /\ Width' = Width /\ Shift' = Shift
           /\ WindowAt(at)' = WindowAt(at)
           /\ BufferMod(at + Width)' = BufferMod(at + Width)
  BY ShiftKept DEF WindowAt, BufferMod

\* A comparison that is left alone answers as before.
LEMMA CompareKept ==
    ASSUME RemInv, UNCHANGED <<cvars, call>>, pc' \notin {"comparing", "compared"}
    PROVE  ComparePart' /\ CompareExact'
  BY DEF ComparePart, CompareExact

\* Outside of the windows nothing is claimed of them.
LEMMA NoWindow ==
    ASSUME pc' \notin {"window", "shift_back"}
    PROVE  WindowPart' /\ DividePart'
  BY DEF WindowPart, DividePart

LEMMA NotDone ==
    ASSUME pc' # "done"
    PROVE  RemainderExact'
  BY DEF RemainderExact

LEMMA NotGrowing ==
    ASSUME pc' # "grow"
    PROVE  GrowPart'
  BY DEF GrowPart

-----------------------------------------------------------------------------
LEMMA DividingInv ==
    ASSUME RemInv, Dividing
    PROVE  RemInv'
<1>1. /\ pc = "window" /\ pc' = "window" /\ DivideNext
      /\ UNCHANGED <<cvars, call, d1, d2, scale, buffer, upper, at, cut, result, pc>>
  BY DEF Dividing
<1>2. Advanced
  BY <1>1, DivideAdvances
<1>3. /\ window' = window /\ den' = den /\ quo' \in Word /\ num' \in 0..(B2 - 1) /\ top' \in Word
      /\ ppc' \in (IF Width = 2 THEN {"add64", "divided"} ELSE {"add96", "divided"})
  BY <1>2 DEF Advanced
<1>4. /\ left' = left /\ right' = right /\ diff' = diff /\ order' = order /\ cpc' = cpc
      /\ call' = call /\ d1' = d1 /\ d2' = d2 /\ scale' = scale /\ buffer' = buffer /\ upper' = upper
      /\ at' = at /\ cut' = cut /\ result' = result /\ pc' = pc
  BY <1>1 DEF cvars
<1>5. RemTypeOK'
  BY <1>3, <1>4 DEF RemInv, RemTypeOK
<1>6. CallOK' /\ Divisor' = Divisor /\ Remaining' = Remaining /\ LargerScale' = LargerScale
  BY <1>4, CallKept DEF RemInv
<1>7. FreshPart'
  BY <1>1, <1>4 DEF RemInv, FreshPart
<1>8. ComparePart' /\ CompareExact'
  BY <1>1, <1>4, CompareKept DEF cvars
<1>9. ScalingPart'
  BY <1>1, <1>4, <1>6 DEF RemInv, ScalingPart
<1>10. GrowPart' /\ RemainderExact'
  BY <1>1, NotGrowing, NotDone
<1>11. WindowPart'
  <2>1. Width' = Width /\ Shift' = Shift /\ WindowAt(at)' = WindowAt(at) /\ BufferMod(at + Width)' = BufferMod(at + Width)
    BY <1>4, WindowKept
  <2>2. Divisible' = Divisible
    BY <1>3 DEF Divisible, Dividend, High64
  <2>3. Width \in {2, 3}
    BY <1>1, WindowFacts
  <2>4. ppc' \in (IF Width = 2 THEN {"divide64", "add64", "divided"} ELSE {"divide96", "add96", "divided"})
    BY <1>3, <2>3
  <2>5. /\ d2 = Divisor /\ d2 >= Base /\ at + Width <= 6
        /\ den = d2 * Shift /\ window = WindowAt(at) /\ (cut => Width = 3)
        /\ ~cut => Divisible /\ BufferMod(at + Width) = Remaining * Shift
    BY <1>1 DEF RemInv, WindowPart
  <2>6. (window = WindowAt(at))' /\ (at + Width <= 6)'
    BY <1>3, <1>4, <2>1, <2>5
  <2>7. (den = d2 * Shift)'
    BY <1>3, <1>4, <2>1, <2>5
  <2>8. (~cut)' => (BufferMod(at + Width) = Remaining * Shift)'
    BY <1>4, <1>6, <2>1, <2>5
  <2>9. (~cut)' => Divisible'
    BY <1>4, <2>2, <2>5
  <2>10. (d2 = Divisor)' /\ (d2 >= Base)' /\ (cut => Width = 3)'
    BY <1>4, <1>6, <2>1, <2>5
  <2>11. (ppc \in (IF Width = 2 THEN {"divide64", "add64", "divided"} ELSE {"divide96", "add96", "divided"}))'
    BY <2>1, <2>4
  <2>12. pc' # "shift_back"
    BY <1>1
  <2>13. QED
    BY <2>6, <2>7, <2>8, <2>9, <2>10, <2>11, <2>12 DEF WindowPart
<1>12. DividePart'
  <2>1. ppc' \notin {"divide64", "divide96"}
    BY <1>3
  <2>2. Dividend' = Dividend /\ EstimateCut' = EstimateCut
    BY <1>3 DEF Dividend, High64, EstimateCut, DivisorHi
  <2>3. Width \in {2, 3} /\ Len(window) = Width + 1
    BY <1>1, WindowFacts
  <2>4. Rest' = IF Width = 2 THEN num' ELSE num' + top' * B2
    <3>1. Len(window) = 3 <=> Width = 2
      BY <2>3
    <3>2. QED
      BY <1>3, <3>1 DEF Rest
  <2>5. ASSUME ~cut, ~EstimateCut
        PROVE  /\ ppc' = "add64" => Dividend = quo' * den + Rest' - B2
               /\ ppc' = "add96" => Dividend = quo' * den + Rest' - B3
               /\ ppc' = "divided" => Dividend = quo' * den + Rest' /\ Rest' < den
    <3>1. ppc' = "add64" => Width = 2
      BY <1>3, <2>3
    <3>2. ppc' = "add96" => Width # 2
      BY <1>3
    <3>3. QED
      BY <1>2, <2>4, <2>5, <3>1, <3>2 DEF Advanced
  <2>6. QED
    BY <1>3, <1>4, <2>1, <2>2, <2>5 DEF DividePart
<1>13. QED
  BY <1>5, <1>6, <1>7, <1>8, <1>9, <1>10, <1>11, <1>12 DEF RemInv

-----------------------------------------------------------------------------
(***************************************************************************)
(* The initial states, and the comparison.                                 *)
(***************************************************************************)
\* The remainder of the specification is that of the numbers at one scale.
LEMMA TrueRemainderIs ==
    ASSUME CallOK, call.y.m # 0
    PROVE  /\ TrueRemainder = Remaining /\ Divisor \in Nat \ {0} /\ Remaining \in Nat /\ Remaining < Divisor
           /\ Against(call.x, call.y) \in Nat
<1> DEFINE x == call.x
<1> DEFINE y == call.y
<1>1. x \in Decimal /\ y \in Decimal
  BY DEF CallOK
<1>2. x.m \in Nat /\ y.m \in Nat \ {0} /\ x.s \in 0..MAX_SCALE /\ y.s \in 0..MAX_SCALE
  BY <1>1, DecimalType
<1>3. Divisor \in Nat \ {0} /\ Against(x, y) \in Nat
  BY <1>1, AgainstType DEF Divisor
<1>4. Remaining \in Nat /\ Remaining < Divisor
  BY <1>3, DivMod DEF Remaining
<1>5. CASE x.s <= y.s
  <2>1. y.s - x.s \in 0..MAX_SCALE
    BY <1>2, <1>5, ScaleAssumption
  <2>2. y.s - x.s \in 0..PowLimit
    BY <2>1, ScaleAssumption
  <2>3. ScaledMod(x.m, y.s - x.s, y.m) = (x.m * POWERS[y.s - x.s]) % y.m
    BY <1>2, <2>1, <2>2, ScaledModRight
  <2>4. Divisor = y.m
    BY <1>1, <1>5, AgainstType DEF Divisor
  <2>5. Against(x, y) = x.m * POWERS[y.s - x.s]
    <3>1. CASE x.s < y.s
      BY <1>1, <3>1, AgainstType
    <3>2. CASE x.s = y.s
      <4>1. Against(x, y) = x.m
        BY <1>1, <1>2, <3>2, AgainstType
      <4>2. y.s - x.s = 0 /\ POWERS[0] = 1
        BY <1>2, <3>2, PowersAssumption
      <4>3. QED
        BY <1>2, <4>1, <4>2
    <3>3. QED
      BY <1>2, <1>5, <3>1, <3>2
  <2>6. TrueRemainder = ScaledMod(x.m, y.s - x.s, y.m)
    BY <1>5 DEF TrueRemainder
  <2>7. QED
    BY <1>3, <1>4, <2>3, <2>4, <2>5, <2>6 DEF Remaining
<1>6. CASE ~(x.s <= y.s)
  <2>1. y.s < x.s /\ y.s <= x.s
    BY <1>2, <1>6
  <2>2. Divisor = y.m * POWERS[x.s - y.s] /\ Against(x, y) = x.m
    BY <1>1, <2>1, AgainstType DEF Divisor
  <2>3. TrueRemainder = x.m % (y.m * POWERS[x.s - y.s])
    BY <1>6 DEF TrueRemainder
  <2>4. QED
    BY <1>3, <1>4, <2>2, <2>3 DEF Remaining
<1>7. QED
  BY <1>5, <1>6

LEMMA RemInit ==
    ASSUME Init
    PROVE  RemInv
<1>1. PICK op \in {"rem", "cmp"}, a \in Decimal, b \in Decimal : Called(op, a, b)
  BY DEF Init
<1>2. /\ left = [m |-> 0, s |-> 0] /\ right = [m |-> 0, s |-> 0] /\ diff = 0 /\ order = "Equal" /\ cpc = "idle"
      /\ quo = 0 /\ num = 0 /\ top = 0
      /\ call = [op |-> op, x |-> a, y |-> b]
      /\ d1 = [m |-> a.m, s |-> a.s] /\ d2 = b.m
      /\ scale = 0 /\ buffer = [i \in 0..6 |-> 0] /\ upper = 0 /\ at = 0 /\ cut = FALSE
      /\ result = ZERO /\ pc = op
  BY <1>1 DEF Called, CompareIdle, DivideIdle, Unscaled
<1>3. call.op = op /\ call.x = a /\ call.y = b /\ pc \in {"rem", "cmp"}
  BY <1>2
<1>4. CallOK
  BY <1>2 DEF CallOK
<1>5. RemTypeOK
  <2>1. a.m \in Mantissa /\ a.s \in 0..MAX_SCALE /\ b.m \in Mantissa
    BY DecimalType DEF Decimal
  <2>2. 0 \in Mantissa /\ 0 \in Word /\ 0 \in -MAX_SCALE..MAX_SCALE /\ 0 \in 0..(B2 - 1) /\ result \in Decimal
    BY <1>2, BaseType, ScaleAssumption, ZeroType DEF Mantissa, Word
  <2>3. buffer \in [0..6 -> Word] /\ upper \in 0..6 /\ at \in 0..4 /\ \A i \in 0..6 : buffer[i] = 0
    BY <1>2, <2>2
  <2>4. order \in Orders /\ cpc # "scale"
    BY <1>2 DEF Orders
  <2>5. QED
    BY <1>2, <2>1, <2>2, <2>3, <2>4 DEF RemTypeOK
<1>6. FreshPart
  BY <1>2, <1>3 DEF FreshPart
<1>7. ComparePart /\ CompareExact /\ ScalingPart /\ GrowPart /\ WindowPart /\ DividePart /\ RemainderExact
  BY <1>3 DEF ComparePart, CompareExact, ScalingPart, GrowPart, WindowPart, DividePart, RemainderExact
<1>8. QED
  BY <1>4, <1>5, <1>6, <1>7 DEF RemInv

\* What a comparison is to answer.
LEMMA AnswerIs ==
    ASSUME CallOK, call.op = "cmp" => call.x.m # 0 /\ call.y.m # 0 /\ call.x.neg = call.y.neg
    PROVE  Answer = InOrder(Against(First, Second), Against(Second, First))
<1> DEFINE x == call.x
<1> DEFINE y == call.y
<1>1. x \in Decimal /\ y \in Decimal
  BY DEF CallOK
<1>2. Against(x, y) \in Nat /\ Against(y, x) \in Nat
  BY <1>1, AgainstType
<1>3. MagnitudeOrder(x, y) = InOrder(Against(x, y), Against(y, x))
  BY <1>1, MagnitudeIs
<1>4. Reversed(InOrder(Against(x, y), Against(y, x))) = InOrder(Against(y, x), Against(x, y))
  BY <1>2, InOrderFacts
<1>5. CASE call.op = "cmp"
  <2>1. SignOf(x) = (IF x.neg THEN -1 ELSE 1) /\ SignOf(y) = SignOf(x)
    BY <1>5 DEF SignOf
  <2>2. Answer = IF x.neg THEN Reversed(MagnitudeOrder(x, y)) ELSE MagnitudeOrder(x, y)
    BY <1>5, <2>1 DEF Answer, NumberOrder
  <2>3. First = (IF x.neg THEN y ELSE x) /\ Second = (IF x.neg THEN x ELSE y)
    BY <1>5 DEF First, Second
  <2>4. QED
    BY <1>3, <1>4, <2>2, <2>3
<1>6. CASE call.op # "cmp"
  BY <1>3, <1>6 DEF Answer, First, Second
<1>7. QED
  BY <1>5, <1>6

\* The comparison of the magnitudes begins.
LEMMA CallCompares ==
    ASSUME CallOK, order \in Orders, CompareCall(First, Second), call' = call,
           call.op = "cmp" => call.x.m # 0 /\ call.y.m # 0 /\ call.x.neg = call.y.neg
    PROVE  /\ ComparePart' /\ cpc' \in {"scale", "compare"}
           /\ left'.m \in Mantissa /\ right'.m \in Mantissa /\ order' \in Orders
           /\ cpc' = "scale" => diff' \in 1..MAX_SCALE
<1>1. First \in Decimal /\ Second \in Decimal
  BY DEF CallOK, First, Second
<1>2. /\ First.m \in Mantissa /\ Second.m \in Mantissa
      /\ First.s \in 0..MAX_SCALE /\ Second.s \in 0..MAX_SCALE
  BY <1>1, DecimalType DEF Decimal
<1>3. /\ left' = [m |-> First.m, s |-> First.s] /\ right' = [m |-> Second.m, s |-> Second.s]
      /\ diff' = (IF First.s < Second.s THEN Second.s - First.s ELSE First.s - Second.s)
      /\ cpc' = (IF First.s = Second.s THEN "compare" ELSE "scale") /\ order' = order
  BY DEF CompareCall
<1>4. First' = First /\ Second' = Second /\ Answer' = Answer
  BY CallKept
<1>5. /\ Second.s <= First.s => Against(First, Second) = First.m
      /\ First.s < Second.s => Against(First, Second) = First.m * POWERS[Second.s - First.s] /\ Second.s - First.s \in 1..MAX_SCALE
  BY <1>1, AgainstType
<1>6. /\ First.s <= Second.s => Against(Second, First) = Second.m
      /\ Second.s < First.s => Against(Second, First) = Second.m * POWERS[First.s - Second.s] /\ First.s - Second.s \in 1..MAX_SCALE
  BY <1>1, AgainstType
<1>7. cpc' = "scale" =>
          \/ /\ left'.s < right'.s /\ left'.m * POWERS[diff'] = Against(First, Second) /\ right'.m = Second.m
             /\ diff' \in 1..MAX_SCALE
          \/ /\ left'.s > right'.s /\ left'.m = First.m /\ right'.m * POWERS[diff'] = Against(Second, First)
             /\ diff' \in 1..MAX_SCALE
  <2>1. CASE First.s < Second.s
    BY <1>3, <1>5, <2>1
  <2>2. CASE Second.s < First.s
    <3>1. ~(First.s < Second.s)
      BY <1>2, <2>2
    <3>2. QED
      BY <1>3, <1>6, <2>2, <3>1
  <2>3. CASE First.s = Second.s
    BY <1>3, <2>3
  <2>4. QED
    BY <1>2, <2>1, <2>2, <2>3
<1>8. cpc' = "compare" => left'.m = Against(First, Second) /\ right'.m = Against(Second, First)
  <2>1. First.s = Second.s => First.s <= Second.s /\ Second.s <= First.s
    BY <1>2
  <2>2. QED
    BY <1>3, <1>5, <1>6, <2>1
<1>9. /\ cpc' \in {"scale", "compare"}
      /\ left' = [m |-> left'.m, s |-> First.s] /\ right' = [m |-> right'.m, s |-> Second.s]
  BY <1>3
<1>10. ComparePart'
  BY <1>4, <1>7, <1>8, <1>9 DEF ComparePart
<1>11. QED
  BY <1>2, <1>3, <1>7, <1>9, <1>10

\* Before the scaling begins nothing is claimed of it.
LEMMA NotScaling ==
    ASSUME pc' \in {"cmp", "rem", "comparing", "compared", "div_by_zero", "done"}
    PROVE  ScalingPart' /\ GrowPart' /\ WindowPart' /\ DividePart'
  BY DEF ScalingPart, GrowPart, WindowPart, DividePart

LEMMA RemByZeroInv ==
    ASSUME RemInv, RemByZero
    PROVE  RemInv'
<1>1. /\ pc = "rem" /\ pc' = "div_by_zero"
      /\ UNCHANGED <<cvars, pvars, call, d1, d2, scale, buffer, upper, at, cut, result>>
  BY DEF RemByZero
<1>2. RemTypeOK'
  BY <1>1 DEF RemInv, RemTypeOK, cvars, pvars
<1>3. CallOK' /\ FreshPart'
  BY <1>1, CallKept DEF RemInv, FreshPart, cvars
<1>4. ComparePart' /\ CompareExact'
  BY <1>1, CompareKept
<1>5. QED
  BY <1>1, <1>2, <1>3, <1>4, NotScaling, NotDone DEF RemInv

LEMMA RemZeroInv ==
    ASSUME RemInv, RemZero
    PROVE  RemInv'
<1>1. /\ pc = "rem" /\ pc' = "done" /\ result' = ZERO /\ d1.m = 0
      /\ UNCHANGED <<cvars, pvars, call, d1, d2, scale, buffer, upper, at, cut>>
  BY DEF RemZero
<1>2. RemTypeOK'
  BY <1>1, ZeroType DEF RemInv, RemTypeOK, cvars, pvars
<1>3. CallOK' /\ FreshPart'
  BY <1>1, CallKept DEF RemInv, FreshPart, cvars
<1>4. ComparePart' /\ CompareExact'
  BY <1>1, CompareKept
<1>5. call.op = "rem" /\ call.x.m = 0
  BY <1>1 DEF RemInv, FreshPart
<1>6. RemainderExact'
  BY <1>1, <1>5, ZeroType DEF RemainderExact, RemainderIsTrue
<1>7. QED
  BY <1>1, <1>2, <1>3, <1>4, <1>6, NotScaling DEF RemInv

LEMMA RemCompareInv ==
    ASSUME RemInv, RemCompare
    PROVE  RemInv'
<1>1. /\ pc = "rem" /\ pc' = "comparing" /\ d2 # 0 /\ d1.m # 0
      /\ CompareCall(call.x, call.y) /\ call' = call
      /\ UNCHANGED <<pvars, call, d1, d2, scale, buffer, upper, at, cut, result>>
  BY DEF RemCompare
<1>2. CallOK /\ order \in Orders /\ call.op = "rem"
  BY <1>1 DEF RemInv, RemTypeOK, FreshPart
<1>3. First = call.x /\ Second = call.y
  BY <1>2 DEF First, Second
<1>4. /\ ComparePart' /\ cpc' \in {"scale", "compare"}
      /\ left'.m \in Mantissa /\ right'.m \in Mantissa /\ order' \in Orders
      /\ cpc' = "scale" => diff' \in 1..MAX_SCALE
  <2>1. CompareCall(First, Second)
    BY <1>1, <1>3
  <2>2. QED
    BY <1>1, <1>2, <2>1, CallCompares
<1>5. RemTypeOK'
  BY <1>1, <1>4 DEF RemInv, RemTypeOK, pvars
<1>6. CallOK'
  BY <1>1, <1>2, CallKept
<1>7. FreshPart'
  <2>1. d1 = [m |-> call.x.m, s |-> call.x.s] /\ d2 = call.y.m /\ ~cut /\ buffer = [i \in 0..6 |-> 0]
    BY <1>1, <1>2 DEF RemInv, FreshPart
  <2>2. call.x.m # 0 /\ call.y.m # 0
    BY <1>1, <2>1
  <2>3. QED
    BY <1>1, <1>2, <1>4, <2>1, <2>2 DEF FreshPart
<1>8. CompareExact'
  BY <1>1, <1>4 DEF CompareExact
<1>9. QED
  BY <1>1, <1>4, <1>5, <1>6, <1>7, <1>8, NotScaling, NotDone DEF RemInv

\* A zero, or different signs, are ordered at once.
LEMMA CmpInv ==
    ASSUME RemInv, Cmp
    PROVE  RemInv'
<1> DEFINE x == call.x
<1> DEFINE y == call.y
<1>1. /\ pc = "cmp" /\ pc' = "comparing" /\ CompareSigned(x, y) /\ call' = call
      /\ UNCHANGED <<pvars, call, d1, d2, scale, buffer, upper, at, cut, result>>
  BY DEF Cmp
<1>2. /\ CallOK /\ order \in Orders /\ call.op = "cmp" /\ ~cut /\ buffer = [i \in 0..6 |-> 0]
      /\ d1 = [m |-> d1.m, s |-> d1.s]
  BY <1>1 DEF RemInv, RemTypeOK, FreshPart
<1>3. x \in Decimal /\ y \in Decimal /\ x.neg \in BOOLEAN /\ y.neg \in BOOLEAN
  BY <1>2, DecimalType DEF CallOK
<1>4. CASE x.m = 0 \/ y.m = 0 \/ x.neg # y.neg
  <2>1. /\ order' = IF y.m = 0 THEN (IF x.m = 0 THEN "Equal" ELSE IF x.neg THEN "Less" ELSE "Greater")
                    ELSE IF y.m # 0 /\ ~y.neg THEN "Less" ELSE "Greater"
        /\ cpc' = "ordered" /\ UNCHANGED <<left, right, diff>>
    BY <1>1, <1>4 DEF CompareSigned
  <2>2. order' = NumberOrder(x, y)
    <3>1. CASE y.m = 0
      BY <1>3, <2>1, <3>1 DEF NumberOrder, SignOf
    <3>2. CASE y.m # 0 /\ x.m = 0
      BY <1>3, <2>1, <3>2 DEF NumberOrder, SignOf
    <3>3. CASE y.m # 0 /\ x.m # 0
      <4>1. x.neg # y.neg
        BY <1>4, <3>3
      <4>2. CASE x.neg
        <5>1. SignOf(x) = -1 /\ SignOf(y) = 1
          BY <1>3, <3>3, <4>1, <4>2 DEF SignOf
        <5>2. order' = "Less"
          BY <1>3, <2>1, <3>3, <4>1, <4>2
        <5>3. QED
          BY <5>1, <5>2 DEF NumberOrder
      <4>3. CASE ~x.neg
        <5>1. SignOf(x) = 1 /\ SignOf(y) = -1
          BY <1>3, <3>3, <4>1, <4>3 DEF SignOf
        <5>2. order' = "Greater"
          BY <1>3, <2>1, <3>3, <4>1, <4>3
        <5>3. QED
          BY <5>1, <5>2 DEF NumberOrder
      <4>4. QED
        BY <4>2, <4>3
    <3>4. QED
      BY <3>1, <3>2, <3>3
  <2>3. order' \in Orders
    BY <1>3, <2>2, EqualHashed
  <2>4. RemTypeOK'
    BY <1>1, <2>1, <2>3 DEF RemInv, RemTypeOK, pvars
  <2>5. CallOK' /\ Answer' = Answer /\ Answer = NumberOrder(x, y)
    BY <1>1, <1>2, CallKept DEF Answer
  <2>6. FreshPart'
    BY <1>1, <1>2, <2>1 DEF FreshPart
  <2>7. ComparePart'
    BY <2>1, <2>2, <2>5 DEF ComparePart
  <2>8. CompareExact'
    BY <1>1, <1>2 DEF CompareExact
  <2>9. QED
    BY <1>1, <2>4, <2>5, <2>6, <2>7, <2>8, NotScaling, NotDone DEF RemInv
<1>5. CASE ~(x.m = 0 \/ y.m = 0 \/ x.neg # y.neg)
  <2>1. First = (IF x.neg THEN y ELSE x) /\ Second = (IF x.neg THEN x ELSE y)
    BY <1>2 DEF First, Second
  <2>2. CompareCall(First, Second)
    BY <1>1, <1>5, <2>1 DEF CompareSigned
  <2>3. x.m # 0 /\ y.m # 0 /\ x.neg = y.neg
    BY <1>5
  <2>4. /\ ComparePart' /\ cpc' \in {"scale", "compare"}
        /\ left'.m \in Mantissa /\ right'.m \in Mantissa /\ order' \in Orders
        /\ cpc' = "scale" => diff' \in 1..MAX_SCALE
    BY <1>1, <1>2, <2>2, <2>3, CallCompares
  <2>5. RemTypeOK'
    BY <1>1, <2>4 DEF RemInv, RemTypeOK, pvars
  <2>6. CallOK'
    BY <1>1, <1>2, CallKept
  <2>7. FreshPart'
    BY <1>1, <1>2, <2>4 DEF FreshPart
  <2>8. CompareExact'
    BY <1>1, <1>2 DEF CompareExact
  <2>9. QED
    BY <1>1, <2>4, <2>5, <2>6, <2>7, <2>8, NotScaling, NotDone DEF RemInv
<1>6. QED
  BY <1>4, <1>5

LEMMA CmpReturnInv ==
    ASSUME RemInv, CmpReturn
    PROVE  RemInv'
<1>1. /\ pc = "comparing" /\ pc' = "compared" /\ call.op = "cmp" /\ cpc = "ordered"
      /\ UNCHANGED <<cvars, pvars, call, d1, d2, scale, buffer, upper, at, cut, result>>
  BY DEF CmpReturn
<1>2. RemTypeOK'
  BY <1>1 DEF RemInv, RemTypeOK, cvars, pvars
<1>3. CallOK' /\ FreshPart'
  BY <1>1, CallKept DEF RemInv, FreshPart, cvars
<1>4. call.x \in Decimal /\ call.y \in Decimal
  BY DEF RemInv, CallOK
<1>5. order = NumberOrder(call.x, call.y)
  BY <1>1 DEF RemInv, ComparePart, Answer
<1>6. CompareExact'
  <2>1. (NumberOrder(call.x, call.y) = "Equal") = (Hashed(call.x) = Hashed(call.y))
    BY <1>4, EqualHashed
  <2>2. order' = order /\ call' = call
    BY <1>1 DEF cvars
  <2>3. (order = NumberOrder(call.x, call.y) /\ (order = "Equal") = (Hashed(call.x) = Hashed(call.y)))'
    BY <1>5, <2>1, <2>2
  <2>4. pc' = "compared"
    BY <1>1
  <2>5. QED
    BY <2>3, <2>4 DEF CompareExact
<1>7. ComparePart'
  BY <1>1 DEF ComparePart
<1>8. QED
  BY <1>1, <1>2, <1>3, <1>6, <1>7, NotScaling, NotDone DEF RemInv

\* A pass of scaling takes a chunk of the digits that are lacking.
LEMMA PassScales ==
    ASSUME NEW m \in Mantissa, NEW lacks \in 1..MAX_SCALE
    PROVE  LET p == m * POWERS[Chunk(lacks)]
           IN  /\ p \in Nat /\ m * POWERS[lacks] \in Nat /\ p <= m * POWERS[lacks]
               /\ lacks <= MAX_I32_SCALE => p = m * POWERS[lacks]
               /\ ~(lacks <= MAX_I32_SCALE) =>
                      lacks - MAX_I32_SCALE \in 1..MAX_SCALE /\ p * POWERS[lacks - MAX_I32_SCALE] = m * POWERS[lacks]
<1>1. m \in Nat /\ MAX_I32_SCALE \in Nat /\ MAX_SCALE \in Nat /\ lacks \in 1..PowLimit /\ PowLimit \in Nat
  BY BaseType, ScaleAssumption DEF Mantissa
<1>2. Chunk(lacks) \in 1..PowLimit /\ Chunk(lacks) <= lacks
  BY <1>1, ChunkType
<1>3. POWERS[Chunk(lacks)] \in Nat /\ POWERS[lacks] \in Nat /\ POWERS[Chunk(lacks)] <= POWERS[lacks]
  BY <1>1, <1>2, PowersType, PowersMono
<1>4. m * POWERS[Chunk(lacks)] \in Nat /\ m * POWERS[lacks] \in Nat /\ m * POWERS[Chunk(lacks)] <= m * POWERS[lacks]
  <2> DEFINE u == POWERS[Chunk(lacks)]
  <2> DEFINE v == POWERS[lacks]
  <2>1. u \in Nat /\ v \in Nat /\ u <= v
    BY <1>3
  <2> HIDE DEF u, v
  <2>2. u * m <= v * m /\ u * m = m * u /\ v * m = m * v /\ m * u \in Nat /\ m * v \in Nat
    BY <1>1, <2>1, MulMono, MulAssoc
  <2>3. QED
    BY <2>2 DEF u, v
<1>5. lacks <= MAX_I32_SCALE => Chunk(lacks) = lacks
  BY <1>1, ChunkType
<1>6. ASSUME ~(lacks <= MAX_I32_SCALE)
      PROVE  /\ lacks - MAX_I32_SCALE \in 1..MAX_SCALE
             /\ (m * POWERS[Chunk(lacks)]) * POWERS[lacks - MAX_I32_SCALE] = m * POWERS[lacks]
  <2>1. Chunk(lacks) = MAX_I32_SCALE
    BY <1>1, <1>6, ChunkType
  <2>2. lacks - MAX_I32_SCALE \in 1..MAX_SCALE /\ lacks - MAX_I32_SCALE \in 0..PowLimit /\ MAX_I32_SCALE \in 0..PowLimit
    BY <1>1, <1>6, ScaleAssumption
  <2>3. POWERS[MAX_I32_SCALE + (lacks - MAX_I32_SCALE)] = POWERS[MAX_I32_SCALE] * POWERS[lacks - MAX_I32_SCALE]
    <3> DEFINE e == lacks - MAX_I32_SCALE
    <3>1. e \in 0..PowLimit /\ MAX_I32_SCALE \in 0..PowLimit /\ MAX_I32_SCALE + e <= PowLimit
      BY <1>1, <2>2
    <3> HIDE DEF e
    <3>2. POWERS[MAX_I32_SCALE + e] = POWERS[MAX_I32_SCALE] * POWERS[e]
      BY <3>1, PowersAdd
    <3>3. QED
      BY <3>2 DEF e
  <2>4. MAX_I32_SCALE + (lacks - MAX_I32_SCALE) = lacks
    BY <1>1
  <2>5. POWERS[MAX_I32_SCALE] \in Nat /\ POWERS[lacks - MAX_I32_SCALE] \in Nat
    BY <2>2, PowersType
  <2>6. (m * POWERS[MAX_I32_SCALE]) * POWERS[lacks - MAX_I32_SCALE]
            = m * (POWERS[MAX_I32_SCALE] * POWERS[lacks - MAX_I32_SCALE])
    BY <1>1, <2>5, MulAssoc
  <2>7. QED
    BY <2>1, <2>2, <2>3, <2>4, <2>6
<1>7. QED
  BY <1>4, <1>5, <1>6

LEMMA ComparingInv ==
    ASSUME RemInv, Comparing
    PROVE  RemInv'
<1>1. /\ pc = "comparing" /\ pc' = "comparing" /\ CompareNext /\ call' = call
      /\ UNCHANGED <<pvars, call, d1, d2, scale, buffer, upper, at, cut, result>>
  BY DEF Comparing
<1>2. /\ CallOK /\ order \in Orders /\ left.m \in Mantissa /\ right.m \in Mantissa
      /\ cpc = "scale" => diff \in 1..MAX_SCALE
  BY DEF RemInv, RemTypeOK
<1>3. First' = First /\ Second' = Second /\ Answer' = Answer
  BY <1>1, CallKept
<1>4. First \in Decimal /\ Second \in Decimal
  BY <1>2 DEF CallOK, First, Second
<1>5. /\ First.m \in Mantissa /\ Second.m \in Mantissa
      /\ First.s \in 0..MAX_SCALE /\ Second.s \in 0..MAX_SCALE
  BY <1>4, DecimalType
<1>6. Against(First, Second) \in Nat /\ Against(Second, First) \in Nat
  BY <1>4, AgainstType
<1>7. cpc \in {"scale", "compare"} /\ left = [m |-> left.m, s |-> First.s] /\ right = [m |-> right.m, s |-> Second.s]
      /\ (call.op = "cmp" => call.x.m # 0 /\ call.y.m # 0 /\ call.x.neg = call.y.neg)
  <2>1. cpc \in {"scale", "compare"}
    BY <1>1 DEF CompareNext, ScaleLeft, ScaleRight, CompareWords
  <2>2. QED
    BY <1>1, <2>1 DEF RemInv, ComparePart
<1>8. Answer = InOrder(Against(First, Second), Against(Second, First))
  BY <1>2, <1>7, AnswerIs
<1>9. SUFFICES /\ cpc' \in {"scale", "compare", "ordered"}
               /\ left'.m \in Mantissa /\ right'.m \in Mantissa /\ order' \in Orders
               /\ left' = [m |-> left'.m, s |-> First.s] /\ right' = [m |-> right'.m, s |-> Second.s]
               /\ cpc' = "scale" =>
                      /\ diff' \in 1..MAX_SCALE
                      /\ \/ left'.s < right'.s /\ left'.m * POWERS[diff'] = Against(First, Second) /\ right'.m = Second.m
                         \/ left'.s > right'.s /\ left'.m = First.m /\ right'.m * POWERS[diff'] = Against(Second, First)
               /\ cpc' = "compare" => left'.m = Against(First, Second) /\ right'.m = Against(Second, First)
               /\ cpc' = "ordered" => order' = Answer
  <2>1. RemTypeOK'
    BY <1>1, <1>9 DEF RemInv, RemTypeOK, pvars
  <2>2. CallOK'
    BY <1>1, <1>2, CallKept
  <2>3. FreshPart'
    BY <1>1, <1>9 DEF RemInv, FreshPart
  <2>4. ComparePart'
    BY <1>1, <1>3, <1>7, <1>9 DEF ComparePart
  <2>5. CompareExact'
    <3>1. pc' = "comparing" /\ call' = call
      BY <1>1
    <3>2. Answer = MagnitudeOrder(call.x, call.y) \/ call.op # "rem"
      BY DEF Answer
    <3>3. QED
      BY <1>9, <3>1, <3>2 DEF CompareExact
  <2>6. QED
    BY <1>1, <2>1, <2>2, <2>3, <2>4, <2>5, NotScaling, NotDone DEF RemInv
<1>10. CASE ScaleLeft
  <2> DEFINE p == left.m * POWERS[Chunk(diff)]
  <2>1. /\ cpc = "scale" /\ left.s < right.s /\ UNCHANGED right
        /\ p > Max96 => order' = "Greater" /\ cpc' = "ordered" /\ left' = left
        /\ ~(p > Max96) => /\ diff' = diff - MAX_I32_SCALE /\ order' = order
                           /\ cpc' = (IF diff <= MAX_I32_SCALE THEN "compare" ELSE "scale")
                           /\ left' = [left EXCEPT !.m = p]
    BY <1>10 DEF ScaleLeft, ScalePass, Scaled
  <2>2. /\ left.m * POWERS[diff] = Against(First, Second) /\ right.m = Second.m /\ diff \in 1..MAX_SCALE
    BY <1>1, <1>2, <1>5, <1>7, <2>1 DEF RemInv, ComparePart
  <2>3. /\ p \in Nat /\ p <= Against(First, Second)
        /\ diff <= MAX_I32_SCALE => p = Against(First, Second)
        /\ ~(diff <= MAX_I32_SCALE) =>
               diff - MAX_I32_SCALE \in 1..MAX_SCALE /\ p * POWERS[diff - MAX_I32_SCALE] = Against(First, Second)
    BY <1>2, <2>2, PassScales
  <2>4. Against(Second, First) = Second.m
    BY <1>4, <1>5, <1>7, <2>1, AgainstType
  <2> HIDE DEF p
  <2>5. CASE p > Max96
    <3>1. Against(Second, First) < Against(First, Second)
      BY <1>2, <1>6, <2>2, <2>3, <2>4, <2>5, BaseType DEF Mantissa
    <3>2. Answer = "Greater"
      BY <1>6, <1>8, <3>1, InOrderFacts
    <3>3. QED
      BY <1>2, <1>7, <2>1, <2>5, <3>2 DEF Orders
  <2>6. CASE ~(p > Max96)
    <3>1. p \in Mantissa
      BY <2>3, <2>6, BaseType DEF Mantissa
    <3>2. left' = [m |-> p, s |-> First.s]
      <4>1. left' = [left EXCEPT !.m = p]
        BY <2>1, <2>6
      <4>2. QED
        BY <1>7, <4>1
    <3>3. QED
      BY <1>2, <1>7, <2>1, <2>2, <2>3, <2>4, <2>6, <3>1, <3>2
  <2>7. QED
    BY <2>5, <2>6
<1>11. CASE ScaleRight
  <2> DEFINE p == right.m * POWERS[Chunk(diff)]
  <2>1. /\ cpc = "scale" /\ left.s > right.s /\ UNCHANGED left
        /\ p > Max96 => order' = "Less" /\ cpc' = "ordered" /\ right' = right
        /\ ~(p > Max96) => /\ diff' = diff - MAX_I32_SCALE /\ order' = order
                           /\ cpc' = (IF diff <= MAX_I32_SCALE THEN "compare" ELSE "scale")
                           /\ right' = [right EXCEPT !.m = p]
    BY <1>11 DEF ScaleRight, ScalePass, Scaled
  <2>2. /\ right.m * POWERS[diff] = Against(Second, First) /\ left.m = First.m /\ diff \in 1..MAX_SCALE
    BY <1>1, <1>2, <1>5, <1>7, <2>1 DEF RemInv, ComparePart
  <2>3. /\ p \in Nat /\ p <= Against(Second, First)
        /\ diff <= MAX_I32_SCALE => p = Against(Second, First)
        /\ ~(diff <= MAX_I32_SCALE) =>
               diff - MAX_I32_SCALE \in 1..MAX_SCALE /\ p * POWERS[diff - MAX_I32_SCALE] = Against(Second, First)
    BY <1>2, <2>2, PassScales
  <2>4. Against(First, Second) = First.m
    BY <1>4, <1>5, <1>7, <2>1, AgainstType
  <2> HIDE DEF p
  <2>5. CASE p > Max96
    <3>1. Against(First, Second) < Against(Second, First)
      BY <1>2, <1>6, <2>2, <2>3, <2>4, <2>5, BaseType DEF Mantissa
    <3>2. Answer = "Less"
      BY <1>6, <1>8, <3>1, InOrderFacts
    <3>3. QED
      BY <1>2, <1>7, <2>1, <2>5, <3>2 DEF Orders
  <2>6. CASE ~(p > Max96)
    <3>1. p \in Mantissa
      BY <2>3, <2>6, BaseType DEF Mantissa
    <3>2. right' = [m |-> p, s |-> Second.s]
      <4>1. right' = [right EXCEPT !.m = p]
        BY <2>1, <2>6
      <4>2. QED
        BY <1>7, <4>1
    <3>3. QED
      BY <1>2, <1>7, <2>1, <2>2, <2>3, <2>4, <2>6, <3>1, <3>2
  <2>7. QED
    BY <2>5, <2>6
<1>12. CASE CompareWords
  <2>1. /\ cpc = "compare" /\ cpc' = "ordered" /\ UNCHANGED <<left, right, diff>>
        /\ order' = IF Hi(left.m) # Hi(right.m)
                    THEN (IF Hi(left.m) < Hi(right.m) THEN "Less" ELSE "Greater")
                    ELSE IF Low64(left.m) < Low64(right.m) THEN "Less"
                    ELSE IF Low64(left.m) > Low64(right.m) THEN "Greater" ELSE "Equal"
    BY <1>12 DEF CompareWords
  <2>2. order' = InOrder(left.m, right.m)
    BY <1>2, <2>1, WordsInOrder
  <2>3. left.m = Against(First, Second) /\ right.m = Against(Second, First)
    BY <1>1, <2>1 DEF RemInv, ComparePart
  <2>4. order' = Answer /\ order' \in Orders
    BY <1>6, <1>8, <2>2, <2>3, InOrderFacts
  <2>5. QED
    BY <1>2, <1>7, <2>1, <2>4
<1>13. QED
  BY <1>1, <1>10, <1>11, <1>12 DEF CompareNext

\* Dec64::to_decimal makes a decimal, of no sign if it is zero.
LEMMA DividendType ==
    ASSUME CallOK, NEW d, d.m \in Mantissa, d.s \in 0..MAX_SCALE
    PROVE  /\ Dividend64(d) \in Decimal /\ Dividend64(d).m = d.m /\ Dividend64(d).s = d.s
           /\ Dividend64(d).m # 0 => Dividend64(d).neg = call.x.neg
  BY DecimalType DEF Dividend64, FromParts, Decimal, CallOK

LEMMA RemSmallInv ==
    ASSUME RemInv, RemSmall
    PROVE  RemInv'
<1> DEFINE x == call.x
<1> DEFINE y == call.y
<1>1. /\ pc = "comparing" /\ pc' = "done" /\ call.op = "rem" /\ cpc = "ordered" /\ order # "Greater"
      /\ result' = (IF order = "Equal" THEN ZERO ELSE Dividend64(d1))
      /\ call' = call
      /\ UNCHANGED <<cvars, pvars, call, d1, d2, scale, buffer, upper, at, cut>>
  BY DEF RemSmall
<1>2. /\ CallOK /\ d1 = [m |-> x.m, s |-> x.s] /\ x.m # 0 /\ y.m # 0
  BY <1>1 DEF RemInv, FreshPart
<1>3. x \in Decimal /\ y \in Decimal
  BY <1>2 DEF CallOK
<1>4. order = MagnitudeOrder(x, y) /\ MagnitudeOrder(x, y) = InOrder(Against(x, y), Against(y, x))
  BY <1>1, <1>3, MagnitudeIs DEF RemInv, ComparePart, Answer
<1>5. d1.m \in Mantissa /\ d1.s \in 0..MAX_SCALE
  BY DEF RemInv, RemTypeOK
<1>6. result' \in Decimal
  BY <1>1, <1>2, <1>5, DividendType, ZeroType
<1>7. RemTypeOK'
  BY <1>1, <1>6 DEF RemInv, RemTypeOK, cvars, pvars
<1>8. CallOK' /\ FreshPart'
  BY <1>1, CallKept DEF RemInv, FreshPart, cvars
<1>9. ComparePart' /\ CompareExact'
  BY <1>1, CompareKept
<1>10. RemainderExact'
  <2>1. CASE order = "Equal"
    <3>1. Against(x, y) \in Nat /\ Against(y, x) \in Nat /\ Against(x, y) = Against(y, x)
      <4>1. Against(x, y) \in Nat /\ Against(y, x) \in Nat
        BY <1>3, AgainstType
      <4>2. QED
        BY <1>4, <2>1, <4>1, InOrderFacts
    <3>2. TrueRemainder = Remaining /\ Divisor \in Nat \ {0}
      BY <1>2, TrueRemainderIs
    <3>3. Remaining = 0
      <4>1. Divisor = 1 * Divisor + 0
        BY <3>2
      <4>2. Divisor % Divisor = 0
        BY <3>2, <4>1, QuotientUnique
      <4>3. QED
        BY <3>1, <4>2 DEF Remaining, Divisor
    <3>4. TrueRemainder' = TrueRemainder /\ MagnitudeOrder(call.x, call.y)' = MagnitudeOrder(x, y)
      BY <1>1 DEF TrueRemainder
    <3>5. result' = ZERO /\ result'.m = 0
      BY <1>1, <2>1, ZeroType
    <3>6. QED
      BY <1>1, <1>2, <1>4, <2>1, <3>2, <3>3, <3>4, <3>5 DEF RemainderExact, RemainderIsTrue
  <2>2. CASE order # "Equal"
    <3>1. order = "Less"
      BY <1>1, <2>2 DEF RemInv, RemTypeOK, Orders
    <3>2. result' = Dividend64(d1) /\ Dividend64(d1) = Dividend64(x)
      BY <1>1, <1>2, <2>2 DEF Dividend64
    <3>3. Dividend64(call.x)' = Dividend64(x) /\ MagnitudeOrder(call.x, call.y)' = MagnitudeOrder(x, y)
      BY <1>1 DEF Dividend64
    <3>4. result'.m # 0 => result'.neg = x.neg
      BY <1>2, <1>5, <3>2, DividendType
    <3>5. QED
      BY <1>1, <1>2, <1>4, <3>1, <3>2, <3>3, <3>4 DEF RemainderExact, RemainderIsTrue
  <2>3. QED
    BY <2>1, <2>2
<1>11. QED
  BY <1>1, <1>7, <1>8, <1>9, <1>10, NotScaling DEF RemInv

LEMMA RemLargeInv ==
    ASSUME RemInv, RemLarge
    PROVE  RemInv'
<1> DEFINE x == call.x
<1> DEFINE y == call.y
<1>1. /\ pc = "comparing" /\ call.op = "rem" /\ cpc = "ordered" /\ order = "Greater"
      /\ scale' = d1.s - y.s
      /\ pc' = (IF scale' > 0 THEN "divisor" ELSE IF scale' < 0 THEN "dividend" ELSE "reduce")
      /\ call' = call /\ d1' = d1 /\ d2' = d2
      /\ UNCHANGED <<cvars, pvars, call, d1, d2, buffer, upper, at, cut, result>>
  BY DEF RemLarge
<1>2. /\ CallOK /\ d1 = [m |-> x.m, s |-> x.s] /\ d2 = y.m /\ x.m # 0 /\ y.m # 0
      /\ ~cut /\ buffer = [i \in 0..6 |-> 0]
  BY <1>1 DEF RemInv, FreshPart
<1>3. x \in Decimal /\ y \in Decimal
  BY <1>2 DEF CallOK
<1>4. x.s \in 0..MAX_SCALE /\ y.s \in 0..MAX_SCALE /\ x.m \in Nat /\ y.m \in Nat /\ MAX_SCALE \in Nat
  BY <1>3, DecimalType, ScaleAssumption
<1>5. order = InOrder(Against(x, y), Against(y, x))
  BY <1>1, <1>3, MagnitudeIs DEF RemInv, ComparePart, Answer
<1>6. Divisor < Against(x, y) /\ Divisor \in Nat \ {0} /\ Against(x, y) \in Nat
  <2>1. Against(x, y) \in Nat /\ Against(y, x) \in Nat
    BY <1>3, AgainstType
  <2>2. QED
    BY <1>1, <1>2, <1>5, <2>1, InOrderFacts, TrueRemainderIs DEF Divisor
<1>7. pc' \in {"divisor", "dividend", "reduce"} /\ scale' \in (-MAX_SCALE)..MAX_SCALE /\ scale' = x.s - y.s
  BY <1>1, <1>2, <1>4
<1>8. RemTypeOK'
  BY <1>1, <1>7 DEF RemInv, RemTypeOK, cvars, pvars
<1>9. CallOK' /\ Divisor' = Divisor /\ Remaining' = Remaining /\ LargerScale' = LargerScale
  BY <1>1, <1>2, CallKept
<1>10. FreshPart'
  BY <1>1, <1>2, <1>7 DEF FreshPart
<1>11. ComparePart' /\ CompareExact'
  BY <1>1, <1>7, CompareKept
<1>12. ScalingPart'
  <2>1. (call.x.m # 0 /\ call.y.m # 0 /\ Divisor < Against(call.x, call.y))'
    BY <1>1, <1>2, <1>6, <1>9
  <2>2. CASE scale' > 0
    <3>1. pc' = "divisor" /\ y.s < x.s /\ scale' \in 1..MAX_SCALE
      BY <1>1, <1>4, <1>7, <2>2
    <3>2. d2 * POWERS[scale'] = Divisor
      BY <1>2, <1>3, <1>7, <3>1, AgainstType DEF Divisor
    <3>3. QED
      BY <1>1, <1>2, <1>4, <1>9, <2>1, <3>1, <3>2 DEF ScalingPart
  <2>3. CASE ~(scale' > 0)
    <3>1. x.s <= y.s /\ pc' \in {"dividend", "reduce"} /\ scale' <= 0 /\ -scale' = y.s - x.s
      BY <1>1, <1>4, <1>7, <2>3
    <3>2. Divisor = d2
      BY <1>2, <1>3, <3>1, AgainstType DEF Divisor
    <3>3. d1.m * POWERS[-scale'] = Against(x, y)
      <4>1. CASE x.s < y.s
        BY <1>2, <1>3, <3>1, <4>1, AgainstType
      <4>2. CASE x.s = y.s
        <5>1. -scale' = 0 /\ POWERS[0] = 1
          BY <1>4, <3>1, <4>2, PowersAssumption
        <5>2. Against(x, y) = x.m
          BY <1>3, <1>4, <4>2, AgainstType
        <5>3. QED
          BY <1>2, <1>4, <5>1, <5>2
      <4>3. QED
        BY <1>4, <3>1, <4>1, <4>2
    <3>4. (d1.m * POWERS[-scale']) % d2 = Remaining
      BY <3>2, <3>3 DEF Remaining
    <3>5. pc' = "dividend" => scale' < 0 /\ x.s < y.s
      BY <1>1, <1>4, <1>7, <2>3
    <3>6. pc' = "reduce" => scale' = 0 /\ d1.s = LargerScale
      BY <1>1, <1>2, <1>4, <1>7, <2>3 DEF LargerScale
    <3>7. d2 < d1.m * POWERS[-scale']
      BY <1>6, <3>2, <3>3
    <3>8. /\ d2' = Divisor' /\ scale' <= 0
          /\ (d1'.m * POWERS[-scale']) % d2' = Remaining'
          /\ d2' < d1'.m * POWERS[-scale']
      BY <1>1, <1>9, <3>1, <3>2, <3>4, <3>7
    <3>9. pc' = "reduce" => scale' = 0 /\ d1'.s = LargerScale'
      BY <1>1, <1>9, <3>6
    <3>10. ~(scale' < 0 /\ scale' = 0)
      BY <1>7
    <3>11. QED
      BY <1>1, <2>1, <3>1, <3>5, <3>8, <3>9, <3>10 DEF ScalingPart
  <2>4. QED
    BY <2>2, <2>3
<1>13. QED
  BY <1>7, <1>8, <1>9, <1>10, <1>11, <1>12, NotGrowing, NoWindow, NotDone DEF RemInv

-----------------------------------------------------------------------------
(***************************************************************************)
(* Scaling.                                                                *)
(***************************************************************************)
\* The remainder of a dividend that is larger, once it is reached.
LEMMA ExactAnswer ==
    ASSUME CallOK, call' = call, call.x.m # 0, call.y.m # 0, Divisor < Against(call.x, call.y),
           NEW d, d.m \in Mantissa, d.s \in 0..MAX_SCALE,
           ~cut' => d.m = Remaining, d.s = LargerScale, result' = Dividend64(d)
    PROVE  RemainderExact'
<1> DEFINE x == call.x
<1> DEFINE y == call.y
<1>1. x \in Decimal /\ y \in Decimal
  BY DEF CallOK
<1>2. MagnitudeOrder(x, y) = "Greater"
  <2>1. Against(x, y) \in Nat /\ Against(y, x) \in Nat
    BY <1>1, AgainstType
  <2>2. InOrder(Against(x, y), Against(y, x)) = "Greater"
    BY <2>1, InOrderFacts DEF Divisor
  <2>3. QED
    BY <1>1, <2>2, MagnitudeIs
<1>3. TrueRemainder = Remaining
  BY TrueRemainderIs
<1>4. result'.m = d.m /\ result'.s = d.s /\ (result'.m # 0 => result'.neg = x.neg)
  BY DividendType
<1>5. TrueRemainder' = TrueRemainder /\ MagnitudeOrder(call.x, call.y)' = MagnitudeOrder(x, y)
  BY DEF TrueRemainder
<1>6. LargerScale = (IF x.s > y.s THEN x.s ELSE y.s)
  BY DEF LargerScale
<1>7. QED
  BY <1>2, <1>3, <1>4, <1>5, <1>6 DEF RemainderExact, RemainderIsTrue

\* The divisor stays below the dividend, and so within its three words.
LEMMA ScaleDivisorInv ==
    ASSUME RemInv, ScaleDivisor
    PROVE  RemInv'
<1> DEFINE x == call.x
<1> DEFINE y == call.y
<1> DEFINE p == d2 * POWERS[Chunk(scale)]
<1>1. /\ pc = "divisor" /\ d2' = p % B3
      /\ scale' = (IF scale <= MAX_I32_SCALE THEN 0 ELSE scale - MAX_I32_SCALE)
      /\ pc' = (IF scale' = 0 THEN "reduce" ELSE "divisor")
      /\ call' = call /\ d1' = d1
      /\ UNCHANGED <<cvars, pvars, call, d1, buffer, upper, at, cut, result>>
  BY DEF ScaleDivisor
<1>2. /\ CallOK /\ call.op = "rem" /\ ~cut /\ buffer = [i \in 0..6 |-> 0]
      /\ x.m # 0 /\ y.m # 0 /\ Divisor < Against(x, y)
      /\ x.s > y.s /\ scale \in 1..MAX_SCALE
      /\ d1 = [m |-> x.m, s |-> x.s] /\ d2 * POWERS[scale] = Divisor
      /\ d2 \in Mantissa
  BY <1>1 DEF RemInv, RemTypeOK, FreshPart, ScalingPart
<1>3. x \in Decimal /\ y \in Decimal
  BY <1>2 DEF CallOK
<1>4. x.m \in Mantissa /\ x.s \in 0..MAX_SCALE /\ y.s \in 0..MAX_SCALE /\ MAX_SCALE \in Nat /\ MAX_I32_SCALE \in Nat
  BY <1>3, DecimalType, ScaleAssumption
<1>5. Against(x, y) = x.m
  <2>1. y.s <= x.s
    BY <1>2, <1>4
  <2>2. QED
    BY <1>3, <2>1, AgainstType
<1>6. /\ p \in Nat /\ p <= Divisor
      /\ scale <= MAX_I32_SCALE => p = Divisor
      /\ ~(scale <= MAX_I32_SCALE) =>
             scale - MAX_I32_SCALE \in 1..MAX_SCALE /\ p * POWERS[scale - MAX_I32_SCALE] = Divisor
  BY <1>2, PassScales
<1> HIDE DEF p
<1>7. p < B3 /\ B3 \in Nat \ {0} /\ p \in Mantissa
  BY <1>2, <1>4, <1>5, <1>6, TrueRemainderIs, BaseType DEF Mantissa
<1>8. d2' = p
  <2>1. p = 0 * B3 + p
    BY <1>6, <1>7
  <2>2. p % B3 = p
    BY <1>6, <1>7, <2>1, QuotientUnique
  <2>3. QED
    BY <1>1, <2>2
<1>9. pc' \in {"divisor", "reduce"} /\ scale' \in (-MAX_SCALE)..MAX_SCALE
  BY <1>1, <1>2, <1>4, <1>6
<1>10. RemTypeOK'
  BY <1>1, <1>7, <1>8, <1>9 DEF RemInv, RemTypeOK, cvars, pvars
<1>11. CallOK' /\ Divisor' = Divisor /\ Remaining' = Remaining /\ LargerScale' = LargerScale
  BY <1>1, <1>2, CallKept
<1>12. FreshPart'
  BY <1>1, <1>2, <1>9 DEF FreshPart
<1>13. ComparePart' /\ CompareExact'
  BY <1>1, <1>9, CompareKept
<1>14. ScalingPart'
  <2>1. (call.x.m # 0 /\ call.y.m # 0 /\ Divisor < Against(call.x, call.y))'
    BY <1>1, <1>2, <1>11
  <2>2. CASE scale <= MAX_I32_SCALE
    <3>1. pc' = "reduce" /\ scale' = 0 /\ -scale' = 0 /\ d2' = Divisor
      <4>1. scale' = 0 /\ d2' = Divisor
        BY <1>1, <1>6, <1>8, <2>2
      <4>2. pc' = "reduce"
        BY <1>1, <4>1
      <4>3. -scale' = 0
        <5>1. -scale' = 0 - scale'
          BY <1>9
        <5>2. QED
          BY <4>1, <5>1
      <4>4. QED
        BY <4>1, <4>2, <4>3
    <3>2. x.m * POWERS[0] = x.m
      <4>1. POWERS[0] = 1 /\ x.m \in Nat
        BY <1>3, DecimalType, PowersAssumption
      <4>2. QED
        BY <4>1
    <3>3. x.m % Divisor = Remaining
      BY <1>5 DEF Remaining
    <3>4. d1'.m * POWERS[-scale'] = x.m /\ d1'.s = LargerScale'
      <4>1. LargerScale = x.s
        BY <1>2 DEF LargerScale
      <4>2. QED
        BY <1>1, <1>2, <1>11, <3>1, <3>2, <4>1
    <3>5. (d2 = Divisor)' /\ (d1'.m * POWERS[-scale']) % d2' = Remaining' /\ d2' < d1'.m * POWERS[-scale']
      BY <1>2, <1>5, <1>11, <3>1, <3>3, <3>4
    <3>6. scale' <= 0 /\ ~(scale' < 0)
      BY <3>1
    <3>7. QED
      BY <2>1, <3>1, <3>4, <3>5, <3>6 DEF ScalingPart
  <2>3. CASE ~(scale <= MAX_I32_SCALE)
    <3>1. pc' = "divisor" /\ scale' \in 1..MAX_SCALE /\ d2' * POWERS[scale'] = Divisor
      BY <1>1, <1>4, <1>6, <1>8, <2>3
    <3>2. QED
      BY <1>1, <1>2, <1>11, <2>1, <3>1 DEF ScalingPart
  <2>4. QED
    BY <2>2, <2>3
<1>15. QED
  BY <1>9, <1>10, <1>11, <1>12, <1>13, <1>14, NotGrowing, NoWindow, NotDone DEF RemInv

\* The dividend takes as many digits as fit, and none that it does not lack.
LEMMA ScaleDividendInv ==
    ASSUME RemInv, ScaleDividend
    PROVE  RemInv'
<1> DEFINE x == call.x
<1> DEFINE y == call.y
<1> DEFINE k == FindScale(d1.m, MAX_SCALE + scale)
<1> DEFINE p == d1.m * POWERS[k]
<1>1. /\ pc = "dividend" /\ k # None
      /\ scale' = scale + k
      /\ pc' = (IF k # MAX_I32_SCALE \/ scale' >= 0 THEN "reduce" ELSE "dividend")
      /\ d1' = [m |-> p % B3, s |-> IF pc' = "reduce" THEN y.s ELSE d1.s]
      /\ call' = call /\ d2' = d2
      /\ UNCHANGED <<cvars, pvars, call, d2, buffer, upper, at, cut, result>>
  BY DEF ScaleDividend
<1>2. /\ CallOK /\ call.op = "rem" /\ ~cut /\ buffer = [i \in 0..6 |-> 0]
      /\ x.m # 0 /\ y.m # 0 /\ Divisor < Against(x, y)
      /\ d2 = Divisor /\ scale < 0 /\ x.s < y.s
      /\ (d1.m * POWERS[-scale]) % d2 = Remaining
      /\ d2 < Base \/ d2 < d1.m * POWERS[-scale]
      /\ d1.m \in Mantissa /\ d1.s \in 0..MAX_SCALE /\ scale \in (-MAX_SCALE)..MAX_SCALE
  BY <1>1 DEF RemInv, RemTypeOK, FreshPart, ScalingPart
<1>3. x \in Decimal /\ y \in Decimal
  BY <1>2 DEF CallOK
<1>4. /\ y.s \in 0..MAX_SCALE /\ x.s \in 0..MAX_SCALE
      /\ MAX_SCALE \in Nat /\ MAX_I32_SCALE \in Nat /\ PowLimit \in Nat /\ MAX_SCALE <= PowLimit
      /\ MAX_I32_SCALE <= MAX_SCALE /\ MAX_I32_SCALE + 1 <= PowLimit
  BY <1>3, DecimalType, ScaleAssumption
<1>5. MAX_SCALE + scale \in (-MAX_SCALE)..(MAX_SCALE - 1) /\ MAX_SCALE + scale >= 0
  BY <1>2, <1>4
<1>6. Largest(k, d1.m, MAX_SCALE + scale)
  BY <1>1, <1>2, <1>5, FindScaleFacts
<1> HIDE DEF k
<1>7. /\ k \in 0..MAX_I32_SCALE /\ scale + k <= 0 /\ p <= Max96
      /\ k = MAX_I32_SCALE \/ scale + k = 0 \/ Max96 < d1.m * POWERS[k + 1]
  BY <1>2, <1>4, <1>6 DEF Largest
<1>8. /\ k \in 0..PowLimit /\ POWERS[k] \in Nat \ {0} /\ d1.m \in Nat
      /\ -scale' \in 0..MAX_SCALE /\ -scale' \in 0..PowLimit /\ -scale = k + (-scale')
      /\ scale' \in (-MAX_SCALE)..MAX_SCALE
  <2>1. k \in 0..PowLimit
    BY <1>4, <1>7
  <2>2. scale' = scale + k /\ k \in Nat /\ scale \in Int
    BY <1>1, <1>2, <1>7
  <2>3. d1.m \in Nat /\ POWERS[k] \in Nat \ {0}
    BY <1>2, <2>1, PowersType, BaseType DEF Mantissa
  <2>4. QED
    BY <1>2, <1>4, <1>7, <2>1, <2>2, <2>3
<1>9. p \in Mantissa /\ d1'.m = p
  <2>1. p \in Nat
    BY <1>8
  <2>2. B3 \in Nat \ {0} /\ p < B3
    BY <1>7, <2>1, BaseType
  <2> HIDE DEF p
  <2>3. p = 0 * B3 + p
    BY <2>1, <2>2
  <2>4. p % B3 = p
    BY <2>1, <2>2, <2>3, QuotientUnique
  <2>5. QED
    BY <1>1, <1>7, <2>1, <2>4 DEF Mantissa
<1>10. d1'.m * POWERS[-scale'] = d1.m * POWERS[-scale]
  <2> DEFINE j == -scale'
  <2>1. j \in 0..PowLimit /\ k + j <= PowLimit /\ -scale = k + j
    BY <1>2, <1>4, <1>8
  <2> HIDE DEF j
  <2>2. POWERS[k + j] = POWERS[k] * POWERS[j] /\ POWERS[j] \in Nat
    BY <1>8, <2>1, PowersAdd, PowersType
  <2>3. (d1.m * POWERS[k]) * POWERS[j] = d1.m * (POWERS[k] * POWERS[j])
    BY <1>8, <2>2, MulAssoc
  <2>4. QED
    BY <1>9, <2>1, <2>2, <2>3 DEF j
<1>11. pc' \in {"dividend", "reduce"} /\ d1'.s \in 0..MAX_SCALE /\ d1' = [m |-> d1'.m, s |-> d1'.s]
  BY <1>1, <1>2, <1>4
<1>12. RemTypeOK'
  BY <1>1, <1>8, <1>9, <1>11 DEF RemInv, RemTypeOK, cvars, pvars
<1>13. CallOK' /\ Divisor' = Divisor /\ Remaining' = Remaining /\ LargerScale' = LargerScale
  BY <1>1, <1>2, CallKept
<1>14. FreshPart'
  BY <1>1, <1>2, <1>11 DEF FreshPart
<1>15. ComparePart' /\ CompareExact'
  BY <1>1, <1>11, CompareKept
<1>16. pc' = "reduce" /\ scale' < 0 => Hi(d1'.m) # 0
  <2>1. SUFFICES ASSUME pc' = "reduce", scale' < 0, Hi(d1'.m) = 0
                 PROVE  FALSE
    OBVIOUS
  <2>2. k # MAX_I32_SCALE /\ k < MAX_I32_SCALE
    BY <1>1, <1>4, <1>7, <1>8, <2>1
  <2>3. Max96 < d1.m * POWERS[k + 1]
    BY <1>1, <1>7, <1>8, <2>1, <2>2
  <2>4. d1.m * POWERS[k + 1] = p * Ten
    <3>1. POWERS[k + 1] = POWERS[k] * POWERS[1] /\ POWERS[1] = Ten /\ Ten \in Nat
      <4>1. 1 \in 0..PowLimit /\ k + 1 <= PowLimit
        BY <1>4, <1>7
      <4>2. QED
        BY <1>8, <4>1, PowersAdd, PowersAssumption, BaseAssumption
    <3>2. (d1.m * POWERS[k]) * Ten = d1.m * (POWERS[k] * Ten)
      BY <1>8, <3>1, MulAssoc
    <3>3. QED
      BY <3>1, <3>2
  <2>5. p < B2 /\ p \in Nat
    <3>1. Hi(p) = 0 /\ p = Hi(p) * B2 + Low64(p) /\ Low64(p) \in 0..(B2 - 1)
      BY <1>9, <2>1, HighLow
    <3>2. QED
      BY <3>1, BaseType
  <2> HIDE DEF p
  <2>6. p * Ten <= B2 * Ten /\ Ten * B2 <= Base * B2 /\ B2 * Ten = Ten * B2
    BY <2>5, BaseType, BaseAssumption, MulMono, MulAssoc
  <2>7. p + 1 <= B2 /\ (p + 1) * Ten <= B2 * Ten /\ (p + 1) * Ten = p * Ten + 1 * Ten
    BY <2>5, BaseType, BaseAssumption, MulMono, Distribute
  <2>8. B3 = Base * B2 /\ p * Ten \in Nat /\ B2 * Ten \in Nat /\ Base * B2 \in Nat /\ 1 * Ten >= 1
    BY <2>5, BaseType, BaseAssumption DEF B2, B3
  <2>9. Max96 = B3 - 1 /\ B3 \in Nat
    BY BaseType
  <2>10. p * Ten < B3
    <3> DEFINE u == p * Ten
    <3> DEFINE v == B2 * Ten
    <3> DEFINE w == Base * B2
    <3>1. u \in Nat /\ v \in Nat /\ w \in Nat /\ v <= w /\ B3 = w
      BY <2>6, <2>8
    <3>2. u + 1 * Ten <= v /\ Ten \in Nat /\ Ten >= 1
      BY <2>7, BaseAssumption
    <3> HIDE DEF u, v, w
    <3>3. u < B3
      BY <3>1, <3>2
    <3>4. QED
      BY <3>3 DEF u
  <2>11. QED
    BY <2>3, <2>4, <2>8, <2>9, <2>10
<1>17. ScalingPart'
  <2>1. (call.x.m # 0 /\ call.y.m # 0 /\ Divisor < Against(call.x, call.y))'
    BY <1>1, <1>2, <1>13
  <2>2. /\ d2' = Divisor' /\ scale' <= 0
        /\ (d1'.m * POWERS[-scale']) % d2' = Remaining'
        /\ d2' < Base \/ d2' < d1'.m * POWERS[-scale']
    BY <1>1, <1>2, <1>7, <1>10, <1>13
  <2>3. pc' = "dividend" => scale' < 0
    BY <1>1, <1>8
  <2>4. (call.x.s < call.y.s)'
    BY <1>1, <1>2
  <2>5. pc' = "reduce" => d1'.s = LargerScale'
    <3>1. LargerScale = y.s
      BY <1>2, <1>4 DEF LargerScale
    <3>2. QED
      BY <1>1, <1>13, <3>1
  <2>6. pc' = "reduce" /\ Hi(d1'.m) = 0 => scale' = 0
    BY <1>8, <1>16, <2>2
  <2>7. QED
    BY <1>11, <2>1, <2>2, <2>3, <2>4, <2>5, <2>6 DEF ScalingPart
<1>18. QED
  BY <1>11, <1>12, <1>13, <1>14, <1>15, <1>17, NotGrowing, NoWindow, NotDone DEF RemInv

\* A dividend of two words: the divisor, which is smaller, has no third one.
LEMMA ReduceLowInv ==
    ASSUME RemInv, ReduceLow
    PROVE  RemInv'
<1> DEFINE x == call.x
<1> DEFINE y == call.y
<1> DEFINE d == [d1 EXCEPT !.m = @ % Low64(d2)]
<1>1. /\ pc = "reduce" /\ pc' = "done" /\ Hi(d1.m) = 0 /\ result' = Dividend64(d) /\ call' = call
      /\ UNCHANGED <<cvars, pvars, call, d1, d2, scale, buffer, upper, at, cut>>
  BY DEF ReduceLow
<1>2. /\ CallOK /\ call.op = "rem"
      /\ x.m # 0 /\ y.m # 0 /\ Divisor < Against(x, y)
      /\ d2 = Divisor /\ scale = 0 /\ d1.s = LargerScale
      /\ (d1.m * POWERS[-scale]) % d2 = Remaining
      /\ d2 < Base \/ d2 < d1.m * POWERS[-scale]
      /\ d1 = [m |-> d1.m, s |-> d1.s]
      /\ d1.m \in Mantissa /\ d1.s \in 0..MAX_SCALE
  BY <1>1 DEF RemInv, RemTypeOK, FreshPart, ScalingPart
<1>3. d1.m \in Nat /\ d1.m < B2 /\ B2 \in Nat \ {0} /\ Base < B2 /\ Base \in Nat
  <2>1. d1.m = Hi(d1.m) * B2 + Low64(d1.m) /\ Low64(d1.m) \in 0..(B2 - 1)
    BY <1>2, HighLow
  <2>2. QED
    BY <1>1, <2>1, BaseType
<1>4. d1.m * POWERS[-scale] = d1.m
  <2>1. POWERS[0] = 1
    BY PowersAssumption
  <2>2. -scale = 0 - scale
    <3>1. scale \in Int
      BY DEF RemInv, RemTypeOK
    <3>2. \A i \in Int : -i = 0 - i
      OBVIOUS
    <3>3. QED
      BY <3>1, <3>2
  <2>3. 0 - scale = 0
    BY <1>2
  <2>4. POWERS[-scale] = 1
    BY <2>1, <2>2, <2>3
  <2>5. QED
    BY <1>3, <2>4
<1>5. d2 \in Nat \ {0} /\ d2 < B2
  <2>1. d2 \in Nat \ {0}
    BY <1>2, TrueRemainderIs
  <2>2. QED
    BY <1>2, <1>3, <1>4, <2>1
<1>6. Low64(d2) = d2
  <2>1. d2 = 0 * B2 + d2
    BY <1>3, <1>5
  <2>2. QED
    BY <1>3, <1>5, <2>1, QuotientUnique DEF Low64
<1>7. d = [m |-> d1.m % d2, s |-> d1.s]
  BY <1>2, <1>6
<1>8. d.m = Remaining /\ d.s = LargerScale /\ d.m \in Mantissa /\ d.s \in 0..MAX_SCALE
  <2>1. d.m = d1.m % d2 /\ d.s = d1.s
    BY <1>7
  <2>2. Remaining \in Nat /\ Remaining < Divisor
    BY <1>2, TrueRemainderIs
  <2>3. d.m = Remaining
    BY <1>2, <1>4, <2>1
  <2>4. Remaining \in Mantissa
    BY <1>2, <1>3, <1>5, <2>2, BaseType DEF Mantissa
  <2>5. QED
    BY <1>2, <2>1, <2>3, <2>4
<1> HIDE DEF d
<1>9. RemainderExact'
  BY <1>1, <1>2, <1>8, ExactAnswer
<1>10. RemTypeOK'
  <2>1. result' \in Decimal
    BY <1>1, <1>2, <1>8, DividendType
  <2>2. QED
    BY <1>1, <2>1 DEF RemInv, RemTypeOK, cvars, pvars
<1>11. CallOK' /\ FreshPart'
  BY <1>1, CallKept DEF RemInv, FreshPart
<1>12. ComparePart' /\ CompareExact'
  BY <1>1, CompareKept
<1>13. QED
  BY <1>1, <1>9, <1>10, <1>11, <1>12, NotScaling DEF RemInv

\* The remainder by one word stands for the dividend.
LEMMA ReduceWordInv ==
    ASSUME RemInv, ReduceWord
    PROVE  RemInv'
<1> DEFINE x == call.x
<1> DEFINE y == call.y
<1> DEFINE r == d1.m % d2
<1>1. /\ pc = "reduce" /\ d2 < Base
      /\ d1' = [d1 EXCEPT !.m = @ % d2]
      /\ scale < 0 => pc' = "dividend" /\ result' = result
      /\ ~(scale < 0) => pc' = "done" /\ result' = Dividend64(d1')
      /\ call' = call /\ d2' = d2 /\ scale' = scale
      /\ UNCHANGED <<cvars, pvars, call, d2, scale, buffer, upper, at, cut>>
  BY DEF ReduceWord
<1>2. /\ CallOK /\ call.op = "rem" /\ ~cut /\ buffer = [i \in 0..6 |-> 0]
      /\ x.m # 0 /\ y.m # 0 /\ Divisor < Against(x, y)
      /\ d2 = Divisor /\ scale <= 0 /\ d1.s = LargerScale
      /\ scale < 0 => x.s < y.s
      /\ (d1.m * POWERS[-scale]) % d2 = Remaining
      /\ d1 = [m |-> d1.m, s |-> d1.s]
      /\ d1.m \in Mantissa /\ d1.s \in 0..MAX_SCALE /\ scale \in (-MAX_SCALE)..MAX_SCALE
  BY <1>1 DEF RemInv, RemTypeOK, FreshPart, ScalingPart
<1>3. d2 \in Nat \ {0} /\ d1.m \in Nat /\ Base < B3 /\ Base \in Nat
  BY <1>2, TrueRemainderIs, BaseType DEF Mantissa
<1>4. d1' = [m |-> r, s |-> d1.s]
  BY <1>1, <1>2
<1>5. r \in Mantissa /\ r \in Nat
  <2>1. r \in Nat /\ r < d2
    BY <1>3, DivMod
  <2>2. QED
    BY <1>1, <1>3, <2>1, BaseType DEF Mantissa
<1>6. CallOK' /\ Divisor' = Divisor /\ Remaining' = Remaining /\ LargerScale' = LargerScale
  BY <1>1, <1>2, CallKept
<1>7. POWERS[-scale] \in Nat
  <2>1. -scale \in 0..PowLimit
    BY <1>2, ScaleAssumption
  <2>2. QED
    BY <2>1, PowersType
<1>8. (r * POWERS[-scale]) % d2 = Remaining
  <2> DEFINE c == POWERS[-scale]
  <2>1. c \in Nat
    BY <1>7
  <2> HIDE DEF c
  <2>2. ((d1.m % d2) * c) % d2 = (d1.m * c) % d2
    BY <1>3, <2>1, ModProduct
  <2>3. QED
    BY <1>2, <2>2 DEF c
<1>9. pc' \in {"dividend", "done"}
  BY <1>1
<1>10. ComparePart' /\ CompareExact'
  BY <1>1, <1>9, CompareKept
<1> HIDE DEF r
<1>11. d1'.m = r /\ d1'.s = d1.s
  BY <1>4
<1>12. CASE scale < 0
  <2>1. RemTypeOK'
    BY <1>1, <1>2, <1>5, <1>11, <1>12 DEF RemInv, RemTypeOK, cvars, pvars
  <2>2. FreshPart'
    BY <1>1, <1>2, <1>4, <1>12 DEF FreshPart
  <2>3. ScalingPart'
    <3>1. (call.x.m # 0 /\ call.y.m # 0 /\ Divisor < Against(call.x, call.y) /\ call.x.s < call.y.s)'
      BY <1>1, <1>2, <1>6, <1>12
    <3>2. pc' = "dividend" /\ scale' < 0 /\ scale' <= 0
      BY <1>1, <1>2, <1>12
    <3>3. d2' = Divisor' /\ (d1'.m * POWERS[-scale'])% d2' = Remaining' /\ d2' < Base
      BY <1>1, <1>2, <1>6, <1>8, <1>11
    <3>4. QED
      BY <3>1, <3>2, <3>3 DEF ScalingPart
  <2>4. QED
    BY <1>1, <1>6, <1>10, <1>12, <2>1, <2>2, <2>3, NotGrowing, NoWindow, NotDone DEF RemInv
<1>13. CASE ~(scale < 0)
  <2>1. pc' = "done" /\ result' = Dividend64(d1')
    BY <1>1, <1>13
  <2>2. r * POWERS[-scale] = r
    <3>1. -scale = 0 - scale
      <4>1. \A i \in Int : -i = 0 - i
        OBVIOUS
      <4>2. QED
        BY <1>2, <4>1
    <3>2. 0 - scale = 0
      BY <1>2, <1>13
    <3>3. POWERS[-scale] = 1
      BY <3>1, <3>2, PowersAssumption
    <3>4. QED
      BY <1>5, <3>3
  <2>3. r = Remaining
    <3>1. r < d2
      BY <1>3, DivMod DEF r
    <3>2. r % d2 = r
      <4>1. r = 0 * d2 + r
        BY <1>3, <1>5
      <4>2. QED
        BY <1>3, <1>5, <3>1, <4>1, QuotientUnique
    <3>3. QED
      BY <1>8, <2>2, <3>2
  <2>4. RemainderExact'
    <3> DEFINE d == d1'
    <3>1. d.m \in Mantissa /\ d.s \in 0..MAX_SCALE /\ d.m = Remaining /\ d.s = LargerScale /\ result' = Dividend64(d)
      BY <1>2, <1>5, <1>11, <2>1, <2>3
    <3> HIDE DEF d
    <3>2. QED
      BY <1>1, <1>2, <3>1, ExactAnswer
  <2>5. result' \in Decimal
    BY <1>2, <1>5, <1>11, <2>1, DividendType
  <2>6. RemTypeOK'
    BY <1>1, <1>2, <1>5, <1>11, <2>1, <2>5 DEF RemInv, RemTypeOK, cvars, pvars
  <2>7. FreshPart'
    BY <1>1, <1>2, <1>4, <2>1 DEF FreshPart
  <2>8. QED
    BY <1>6, <1>10, <2>1, <2>4, <2>6, <2>7, NotScaling DEF RemInv
<1>14. QED
  BY <1>12, <1>13

-----------------------------------------------------------------------------
(***************************************************************************)
(* The passes over the buffer.                                             *)
(***************************************************************************)
\* What a pass makes of the j words at the top, with what is carried into them.
Carry(power, j)  == IF j = 7 THEN 0 ELSE Product(power)[6 - j] \div Base
Passed(power, j) == From(buffer)[j] * power + Carry(power, j)

LEMMA PassStep ==
    ASSUME NEW f \in Nat, NEW w \in Nat, NEW power \in Nat, NEW c \in Nat, NEW y \in Nat, y = w * power + c
    PROVE  (f * Base + w) * power + c = (f * power + (y \div Base)) * Base + (y % Base)
<1>1. Base \in Nat \ {0}
  BY BaseType
<1>2. y \div Base \in Nat /\ y % Base \in Nat /\ y = (y \div Base) * Base + (y % Base)
  BY <1>1, DivMod
<1> DEFINE q == y \div Base
<1> DEFINE r == y % Base
<1>3. q \in Nat /\ r \in Nat /\ y = q * Base + r
  BY <1>2
<1> HIDE DEF q, r
<1>4. (f * Base + w) * power = (f * Base) * power + w * power /\ (f * Base) * power \in Int /\ w * power \in Int
  BY <1>1, Distribute
<1>5. (f * power + q) * Base = (f * power) * Base + q * Base /\ (f * power) * Base \in Int /\ q * Base \in Int
  BY <1>1, <1>3, Distribute
<1>6. (f * Base) * power = (f * power) * Base
  <2>1. (f * Base) * power = f * (Base * power) /\ (f * power) * Base = f * (power * Base) /\ Base * power = power * Base
    BY <1>1, MulAssoc
  <2>2. QED
    BY <2>1
<1> DEFINE u == (f * Base) * power
<1> DEFINE v == w * power
<1> DEFINE z == q * Base
<1>7. u \in Int /\ v \in Int /\ z \in Int /\ y = v + c /\ y = z + r
  BY <1>3, <1>4, <1>5
<1>8. (f * Base + w) * power = u + v /\ (f * power + q) * Base = u + z
  BY <1>4, <1>5, <1>6
<1> HIDE DEF u, v, z
<1>9. (f * Base + w) * power + c = (f * power + q) * Base + r
  BY <1>3, <1>7, <1>8
<1>10. QED
  BY <1>9 DEF q, r

LEMMA PassedSteps ==
    ASSUME NEW power \in Nat, buffer \in [0..6 -> Word]
    PROVE  /\ \A j \in 0..7 : Passed(power, j) \in Nat
           /\ Passed(power, 0) = Product(power)[6] \div Base
           /\ \A j \in 1..7 : Passed(power, j) = Passed(power, j - 1) * Base + (Product(power)[7 - j] % Base)
           /\ Passed(power, 7) = Value(buffer) * power
<1>1. Base \in Nat \ {0}
  BY BaseType
<1>2. \A i \in 0..6 : Product(power)[i] \in Nat /\ buffer[i] \in Nat /\ buffer[i] * power \in Nat
  <2>1. \A i \in 0..6 : buffer[i] \in Nat
    BY <1>1 DEF Word
  <2>2. \A i \in 0..6 : Product(power)[i] \in Nat
    BY ProductSteps
  <2>3. QED
    BY <2>1, <2>2, \A u, v \in Nat : u * v \in Nat
<1>3. /\ From(buffer)[0] = 0
      /\ \A j \in 1..7 : From(buffer)[j] = From(buffer)[j - 1] * Base + buffer[7 - j]
      /\ \A j \in 0..7 : From(buffer)[j] \in Nat
  <2>1. buffer \in [0..6 -> Nat]
    BY <1>2
  <2>2. QED
    BY <2>1, FromSteps
<1>4. /\ Product(power)[0] = buffer[0] * power
      /\ \A i \in 1..6 : Product(power)[i] = buffer[i] * power + (Product(power)[i - 1] \div Base)
  BY ProductSteps
<1>5. \A j \in 0..7 : Carry(power, j) \in Nat
  <2>1. ASSUME NEW j \in 0..7, j # 7 PROVE Product(power)[6 - j] \div Base \in Nat
    <3>1. 6 - j \in 0..6
      BY <2>1
    <3>2. Product(power)[6 - j] \in Nat
      BY <1>2, <3>1
    <3>3. QED
      BY <1>1, <3>2, DivMod
  <2>2. QED
    BY <2>1 DEF Carry
<1>6. \A j \in 0..7 : Passed(power, j) \in Nat
  <2>1. ASSUME NEW j \in 0..7 PROVE Passed(power, j) \in Nat
    <3>1. From(buffer)[j] * power \in Nat
      BY <1>3, \A u, v \in Nat : u * v \in Nat
    <3>2. QED
      BY <1>5, <3>1 DEF Passed
  <2>2. QED
    BY <2>1
<1>7. Passed(power, 0) = Product(power)[6] \div Base
  <2>1. Carry(power, 0) = Product(power)[6] \div Base
    BY DEF Carry
  <2>2. Carry(power, 0) \in Nat
    BY <1>5
  <2>3. Passed(power, 0) = 0 * power + Carry(power, 0)
    BY <1>3 DEF Passed
  <2>4. QED
    BY <2>1, <2>2, <2>3
<1>8. ASSUME NEW j \in 1..7
      PROVE  Passed(power, j) = Passed(power, j - 1) * Base + (Product(power)[7 - j] % Base)
  <2> DEFINE f == From(buffer)[j - 1]
  <2> DEFINE w == buffer[7 - j]
  <2> DEFINE y == Product(power)[7 - j]
  <2> DEFINE c == Carry(power, j)
  <2>1. j \in 0..7 /\ j - 1 \in 0..7 /\ 7 - j \in 0..6 /\ j - 1 # 7 /\ 6 - (j - 1) = 7 - j
    OBVIOUS
  <2>2. f \in Nat /\ w \in Nat /\ y \in Nat /\ c \in Nat
    BY <1>2, <1>3, <1>5, <2>1
  <2>3. y = w * power + c
    <3>1. CASE j = 7
      <4>1. y = buffer[0] * power /\ c = 0 /\ w = buffer[0]
        BY <1>4, <3>1 DEF Carry
      <4>2. QED
        BY <1>2, <4>1
    <3>2. CASE j # 7
      <4>1. 7 - j \in 1..6 /\ (7 - j) - 1 = 6 - j
        BY <3>2
      <4>2. c = Product(power)[6 - j] \div Base
        BY <3>2 DEF Carry
      <4>3. QED
        BY <1>4, <4>1, <4>2
    <3>3. QED
      BY <3>1, <3>2
  <2>4. Passed(power, j) = (f * Base + w) * power + c
    BY <1>3 DEF Passed
  <2>5. Passed(power, j - 1) = f * power + (y \div Base)
    <3>1. Carry(power, j - 1) = Product(power)[6 - (j - 1)] \div Base
      BY <2>1 DEF Carry
    <3>2. QED
      BY <2>1, <3>1 DEF Passed
  <2> HIDE DEF f, w, y, c
  <2>6. (f * Base + w) * power + c = (f * power + (y \div Base)) * Base + (y % Base)
    BY <2>2, <2>3, PassStep
  <2>7. QED
    BY <2>4, <2>5, <2>6 DEF y
<1>9. Passed(power, 7) = Value(buffer) * power
  <2>1. From(buffer)[7] * power \in Nat
    BY <1>3, \A u, v \in Nat : u * v \in Nat
  <2>2. QED
    BY <2>1 DEF Passed, Carry, Value
<1>10. QED
  BY <1>6, <1>7, <1>8, <1>9

\* A product of seven words whose top bit is clear.
LEMMA PassedTop ==
    ASSUME NEW power \in Nat, buffer \in [0..6 -> Word], 2 * (Value(buffer) * power) < B3 * B3 * Base
    PROVE  2 * Product(power)[6] < Base
<1> DEFINE P(j) == Passed(power, j)
<1> DEFINE y == Product(power)[6]
<1>1. Base \in Nat \ {0} /\ B2 \in Nat /\ B3 \in Nat \ {0} /\ B3 = B2 * Base /\ B2 = Base * Base
  BY BaseType DEF B2, B3
<1>2. /\ \A j \in 0..7 : P(j) \in Nat
      /\ P(0) = y \div Base
      /\ \A j \in 1..7 : P(j) = P(j - 1) * Base + (Product(power)[7 - j] % Base)
      /\ P(7) = Value(buffer) * power
  BY PassedSteps
<1>3. \A i \in 0..6 : Product(power)[i] \in Nat /\ Product(power)[i] % Base \in Nat
  <2>1. \A i \in 0..6 : Product(power)[i] \in Nat
    BY ProductSteps
  <2>2. QED
    BY <1>1, <2>1, DivMod
<1>4. P(1) = y
  <2>1. P(1) = P(0) * Base + (y % Base)
    <3>1. 1 \in 1..7 /\ 1 - 1 = 0 /\ 7 - 1 = 6
      OBVIOUS
    <3>2. QED
      BY <1>2, <3>1
  <2>2. y \in Nat
    BY <1>3
  <2> HIDE DEF y, P
  <2>3. y = (y \div Base) * Base + (y % Base)
    BY <1>1, <2>2, DivMod
  <2>4. QED
    BY <1>2, <2>1, <2>3
<1>5. \A j \in 1..7 : P(j - 1) * Base <= P(j) /\ P(j - 1) * Base \in Nat
  <2>1. ASSUME NEW j \in 1..7 PROVE P(j - 1) * Base <= P(j) /\ P(j - 1) * Base \in Nat
    <3>1. P(j - 1) \in Nat /\ Product(power)[7 - j] % Base \in Nat
      <4>1. j - 1 \in 0..7 /\ 7 - j \in 0..6
        OBVIOUS
      <4>2. QED
        BY <1>2, <1>3, <4>1
    <3>2. P(j - 1) * Base \in Nat
      BY <1>1, <3>1, \A u, v \in Nat : u * v \in Nat
    <3>3. P(j) = P(j - 1) * Base + (Product(power)[7 - j] % Base)
      BY <1>2
    <3> HIDE DEF P
    <3>4. QED
      BY <3>1, <3>2, <3>3
  <2>2. QED
    BY <2>1
<1>6. /\ P(1) * Base <= P(2) /\ P(2) * Base <= P(3) /\ P(3) * Base <= P(4)
      /\ P(4) * Base <= P(5) /\ P(5) * Base <= P(6) /\ P(6) * Base <= P(7)
  <2>1. P(2 - 1) * Base <= P(2) /\ P(3 - 1) * Base <= P(3) /\ P(4 - 1) * Base <= P(4)
    BY <1>5
  <2>2. P(5 - 1) * Base <= P(5) /\ P(6 - 1) * Base <= P(6) /\ P(7 - 1) * Base <= P(7)
    BY <1>5
  <2>3. QED
    BY <2>1, <2>2
<1>7. P(1) \in Nat /\ P(2) \in Nat /\ P(3) \in Nat /\ P(4) \in Nat /\ P(5) \in Nat /\ P(6) \in Nat /\ P(7) \in Nat
  BY <1>2
<1> HIDE DEF P
<1>8. \A a, b, c, d \in Nat : a * Base <= b /\ b * Base <= c /\ c * Base <= d => a * B3 <= d
  <2>1. SUFFICES ASSUME NEW a \in Nat, NEW b \in Nat, NEW c \in Nat, NEW d \in Nat,
                        a * Base <= b, b * Base <= c, c * Base <= d
                 PROVE  a * B3 <= d
    OBVIOUS
  <2>2. (a * Base) * Base <= b * Base /\ (a * Base) * Base = a * B2 /\ a * Base \in Int
    BY <1>1, <2>1, MulMono, MulAssoc
  <2>3. (a * B2) * Base <= c * Base /\ (a * B2) * Base = a * B3
    <3>1. a * B2 \in Int
      BY <1>1
    <3>2. a * B2 <= c
      <4>1. b * Base \in Int
        BY <1>1
      <4>2. QED
        BY <2>1, <2>2, <3>1, <4>1
    <3>3. QED
      BY <1>1, <3>1, <3>2, MulMono, MulAssoc
  <2>4. a * B3 \in Int /\ c * Base \in Int
    BY <1>1
  <2>5. QED
    BY <2>1, <2>3, <2>4
<1>9. P(1) * B3 <= P(4)
  BY <1>6, <1>7, <1>8
<1>10. P(4) * B3 <= P(7)
  BY <1>6, <1>7, <1>8
<1>11. P(1) * B3 * B3 <= P(7)
  <2>1. (P(1) * B3) * B3 <= P(4) * B3 /\ (P(1) * B3) * B3 \in Int /\ P(4) * B3 \in Int
    <3>1. P(1) * B3 \in Int
      BY <1>1, <1>7
    <3>2. QED
      BY <1>1, <1>7, <1>9, <3>1, MulMono
  <2>2. QED
    BY <1>7, <1>10, <2>1
<1>12. 2 * P(1) < Base
  <2> DEFINE c == B3 * B3
  <2>1. c \in Nat \ {0}
    BY <1>1
  <2>2. P(1) * B3 * B3 = P(1) * c
    BY <1>1, <1>7, MulAssoc
  <2>3. B3 * B3 * Base = Base * c
    BY <1>1, <2>1, MulAssoc
  <2> HIDE DEF c
  <2>4. P(1) * c \in Int /\ (2 * P(1)) * c = 2 * (P(1) * c) /\ 2 * P(1) \in Int
    BY <1>7, <2>1, MulAssoc
  <2>5. (2 * P(1)) * c < Base * c
    <3>1. 2 * P(7) < Base * c
      BY <1>2, <2>3
    <3>2. Base * c \in Int
      BY <1>1, <2>1
    <3>3. QED
      BY <1>7, <1>11, <2>2, <2>4, <3>1, <3>2
  <2>6. QED
    BY <1>1, <2>1, <2>4, <2>5, Cancel
<1>13. QED
  BY <1>4, <1>12

\* The words that a pass leaves are those of the product.
LEMMA PassedWords ==
    ASSUME NEW power \in Nat, buffer \in [0..6 -> Word], Product(power)[6] < Base,
           NEW b \in [0..6 -> Word], \A i \in 0..6 : b[i] = Product(power)[i] % Base
    PROVE  Value(b) = Value(buffer) * power
<1>1. Base \in Nat \ {0} /\ Product(power)[6] \in Nat
  BY BaseType, ProductSteps
<1>2. /\ From(b)[0] = 0
      /\ \A j \in 1..7 : From(b)[j] = From(b)[j - 1] * Base + b[7 - j]
  <2>1. b \in [0..6 -> Nat]
    BY BaseType DEF Word
  <2>2. QED
    BY <2>1, FromSteps
<1>3. /\ Passed(power, 0) = Product(power)[6] \div Base
      /\ \A j \in 1..7 : Passed(power, j) = Passed(power, j - 1) * Base + (Product(power)[7 - j] % Base)
      /\ Passed(power, 7) = Value(buffer) * power
  BY PassedSteps
<1> DEFINE T == {j \in 0..7 : From(b)[j] = Passed(power, j)}
<1>4. 0 \in T
  <2> DEFINE y == Product(power)[6]
  <2>1. y \in Nat /\ y < Base
    BY <1>1
  <2> HIDE DEF y
  <2>2. y = 0 * Base + y
    BY <1>1, <2>1
  <2>3. y \div Base = 0
    BY <1>1, <2>1, <2>2, QuotientUnique
  <2>4. QED
    BY <1>2, <1>3, <2>3 DEF y
<1>5. ASSUME NEW j \in 1..7, j - 1 \in T PROVE j \in T
  <2>1. 7 - j \in 0..6 /\ j \in 0..7
    OBVIOUS
  <2>2. b[7 - j] = Product(power)[7 - j] % Base
    BY <2>1
  <2>3. From(b)[j - 1] = Passed(power, j - 1)
    BY <1>5
  <2>4. From(b)[j] = Passed(power, j)
    BY <1>2, <1>3, <2>2, <2>3
  <2>5. QED
    BY <2>1, <2>4
<1>6. \A j \in 0..7 : j \in T
  <2> HIDE DEF T
  <2>1. QED
    BY <1>4, <1>5, RangeInduction, 7 \in Nat
<1>7. From(b)[7] = Passed(power, 7)
  BY <1>6
<1>8. QED
  BY <1>3, <1>7 DEF Value

\* No product exceeds two words: what it carries is less than the power.
LEMMA ProductsBound ==
    ASSUME NEW power \in Nat \ {0}, buffer \in [0..6 -> Word]
    PROVE  \A i \in 0..6 : /\ Product(power)[i] \in Nat
                           /\ Product(power)[i] \div Base < power /\ Product(power)[i] \div Base \in Nat
                           /\ 2 * buffer[i] < Base => 2 * (Product(power)[i] \div Base) < power
<1>1. Base \in Nat \ {0} /\ Base % 2 = 0
  BY BaseAssumption, BaseType
<1>2. \A i \in 0..6 : Product(power)[i] \in Nat /\ buffer[i] \in Nat /\ buffer[i] < Base
  <2>1. \A i \in 0..6 : buffer[i] \in Nat /\ buffer[i] < Base
    BY <1>1 DEF Word
  <2>2. \A i \in 0..6 : Product(power)[i] \in Nat
    BY ProductSteps
  <2>3. QED
    BY <2>1, <2>2
<1>3. ASSUME NEW y \in Nat, NEW w \in Nat, w < Base, y < (w + 1) * power
      PROVE  /\ y \div Base < power /\ y \div Base \in Nat
             /\ 2 * w < Base => 2 * (y \div Base) < power
  <2>1. (w + 1) * power <= Base * power /\ (w + 1) * power \in Int /\ Base * power \in Int
    BY <1>1, <1>3, MulMono
  <2>2. y < Base * power
    BY <1>3, <2>1
  <2>3. y \div Base < power
    BY <1>1, <2>2, QuotientBound
  <2>4. y \div Base \in Nat /\ (y \div Base) * Base <= y /\ (y \div Base) * Base \in Nat
    <3> DEFINE q == y \div Base
    <3> DEFINE r == y % Base
    <3>1. q \in Nat /\ r \in Nat /\ y = q * Base + r
      BY <1>1, DivMod
    <3> HIDE DEF q, r
    <3>2. q * Base \in Nat
      BY <1>1, <3>1, \A u, v \in Nat : u * v \in Nat
    <3>3. QED
      BY <3>1, <3>2 DEF q
  <2>5. ASSUME 2 * w < Base PROVE 2 * (y \div Base) < power
    <3>1. 2 * (w + 1) <= Base
      BY <1>1, <2>5
    <3>2. (2 * (w + 1)) * power <= Base * power /\ (2 * (w + 1)) * power = 2 * ((w + 1) * power)
      BY <1>1, <3>1, MulMono, MulAssoc
    <3>3. 2 * y < Base * power
      BY <1>3, <2>1, <3>2
    <3> DEFINE q == y \div Base
    <3>4. q \in Nat /\ q * Base <= y /\ q * Base \in Nat
      BY <2>4
    <3> HIDE DEF q
    <3>5. (2 * q) * Base = 2 * (q * Base) /\ Base * power = power * Base
      BY <1>1, <3>4, MulAssoc
    <3>6. (2 * q) * Base < power * Base
      BY <2>1, <3>3, <3>4, <3>5
    <3>7. 2 * q < power
      BY <1>1, <3>4, <3>6, Cancel
    <3>8. QED
      BY <3>7 DEF q
  <2>6. QED
    BY <2>3, <2>4, <2>5
<1> DEFINE T == {i \in 0..6 : Product(power)[i] < (buffer[i] + 1) * power}
<1>4. 0 \in T
  <2>1. Product(power)[0] = buffer[0] * power
    BY ProductSteps
  <2>2. buffer[0] \in Nat /\ (buffer[0] + 1) * power = buffer[0] * power + 1 * power /\ buffer[0] * power \in Int
    BY <1>2, Distribute
  <2>3. QED
    BY <2>1, <2>2
<1>5. ASSUME NEW i \in 1..6, i - 1 \in T PROVE i \in T
  <2>1. i \in 0..6 /\ i - 1 \in 0..6
    OBVIOUS
  <2>2. Product(power)[i - 1] \div Base < power /\ Product(power)[i - 1] \div Base \in Nat
    BY <1>2, <1>3, <1>5, <2>1
  <2>3. Product(power)[i] = buffer[i] * power + (Product(power)[i - 1] \div Base)
    BY ProductSteps
  <2>4. (buffer[i] + 1) * power = buffer[i] * power + 1 * power /\ buffer[i] * power \in Int
    BY <1>2, <2>1, Distribute
  <2>5. QED
    BY <2>1, <2>2, <2>3, <2>4
<1>6. \A i \in 0..6 : i \in T
  <2> HIDE DEF T
  <2>1. QED
    BY <1>4, <1>5, RangeInduction, 6 \in Nat
<1>7. ASSUME NEW i \in 0..6
      PROVE  /\ Product(power)[i] \in Nat
             /\ Product(power)[i] \div Base < power /\ Product(power)[i] \div Base \in Nat
             /\ 2 * buffer[i] < Base => 2 * (Product(power)[i] \div Base) < power
  <2>1. Product(power)[i] \in Nat /\ buffer[i] \in Nat /\ buffer[i] < Base /\ Product(power)[i] < (buffer[i] + 1) * power
    BY <1>2, <1>6
  <2>2. QED
    BY <1>3, <2>1
<1>8. QED
  BY <1>7

\* Above the last word in use there is what it carries, and nothing else.
LEMMA AboveUpper ==
    ASSUME NEW power \in Nat \ {0}, power < Base, buffer \in [0..6 -> Word], NEW u \in 3..6,
           \A i \in 0..6 : i > u => buffer[i] = 0
    PROVE  \A i \in 0..6 : /\ i = u + 1 => Product(power)[i] = Product(power)[u] \div Base
                           /\ i > u + 1 => Product(power)[i] = 0
<1>1. Base \in Nat \ {0}
  BY BaseType
<1>2. \A i \in 0..6 : Product(power)[i] \in Nat /\ Product(power)[i] \div Base < power /\ Product(power)[i] \div Base \in Nat
  BY ProductsBound
<1>3. ASSUME NEW i \in 1..6, i > u PROVE Product(power)[i] = Product(power)[i - 1] \div Base
  <2>1. i \in 0..6 /\ i - 1 \in 0..6 /\ buffer[i] = 0
    BY <1>3
  <2>2. Product(power)[i] = 0 * power + (Product(power)[i - 1] \div Base)
    BY <2>1, ProductSteps
  <2>3. Product(power)[i - 1] \div Base \in Nat
    BY <1>2, <2>1
  <2>4. QED
    BY <2>2, <2>3
<1>4. \A v \in Nat : v < Base => v \div Base = 0
  <2>1. SUFFICES ASSUME NEW v \in Nat, v < Base PROVE v \div Base = 0
    OBVIOUS
  <2>2. v = 0 * Base + v
    BY <1>1
  <2>3. QED
    BY <1>1, <2>1, <2>2, QuotientUnique
<1> DEFINE T == {i \in 0..6 : (i = u + 1 => Product(power)[i] = Product(power)[u] \div Base) /\ (i > u + 1 => Product(power)[i] = 0)}
<1>5. 0 \in T
  OBVIOUS
<1>6. ASSUME NEW i \in 1..6, i - 1 \in T PROVE i \in T
  <2>1. i \in 0..6 /\ i - 1 \in 0..6
    OBVIOUS
  <2>2. CASE i = u + 1
    BY <1>3, <2>1, <2>2
  <2>3. CASE i = u + 2
    <3>1. Product(power)[i - 1] = Product(power)[u] \div Base
      BY <1>6, <2>1, <2>3
    <3>2. Product(power)[u] \div Base \in Nat /\ Product(power)[u] \div Base < power
      BY <1>2
    <3>3. Product(power)[i - 1] < Base /\ Product(power)[i - 1] \in Nat
      BY <1>1, <3>1, <3>2
    <3>4. Product(power)[i - 1] \div Base = 0
      BY <1>4, <3>3
    <3>5. QED
      BY <1>3, <2>1, <2>3, <3>4
  <2>4. CASE i > u + 2
    <3>1. Product(power)[i - 1] = 0
      BY <1>6, <2>1, <2>4
    <3>2. Product(power)[i - 1] \div Base = 0
      BY <1>1, <1>4, <3>1
    <3>3. QED
      BY <1>3, <2>1, <2>4, <3>2
  <2>5. CASE i <= u
    BY <2>1, <2>5
  <2>6. QED
    BY <2>2, <2>3, <2>4, <2>5
<1>7. \A i \in 0..6 : i \in T
  <2> HIDE DEF T
  <2>1. QED
    BY <1>5, <1>6, RangeInduction, 6 \in Nat
<1>8. QED
  BY <1>7

\* The digits that a pass takes.
LEMMA GrowsBy ==
    ASSUME scale \in (-MAX_SCALE)..MAX_SCALE, scale < 0
    PROVE  LET power == POWERS[Chunk(-scale)]
               rest  == IF scale + MAX_I32_SCALE < 0 THEN -(scale + MAX_I32_SCALE) ELSE 0
           IN  /\ power \in Nat \ {0} /\ power < Base
               /\ POWERS[rest] \in Nat \ {0}
               /\ Lack = -scale /\ POWERS[Lack] \in Nat \ {0} /\ power <= POWERS[Lack]
               /\ power * POWERS[rest] = POWERS[Lack]
               /\ scale + MAX_I32_SCALE \in (-MAX_SCALE)..MAX_SCALE
<1> DEFINE n == -scale
<1>1. /\ n \in 1..MAX_SCALE /\ n \in 1..PowLimit /\ n \in 0..PowLimit
      /\ MAX_I32_SCALE \in 1..MAX_SCALE /\ MAX_I32_SCALE \in 0..PowLimit
      /\ MAX_SCALE \in Nat /\ PowLimit \in Nat
  BY ScaleAssumption
<1>2. Lack = n
  BY DEF Lack
<1>3. scale + MAX_I32_SCALE \in (-MAX_SCALE)..MAX_SCALE
  BY <1>1
<1>4. scale + MAX_I32_SCALE < 0 <=> n > MAX_I32_SCALE
  BY <1>1
<1>5. -(scale + MAX_I32_SCALE) = n - MAX_I32_SCALE
  BY <1>1
<1> DEFINE rest == IF scale + MAX_I32_SCALE < 0 THEN -(scale + MAX_I32_SCALE) ELSE 0
<1>6. rest = IF n > MAX_I32_SCALE THEN n - MAX_I32_SCALE ELSE 0
  BY <1>4, <1>5
<1> HIDE DEF n, rest
<1>7. /\ Chunk(n) \in 1..PowLimit /\ Chunk(n) <= MAX_I32_SCALE /\ Chunk(n) <= n
      /\ rest \in 0..PowLimit /\ Chunk(n) + rest = n
  <2>1. /\ Chunk(n) \in 1..PowLimit /\ Chunk(n) <= MAX_I32_SCALE /\ Chunk(n) <= n
        /\ n <= MAX_I32_SCALE => Chunk(n) = n
        /\ n > MAX_I32_SCALE => Chunk(n) = MAX_I32_SCALE
    BY <1>1, ChunkType
  <2>2. CASE n > MAX_I32_SCALE
    BY <1>1, <1>6, <2>1, <2>2
  <2>3. CASE ~(n > MAX_I32_SCALE)
    BY <1>1, <1>6, <2>1, <2>3
  <2>4. QED
    BY <2>2, <2>3
<1>8. POWERS[Chunk(n)] \in Nat \ {0} /\ POWERS[Chunk(n)] < Base
  <2>1. Chunk(n) \in 0..PowLimit
    BY <1>7
  <2>2. POWERS[Chunk(n)] <= POWERS[MAX_I32_SCALE] /\ POWERS[Chunk(n)] \in Nat \ {0} /\ POWERS[MAX_I32_SCALE] \in Nat
    BY <1>1, <1>7, <2>1, PowersMono, PowersType
  <2>3. QED
    BY <2>2, WidthAssumption, BaseType
<1>9. POWERS[Chunk(n)] * POWERS[rest] = POWERS[n]
  <2>1. Chunk(n) \in 0..PowLimit /\ Chunk(n) + rest <= PowLimit
    BY <1>1, <1>7
  <2>2. POWERS[Chunk(n) + rest] = POWERS[Chunk(n)] * POWERS[rest]
    BY <1>7, <2>1, PowersAdd
  <2>3. QED
    BY <1>7, <2>2
<1>10. POWERS[rest] \in Nat \ {0} /\ POWERS[n] \in Nat \ {0} /\ POWERS[Chunk(n)] <= POWERS[n]
  <2>1. Chunk(n) \in 0..PowLimit
    BY <1>7
  <2>2. QED
    BY <1>1, <1>7, <2>1, PowersType, PowersMono
<1>11. QED
  BY <1>2, <1>3, <1>8, <1>9, <1>10 DEF n, rest

\* A pass multiplies the buffer and finds room for what it carries.
LEMMA GrowBufferInv ==
    ASSUME RemInv, GrowBuffer
    PROVE  RemInv'
<1> DEFINE power == POWERS[Chunk(-scale)]
<1> DEFINE y(i) == Product(power)[i]
<1> DEFINE grows == y(upper) >= Base \div 2
<1>1. /\ pc = "grow" /\ pc' = "grow" /\ scale < 0
      /\ upper' = (IF grows THEN upper + 1 ELSE upper)
      /\ buffer' = [i \in 0..6 |-> IF i <= upper THEN y(i) % Base
                                   ELSE IF i = upper' THEN y(upper) \div Base
                                   ELSE buffer[i]]
      /\ scale' = scale + MAX_I32_SCALE
      /\ call' = call /\ d1' = d1 /\ d2' = d2
      /\ UNCHANGED <<cvars, pvars, call, d1, d2, at, cut, result, pc>>
  BY DEF GrowBuffer
<1>2. /\ CallOK /\ call.op = "rem" /\ ~cut
      /\ d2 = Divisor /\ d2 >= Base /\ d2 \in Mantissa
      /\ upper \in 3..6 /\ 2 * buffer[upper] < Base
      /\ (Value(buffer) * POWERS[Lack]) % (d2 * Shift) = Remaining * Shift
      /\ 2 * (Value(buffer) * POWERS[Lack]) < B3 * B3 * Base
      /\ buffer \in [0..6 -> Word] /\ scale \in (-MAX_SCALE)..MAX_SCALE
      /\ \A i \in 0..6 : i > upper => buffer[i] = 0
  BY <1>1 DEF RemInv, RemTypeOK, FreshPart, GrowPart
<1>3. Base \in Nat \ {0} /\ Base % 2 = 0 /\ Base > 2
  BY BaseAssumption
<1>4. /\ power \in Nat \ {0} /\ power < Base
      /\ POWERS[Lack] \in Nat \ {0} /\ power <= POWERS[Lack]
      /\ scale' \in (-MAX_SCALE)..MAX_SCALE
      /\ POWERS[Lack'] \in Nat \ {0} /\ power * POWERS[Lack'] = POWERS[Lack]
  <2>1. Lack' = IF scale + MAX_I32_SCALE < 0 THEN -(scale + MAX_I32_SCALE) ELSE 0
    BY <1>1 DEF Lack
  <2>2. QED
    BY <1>1, <1>2, <2>1, GrowsBy
<1> HIDE DEF power
<1>5. Value(buffer) \in Nat
  <2>1. buffer \in [0..6 -> Nat]
    BY <1>2, <1>3 DEF Word
  <2>2. QED
    BY <2>1, FromSteps DEF Value
<1>6. 2 * (Value(buffer) * power) < B3 * B3 * Base
  <2> DEFINE a == Value(buffer)
  <2> DEFINE c == POWERS[Lack]
  <2>1. a \in Nat /\ c \in Nat /\ power \in Nat /\ power <= c /\ 2 * (a * c) < B3 * B3 * Base
    BY <1>2, <1>4, <1>5
  <2> HIDE DEF a, c
  <2>2. power * a <= c * a /\ power * a = a * power /\ c * a = a * c /\ a * power \in Int /\ a * c \in Int
    BY <2>1, MulMono, MulAssoc
  <2>3. B3 * B3 * Base \in Int
    BY BaseType
  <2>4. 2 * (a * power) < B3 * B3 * Base
    BY <2>1, <2>2, <2>3
  <2>5. QED
    BY <2>4 DEF a
<1>7. \A i \in 0..6 : /\ y(i) \in Nat
                      /\ y(i) \div Base < power /\ y(i) \div Base \in Nat
                      /\ 2 * buffer[i] < Base => 2 * (y(i) \div Base) < power
  BY <1>2, <1>4, ProductsBound
<1>8. \A i \in 0..6 : (i = upper + 1 => y(i) = y(upper) \div Base) /\ (i > upper + 1 => y(i) = 0)
  BY <1>2, <1>4, AboveUpper
<1>9. 2 * y(6) < Base
  BY <1>2, <1>4, <1>6, PassedTop
<1> HIDE DEF y
<1>10. upper \in 0..6 /\ y(upper) \in Nat /\ y(upper) \div Base \in Nat /\ y(upper) \div Base < Base /\ 2 * (y(upper) \div Base) < Base
  BY <1>2, <1>3, <1>4, <1>7
<1>11. grows => upper + 1 \in 4..6
  <2>1. CASE upper = 6
    BY <1>3, <1>9, <1>10, <2>1
  <2>2. CASE upper # 6
    BY <1>2, <2>2
  <2>3. QED
    BY <2>1, <2>2
<1>12. \A v \in Nat : v < Base => v % Base = v /\ v \div Base = 0
  <2>1. SUFFICES ASSUME NEW v \in Nat, v < Base PROVE v % Base = v /\ v \div Base = 0
    OBVIOUS
  <2>2. v = 0 * Base + v
    BY <1>3
  <2>3. QED
    BY <1>3, <2>1, <2>2, QuotientUnique
<1>13. \A i \in 0..6 : buffer'[i] = y(i) % Base
  <2>1. ASSUME NEW i \in 0..6 PROVE buffer'[i] = y(i) % Base
    <3>1. CASE i <= upper
      BY <1>1, <3>1
    <3>2. CASE i = upper + 1
      <4>1. y(i) = y(upper) \div Base /\ y(i) % Base = y(i)
        BY <1>8, <1>10, <1>12, <3>2
      <4>2. CASE grows
        BY <1>1, <1>2, <3>2, <4>1, <4>2
      <4>3. CASE ~grows
        <5>1. y(upper) < Base
          BY <1>3, <1>10, <4>3
        <5>2. y(upper) \div Base = 0
          BY <1>10, <1>12, <5>1
        <5>3. ~(i <= upper) /\ upper' = upper /\ i # upper /\ buffer[i] = 0
          BY <1>1, <1>2, <3>2, <4>3
        <5>4. QED
          BY <1>1, <4>1, <5>2, <5>3
      <4>4. QED
        BY <4>2, <4>3
    <3>3. CASE i > upper + 1
      <4>1. y(i) = 0 /\ buffer[i] = 0 /\ ~(i <= upper)
        BY <1>2, <1>8, <3>3
      <4>2. i # upper'
        BY <1>1, <1>2, <3>3
      <4>3. buffer'[i] = 0
        BY <1>1, <4>1, <4>2
      <4>4. 0 % Base = 0
        BY <1>3, <1>12
      <4>5. QED
        BY <4>1, <4>3, <4>4
    <3>4. QED
      BY <1>2, <3>1, <3>2, <3>3
  <2>2. QED
    BY <2>1
<1>14. buffer' \in [0..6 -> Word]
  <2>1. \A i \in 0..6 : y(i) % Base \in Word
    <3>1. ASSUME NEW i \in 0..6 PROVE y(i) % Base \in Word
      <4>1. y(i) \in Nat
        BY <1>7
      <4>2. y(i) % Base \in Nat /\ y(i) % Base < Base
        BY <1>3, <4>1, DivMod
      <4>3. QED
        BY <1>3, <4>2 DEF Word
    <3>2. QED
      BY <3>1
  <2>2. \A i \in 0..6 : buffer'[i] \in Word
    BY <1>13, <2>1
  <2>3. buffer' = [i \in 0..6 |-> buffer'[i]]
    BY <1>1
  <2>4. QED
    BY <2>2, <2>3
<1>15. Value(buffer') = Value(buffer) * power
  <2> DEFINE b == buffer'
  <2>1. b \in [0..6 -> Word] /\ \A i \in 0..6 : b[i] = Product(power)[i] % Base
    BY <1>13, <1>14 DEF y
  <2>2. Product(power)[6] < Base
    BY <1>3, <1>7, <1>9 DEF y
  <2> HIDE DEF b
  <2>3. Value(b) = Value(buffer) * power
    BY <1>2, <1>4, <2>1, <2>2, PassedWords
  <2>4. QED
    BY <2>3 DEF b
<1>16. upper' \in 3..6 /\ 2 * buffer'[upper'] < Base
  <2>1. CASE grows
    <3>1. upper' = upper + 1 /\ upper' \in 4..6 /\ upper' \in 0..6 /\ ~(upper' <= upper)
      BY <1>1, <1>2, <1>11, <2>1
    <3>2. buffer'[upper'] = y(upper) \div Base
      BY <1>1, <3>1
    <3>3. QED
      BY <1>10, <3>1, <3>2
  <2>2. CASE ~grows
    <3>1. upper' = upper /\ upper <= upper
      BY <1>1, <1>2, <2>2
    <3>2. 2 * y(upper) < Base
      BY <1>3, <1>10, <2>2
    <3>3. buffer'[upper] = y(upper) % Base /\ y(upper) % Base = y(upper)
      BY <1>3, <1>10, <1>12, <1>13, <3>2
    <3>4. QED
      BY <1>2, <3>1, <3>2, <3>3
  <2>3. QED
    BY <2>1, <2>2
<1>17. \A i \in 0..6 : i > upper' => buffer'[i] = 0
  <2>1. SUFFICES ASSUME NEW i \in 0..6, i > upper' PROVE buffer'[i] = 0
    OBVIOUS
  <2>2. ~(i <= upper) /\ i # upper' /\ i > upper
    BY <1>1, <1>2, <2>1
  <2>3. QED
    BY <1>1, <1>2, <2>2
<1>18. RemTypeOK'
  <2>1. upper' \in 0..6
    BY <1>16
  <2>2. QED
    BY <1>1, <1>4, <1>14, <1>17, <2>1 DEF RemInv, RemTypeOK, cvars, pvars
<1>19. CallOK' /\ Divisor' = Divisor /\ Remaining' = Remaining /\ LargerScale' = LargerScale
  BY <1>1, <1>2, CallKept
<1>20. FreshPart'
  BY <1>1 DEF RemInv, FreshPart, cvars
<1>21. ComparePart' /\ CompareExact'
  BY <1>1, CompareKept
<1>22. ScalingPart'
  BY <1>1, <1>19 DEF RemInv, ScalingPart
<1>23. GrowPart'
  <2>1. Value(buffer') * POWERS[Lack'] = Value(buffer) * POWERS[Lack]
    <3> DEFINE a == Value(buffer)
    <3> DEFINE c == POWERS[Lack']
    <3>1. a \in Nat /\ c \in Nat /\ power \in Nat
      BY <1>4, <1>5
    <3>2. (a * power) * c = a * (power * c)
      <4> HIDE DEF a, c
      <4>1. QED
        BY <3>1, MulAssoc
    <3>3. QED
      BY <1>4, <1>15, <3>2
  <2>2. Shift' = Shift
    BY <1>1, ShiftKept
  <2>3. (Value(buffer') * POWERS[Lack']) % (d2' * Shift') = Remaining' * Shift'
    BY <1>1, <1>2, <1>19, <2>1, <2>2
  <2>4. 2 * (Value(buffer') * POWERS[Lack']) < B3 * B3 * Base
    BY <1>2, <2>1
  <2>5. d2' = Divisor' /\ d2' >= Base
    BY <1>1, <1>2, <1>19
  <2>6. Value(buffer)' = Value(buffer')
    BY DEF Value, From
  <2>7. QED
    BY <1>16, <2>3, <2>4, <2>5, <2>6 DEF GrowPart
<1>24. QED
  BY <1>1, <1>18, <1>19, <1>20, <1>21, <1>22, <1>23, NoWindow, NotDone DEF RemInv

\* The value of a buffer of four words.
LEMMA FourWords ==
    ASSUME NEW b \in [0..6 -> Nat], b[4] = 0, b[5] = 0, b[6] = 0
    PROVE  Value(b) = ((b[3] * Base + b[2]) * Base + b[1]) * Base + b[0]
<1>1. /\ From(b)[0] = 0
      /\ \A j \in 1..7 : From(b)[j] = From(b)[j - 1] * Base + b[7 - j]
  BY FromSteps
<1>2. /\ From(b)[1] = From(b)[1 - 1] * Base + b[7 - 1] /\ From(b)[2] = From(b)[2 - 1] * Base + b[7 - 2]
      /\ From(b)[3] = From(b)[3 - 1] * Base + b[7 - 3] /\ From(b)[4] = From(b)[4 - 1] * Base + b[7 - 4]
  BY <1>1
<1>3. /\ From(b)[5] = From(b)[5 - 1] * Base + b[7 - 5] /\ From(b)[6] = From(b)[6 - 1] * Base + b[7 - 6]
      /\ From(b)[7] = From(b)[7 - 1] * Base + b[7 - 7]
  BY <1>1
<1> DEFINE f == From(b)
<1>4. f[1] = f[0] * Base + b[6] /\ f[2] = f[1] * Base + b[5] /\ f[3] = f[2] * Base + b[4] /\ f[4] = f[3] * Base + b[3]
  BY <1>2
<1>5. f[5] = f[4] * Base + b[2] /\ f[6] = f[5] * Base + b[1] /\ f[7] = f[6] * Base + b[0]
  BY <1>3
<1>6. f[0] = 0
  BY <1>1
<1> HIDE DEF f
<1>7. f[3] = 0
  <2>1. Base \in Nat
    BY BaseType
  <2>2. f[1] = 0
    BY <1>4, <1>6, <2>1
  <2>3. f[2] = 0
    BY <1>4, <2>1, <2>2
  <2>4. QED
    BY <1>4, <2>1, <2>3
<1>8. f[4] = b[3]
  <2>1. b[3] \in Nat /\ Base \in Nat
    BY BaseType
  <2>2. QED
    BY <1>4, <1>7, <2>1
<1>9. QED
  BY <1>5, <1>8 DEF Value, f

\* The words of the dividend, shifted.
LEMMA ShiftedWords ==
    ASSUME NEW m \in Mantissa, NEW c \in Nat \ {0}, 2 * c <= Base,
           NEW high, high = (Mid(m) + Hi(m) * Base) * c + (Lo(m) * c) \div Base
    PROVE  /\ high \in Mantissa /\ Hi(high) < c
           /\ Lo(Lo(m) * c) \in Word /\ Lo(high) \in Word /\ Mid(high) \in Word /\ Hi(high) \in Word
           /\ ((Hi(high) * Base + Mid(high)) * Base + Lo(high)) * Base + Lo(Lo(m) * c) = m * c
<1>1. /\ Base \in Nat \ {0} /\ B2 \in Nat \ {0} /\ B3 \in Nat \ {0}
      /\ B2 = Base * Base /\ B3 = B2 * Base /\ Max96 = B3 - 1 /\ c < Base
  BY BaseType DEF B2, B3
<1> DEFINE l == Lo(m)
<1> DEFINE g == Mid(m) + Hi(m) * Base
<1> DEFINE lc == l * c
<1>2. l \in Nat /\ l < Base /\ g \in Nat /\ g < B2 /\ m = g * Base + l /\ m \in Nat
  <2>1. /\ Lo(m) \in 0..(Base - 1) /\ Mid(m) \in 0..(Base - 1) /\ Hi(m) \in 0..(Base - 1)
        /\ m = Lo(m) + Base * Mid(m) + B2 * Hi(m)
    BY WordsOf
  <2> DEFINE h == Hi(m)
  <2> DEFINE d == Mid(m)
  <2>2. l \in Nat /\ l < Base /\ d \in Nat /\ d < Base /\ h \in Nat /\ h < Base /\ m = l + Base * d + B2 * h
    BY <1>1, <2>1
  <2> HIDE DEF l, d, h
  <2>3. g = d + h * Base
    BY DEF d, h
  <2>4. h * Base \in Nat /\ (h + 1) * Base <= Base * Base /\ (h + 1) * Base = h * Base + 1 * Base
    BY <1>1, <2>2, MulMono, Distribute
  <2>5. g \in Nat /\ g < B2
    BY <1>1, <2>2, <2>3, <2>4
  <2>6. (d + h * Base) * Base = d * Base + (h * Base) * Base /\ (h * Base) * Base = h * B2
    BY <1>1, <2>2, <2>4, Distribute, MulAssoc
  <2>7. d * Base = Base * d /\ h * B2 = B2 * h /\ d * Base \in Nat /\ h * B2 \in Nat
    BY <1>1, <2>2, MulAssoc
  <2>8. m = g * Base + l
    BY <2>2, <2>3, <2>6, <2>7
  <2>9. m \in Nat
    BY <2>2, <2>7
  <2>10. QED
    BY <2>2, <2>5, <2>8, <2>9
<1> HIDE DEF l, g
<1>3. lc \in Nat /\ lc < Base * c
  <2>1. l * c <= (Base - 1) * c /\ (Base - 1) * c = Base * c - 1 * c
    BY <1>1, <1>2, MulMono, Distribute
  <2>2. l * c \in Nat /\ Base * c \in Nat
    BY <1>1, <1>2
  <2>3. QED
    BY <2>1, <2>2
<1> HIDE DEF lc
<1>4. /\ lc \div Base \in Nat /\ lc \div Base < c
      /\ lc % Base \in Nat /\ lc % Base < Base /\ lc = (lc \div Base) * Base + (lc % Base)
  BY <1>1, <1>3, DivMod, QuotientBound
<1> DEFINE q == lc \div Base
<1> DEFINE r == lc % Base
<1>5. q \in Nat /\ q < c /\ r \in Nat /\ r < Base /\ lc = q * Base + r
  BY <1>4
<1>6. Lo(Lo(m) * c) = r /\ high = g * c + q
  BY DEF Lo, l, lc, g
<1> HIDE DEF q, r
<1>7. high \in Nat /\ high < B2 * c /\ g * c \in Nat
  <2>1. (g + 1) * c <= B2 * c /\ (g + 1) * c = g * c + 1 * c
    BY <1>1, <1>2, MulMono, Distribute
  <2>2. g * c \in Nat /\ B2 * c \in Nat
    BY <1>1, <1>2
  <2>3. QED
    BY <1>5, <1>6, <2>1, <2>2
<1>8. high \in Mantissa
  <2>1. c * B2 <= Base * B2 /\ c * B2 = B2 * c /\ Base * B2 = B2 * Base /\ c * B2 \in Int /\ Base * B2 \in Int
    BY <1>1, MulMono, MulAssoc
  <2>2. QED
    BY <1>1, <1>7, <2>1 DEF Mantissa
<1>9. Hi(high) < c
  BY <1>1, <1>7, QuotientBound DEF Hi
<1>10. /\ Lo(high) \in 0..(Base - 1) /\ Mid(high) \in 0..(Base - 1) /\ Hi(high) \in 0..(Base - 1)
       /\ high = Lo(high) + Base * Mid(high) + B2 * Hi(high)
  BY <1>8, WordsOf
<1> DEFINE h0 == Lo(high)
<1> DEFINE h1 == Mid(high)
<1> DEFINE h2 == Hi(high)
<1>11. h0 \in Nat /\ h1 \in Nat /\ h2 \in Nat /\ high = h0 + Base * h1 + B2 * h2
  BY <1>1, <1>10
<1> HIDE DEF h0, h1, h2
<1>12. (h2 * Base + h1) * Base + h0 = high
  <2>1. (h2 * Base + h1) * Base = (h2 * Base) * Base + h1 * Base /\ (h2 * Base) * Base = h2 * B2
    BY <1>1, <1>11, Distribute, MulAssoc
  <2>2. h1 * Base = Base * h1 /\ h2 * B2 = B2 * h2 /\ h1 * Base \in Nat /\ h2 * B2 \in Nat
    BY <1>1, <1>11, MulAssoc
  <2>3. QED
    BY <1>11, <2>1, <2>2
<1>13. high * Base + r = m * c
  <2>1. (g * c + q) * Base = (g * c) * Base + q * Base /\ (g * c) * Base \in Int /\ q * Base \in Int
    BY <1>1, <1>5, <1>7, Distribute
  <2>2. (g * Base + l) * c = (g * Base) * c + l * c /\ (g * Base) * c \in Int /\ l * c \in Int
    BY <1>1, <1>2, Distribute
  <2>3. (g * c) * Base = (g * Base) * c
    <3>1. (g * c) * Base = g * (c * Base) /\ (g * Base) * c = g * (Base * c) /\ c * Base = Base * c
      BY <1>1, <1>2, MulAssoc
    <3>2. QED
      BY <3>1
  <2>4. m * c = (g * Base) * c + lc
    BY <1>2, <2>2 DEF lc
  <2>5. QED
    BY <1>3, <1>5, <1>6, <2>1, <2>2, <2>3, <2>4
<1>14. ((h2 * Base + h1) * Base + h0) * Base + r = m * c
  BY <1>12, <1>13
<1>15. r \in Word
  BY <1>1, <1>5 DEF Word
<1>16. QED
  BY <1>6, <1>8, <1>9, <1>10, <1>14, <1>15 DEF Word, h0, h1, h2

\* The buffer of rem_full is the dividend, shifted as the divisor is.
LEMMA RemFullInv ==
    ASSUME RemInv, RemFull
    PROVE  RemInv'
<1> DEFINE high == (Mid(d1.m) + Hi(d1.m) * Base) * Shift + (Lo(d1.m) * Shift) \div Base
<1> DEFINE b == buffer'
<1>1. /\ pc = "reduce" /\ pc' = "grow" /\ d2 >= Base
      /\ buffer' = [i \in 0..6 |-> CASE i = 0 -> Lo(Lo(d1.m) * Shift)
                                     [] i = 1 -> Lo(high)
                                     [] i = 2 -> Mid(high)
                                     [] i = 3 -> Hi(high)
                                     [] OTHER -> 0]
      /\ upper' = 3
      /\ call' = call /\ d1' = d1 /\ d2' = d2 /\ scale' = scale
      /\ UNCHANGED <<cvars, pvars, call, d1, d2, scale, at, cut, result>>
  BY DEF RemFull
<1>2. /\ CallOK /\ call.op = "rem" /\ ~cut
      /\ call.x.m # 0 /\ call.y.m # 0 /\ Divisor < Against(call.x, call.y)
      /\ d2 = Divisor /\ scale <= 0 /\ d1.s = LargerScale
      /\ (d1.m * POWERS[-scale]) % d2 = Remaining
      /\ d1.m \in Mantissa /\ d2 \in Mantissa /\ scale \in (-MAX_SCALE)..MAX_SCALE
  BY <1>1 DEF RemInv, RemTypeOK, FreshPart, ScalingPart
<1>3. /\ d2 \in Nat \ {0} /\ Shift \in Nat \ {0} /\ 2 * Shift <= Base
  BY <1>1, <1>2, ShiftIs
<1>4. /\ Hi(high) < Shift
      /\ Lo(Lo(d1.m) * Shift) \in Word /\ Lo(high) \in Word /\ Mid(high) \in Word /\ Hi(high) \in Word
      /\ ((Hi(high) * Base + Mid(high)) * Base + Lo(high)) * Base + Lo(Lo(d1.m) * Shift) = d1.m * Shift
  <2>1. high = (Mid(d1.m) + Hi(d1.m) * Base) * Shift + (Lo(d1.m) * Shift) \div Base
    OBVIOUS
  <2> HIDE DEF high
  <2>2. QED
    BY <1>2, <1>3, <2>1, ShiftedWords
<1> HIDE DEF high
<1>5. /\ b \in [0..6 -> Word]
      /\ b[0] = Lo(Lo(d1.m) * Shift) /\ b[1] = Lo(high) /\ b[2] = Mid(high) /\ b[3] = Hi(high)
      /\ b[4] = 0 /\ b[5] = 0 /\ b[6] = 0
  <2>1. 0 \in Word
    BY BaseType DEF Word
  <2>2. QED
    BY <1>1, <1>4, <2>1
<1>6. \A i \in 0..6 : i > 3 => b[i] = 0
  BY <1>5
<1> HIDE DEF b
<1>7. Value(b) = d1.m * Shift
  <2>1. b \in [0..6 -> Nat]
    BY <1>5, BaseType DEF Word
  <2>2. QED
    BY <1>4, <1>5, <2>1, FourWords
<1>8. d1.m \in Nat /\ d1.m < B3 /\ B3 \in Nat \ {0} /\ Base \in Nat \ {0}
  BY <1>2, BaseType DEF Mantissa
<1>9. Lack' = -scale /\ POWERS[Lack'] \in Nat /\ POWERS[Lack'] < B3
  <2>1. -scale \in 0..MAX_SCALE /\ -scale \in 0..PowLimit /\ MAX_SCALE \in 0..PowLimit
    BY <1>2, ScaleAssumption
  <2>2. Lack' = -scale
    <3>1. CASE scale < 0
      BY <1>1, <3>1 DEF Lack
    <3>2. CASE ~(scale < 0)
      <4>1. -scale = 0 - scale
        <5>1. \A i \in Int : -i = 0 - i
          OBVIOUS
        <5>2. QED
          BY <1>2, <5>1
      <4>2. 0 - scale = 0
        BY <1>2, <3>2
      <4>3. Lack' = 0
        BY <1>1, <3>2 DEF Lack
      <4>4. QED
        BY <4>1, <4>2, <4>3
    <3>3. QED
      BY <3>1, <3>2
  <2>3. POWERS[-scale] \in Nat /\ POWERS[-scale] <= POWERS[MAX_SCALE] /\ POWERS[MAX_SCALE] \in Nat /\ POWERS[MAX_SCALE] < B3
    BY <2>1, PowersType, PowersMono, WidthAssumption, ScaleAssumption DEF B3
  <2>4. QED
    BY <1>8, <2>2, <2>3
<1> DEFINE p == POWERS[Lack']
<1>10. p \in Nat /\ p < B3 /\ (d1.m * p) % d2 = Remaining
  BY <1>2, <1>9
<1> HIDE DEF p
<1>11. (d1.m * Shift) * p = (d1.m * p) * Shift
  <2>1. (d1.m * Shift) * p = d1.m * (Shift * p) /\ (d1.m * p) * Shift = d1.m * (p * Shift) /\ Shift * p = p * Shift
    BY <1>3, <1>8, <1>10, MulAssoc
  <2>2. QED
    BY <2>1
<1>12. (Value(b) * p) % (d2 * Shift) = Remaining * Shift
  <2>1. d1.m * p \in Nat
    BY <1>8, <1>10, \A u, v \in Nat : u * v \in Nat
  <2>2. ((d1.m * p) * Shift) % (d2 * Shift) = ((d1.m * p) % d2) * Shift
    BY <1>3, <2>1, ModScale
  <2>3. QED
    BY <1>7, <1>10, <1>11, <2>2
<1>13. 2 * (Value(b) * p) < B3 * B3 * Base
  <2> DEFINE n == d1.m * p
  <2>1. n \in Nat /\ n < B3 * B3
    <3>1. n \in Nat /\ n <= B3 * p /\ B3 * p \in Int
      BY <1>8, <1>10, MulMono
    <3>2. (p + 1) * B3 <= B3 * B3 /\ (p + 1) * B3 = p * B3 + 1 * B3 /\ p * B3 = B3 * p
      BY <1>8, <1>10, MulMono, Distribute, MulAssoc
    <3>3. B3 * B3 \in Int
      BY <1>8
    <3> HIDE DEF n
    <3>4. QED
      BY <1>8, <3>1, <3>2, <3>3
  <2> HIDE DEF n
  <2>2. (2 * Shift) * n <= Base * n /\ (2 * Shift) * n = 2 * (Shift * n) /\ Shift * n = n * Shift
    BY <1>3, <1>8, <2>1, MulMono, MulAssoc
  <2> DEFINE c == B3 * B3
  <2>3. c \in Nat /\ n < c
    BY <1>8, <2>1
  <2> HIDE DEF c
  <2>4. n * Base < c * Base /\ n * Base = Base * n /\ n * Base \in Int /\ c * Base \in Int
    BY <1>8, <2>1, <2>3, Cancel, MulAssoc
  <2>5. n * Shift \in Int
    BY <1>3, <2>1
  <2>6. 2 * (n * Shift) < c * Base
    BY <2>2, <2>4, <2>5
  <2>7. Value(b) * p = n * Shift
    BY <1>7, <1>11 DEF n
  <2>8. QED
    BY <2>6, <2>7 DEF c
<1>14. 2 * b[3] < Base /\ upper' = 3
  <2>1. b[3] \in Nat /\ b[3] < Shift
    BY <1>4, <1>5, <1>8 DEF Word
  <2>2. QED
    BY <1>1, <1>3, <1>8, <2>1
<1>15. RemTypeOK'
  <2>1. buffer' = b
    BY DEF b
  <2>2. buffer' \in [0..6 -> Word] /\ upper' \in 0..6 /\ \A i \in 0..6 : i > upper' => buffer'[i] = 0
    BY <1>1, <1>5, <1>6, <2>1
  <2>3. QED
    BY <1>1, <2>2 DEF RemInv, RemTypeOK, cvars, pvars
<1>16. CallOK' /\ Divisor' = Divisor /\ Remaining' = Remaining /\ LargerScale' = LargerScale
  BY <1>1, <1>2, CallKept
<1>17. FreshPart'
  BY <1>1, <1>2 DEF RemInv, FreshPart
<1>18. ComparePart' /\ CompareExact'
  BY <1>1, CompareKept
<1>19. ScalingPart'
  BY <1>1, <1>2, <1>16 DEF ScalingPart
<1>20. GrowPart'
  <2>1. Shift' = Shift /\ Value(buffer)' = Value(b) /\ buffer' = b
    BY <1>1, ShiftKept DEF Value, From, b
  <2>2. d2' = Divisor' /\ d2' >= Base /\ upper' \in 3..6 /\ 2 * buffer'[upper'] < Base
    BY <1>1, <1>2, <1>14, <1>16, <2>1
  <2>3. (Value(b) * POWERS[Lack']) % (d2' * Shift') = Remaining' * Shift' /\ 2 * (Value(b) * POWERS[Lack']) < B3 * B3 * Base
    BY <1>1, <1>12, <1>13, <1>16, <2>1 DEF p
  <2>4. QED
    BY <2>1, <2>2, <2>3 DEF GrowPart
<1>21. QED
  BY <1>1, <1>15, <1>16, <1>17, <1>18, <1>19, <1>20, NoWindow, NotDone DEF RemInv

-----------------------------------------------------------------------------
(***************************************************************************)
(* From window to window.                                                  *)
(***************************************************************************)
\* The words modulo n are their value modulo n, if those above are zero.
LEMMA ModsFrom ==
    ASSUME NEW b \in [0..6 -> Nat], NEW k \in 0..6, \A i \in 0..6 : i > k => b[i] = 0, NEW n \in Nat \ {0}
    PROVE  Mods(b, k, n)[k] = Value(b) % n
<1>1. /\ From(b)[0] = 0
      /\ \A j \in 1..7 : From(b)[j] = From(b)[j - 1] * Base + b[7 - j]
      /\ \A j \in 0..7 : From(b)[j] \in Nat
  BY FromSteps
<1>2. /\ Mods(b, k, n)[0] = b[k] % n
      /\ \A i \in 1..k : Mods(b, k, n)[i] = (Mods(b, k, n)[i - 1] * Base + b[k - i]) % n
  BY ModsSteps
<1>3. Base \in Nat /\ k \in Nat
  BY BaseType
<1> DEFINE Z == {j \in 0..7 : j <= 6 - k => From(b)[j] = 0}
<1>4. \A j \in 0..7 : j \in Z
  <2>1. 0 \in Z
    BY <1>1
  <2>2. ASSUME NEW j \in 1..7, j - 1 \in Z PROVE j \in Z
    <3>1. CASE j <= 6 - k
      <4>1. 7 - j \in 0..6 /\ 7 - j > k /\ j - 1 <= 6 - k
        BY <3>1
      <4>2. b[7 - j] = 0 /\ From(b)[j - 1] = 0
        BY <2>2, <4>1
      <4>3. From(b)[j] = 0 * Base + 0
        BY <1>1, <4>2
      <4>4. QED
        BY <1>3, <4>3
    <3>2. CASE ~(j <= 6 - k)
      BY <3>2
    <3>3. QED
      BY <3>1, <3>2
  <2> HIDE DEF Z
  <2>3. QED
    BY <2>1, <2>2, RangeInduction, 7 \in Nat
<1> DEFINE T == {i \in 0..k : Mods(b, k, n)[i] = From(b)[7 - k + i] % n}
<1>5. 0 \in T
  <2>1. 6 - k \in 0..7 /\ 7 - k \in 1..7 /\ (7 - k) - 1 = 6 - k /\ 7 - (7 - k) = k /\ 7 - k + 0 = 7 - k
    BY <1>3
  <2>2. From(b)[6 - k] = 0
    BY <1>4, <2>1
  <2>3. From(b)[7 - k] = 0 * Base + b[k]
    BY <1>1, <2>1, <2>2
  <2>4. b[k] \in Nat
    OBVIOUS
  <2>5. From(b)[7 - k] = b[k]
    BY <1>3, <2>3, <2>4
  <2>6. QED
    BY <1>2, <1>3, <2>1, <2>5
<1>6. ASSUME NEW i \in 1..k, i - 1 \in T PROVE i \in T
  <2>1. /\ 7 - k + i \in 1..7 /\ (7 - k + i) - 1 = 7 - k + (i - 1) /\ 7 - (7 - k + i) = k - i
        /\ 7 - k + (i - 1) \in 0..7 /\ i \in 0..k /\ k - i \in 0..6
    BY <1>3
  <2> DEFINE f == From(b)[7 - k + (i - 1)]
  <2> DEFINE w == b[k - i]
  <2>2. f \in Nat /\ w \in Nat
    BY <1>1, <2>1
  <2>3. Mods(b, k, n)[i - 1] = f % n
    BY <1>6
  <2>4. From(b)[7 - k + i] = f * Base + w
    BY <1>1, <2>1
  <2>5. Mods(b, k, n)[i] = ((f % n) * Base + w) % n
    BY <1>2, <2>3
  <2> HIDE DEF f, w
  <2>6. ((f % n) * Base + w) % n = (f * Base + w) % n
    BY <1>3, <2>2, ModHorner, ZenonT(60)
  <2>7. QED
    BY <2>1, <2>4, <2>5, <2>6
<1>7. \A i \in 0..k : i \in T
  <2> HIDE DEF T
  <2>1. QED
    BY <1>3, <1>5, <1>6, RangeInduction
<1>8. k \in 0..k /\ 7 - k + k = 7
  BY <1>3
<1>9. QED
  BY <1>7, <1>8 DEF Value

\* The first words modulo n.
LEMMA ModsPrefix ==
    ASSUME NEW b \in [0..6 -> Nat], NEW k \in 0..6, NEW n \in Nat \ {0}
    PROVE  /\ k >= 1 => Mods(b, k, n)[1] = (b[k] * Base + b[k - 1]) % n
           /\ k >= 2 => Mods(b, k, n)[2] = ((b[k] * Base + b[k - 1]) * Base + b[k - 2]) % n
           /\ k >= 3 => Mods(b, k, n)[3] = (((b[k] * Base + b[k - 1]) * Base + b[k - 2]) * Base + b[k - 3]) % n
<1>1. /\ Mods(b, k, n)[0] = b[k] % n
      /\ \A i \in 1..k : Mods(b, k, n)[i] = (Mods(b, k, n)[i - 1] * Base + b[k - i]) % n
  BY ModsSteps
<1>2. Base \in Nat /\ k \in Nat /\ b[k] \in Nat
  BY BaseType
<1> DEFINE v0 == b[k]
<1> DEFINE v1 == v0 * Base + b[k - 1]
<1> DEFINE v2 == v1 * Base + b[k - 2]
<1> DEFINE v3 == v2 * Base + b[k - 3]
<1>3. ASSUME k >= 1 PROVE v1 \in Nat /\ Mods(b, k, n)[1] = v1 % n
  <2>1. 1 \in 1..k /\ k - 1 \in 0..6 /\ 1 - 1 = 0
    BY <1>2, <1>3
  <2>2. b[k - 1] \in Nat /\ v0 \in Nat
    BY <1>2, <2>1
  <2>3. Mods(b, k, n)[1] = ((v0 % n) * Base + b[k - 1]) % n
    BY <1>1, <2>1
  <2> HIDE DEF v0
  <2>4. ((v0 % n) * Base + b[k - 1]) % n = (v0 * Base + b[k - 1]) % n
    BY <1>2, <2>2, ModHorner, ZenonT(60)
  <2>5. QED
    BY <1>2, <2>2, <2>3, <2>4
<1> HIDE DEF v1
<1>4. ASSUME k >= 2 PROVE v2 \in Nat /\ Mods(b, k, n)[2] = v2 % n
  <2>1. 2 \in 1..k /\ k - 2 \in 0..6 /\ 2 - 1 = 1 /\ k >= 1
    BY <1>2, <1>4
  <2> DEFINE w == b[k - 2]
  <2>2. w \in Nat /\ v1 \in Nat /\ Mods(b, k, n)[1] = v1 % n
    BY <1>3, <2>1
  <2>3. Mods(b, k, n)[2] = ((v1 % n) * Base + w) % n
    BY <1>1, <2>1, <2>2
  <2>4. v2 = v1 * Base + w
    OBVIOUS
  <2> HIDE DEF w, v2
  <2>5. ((v1 % n) * Base + w) % n = (v1 * Base + w) % n
    BY <1>2, <2>2, ModHorner, ZenonT(60)
  <2>6. v1 * Base \in Nat
    BY <1>2, <2>2
  <2>7. QED
    BY <2>2, <2>3, <2>4, <2>5, <2>6
<1> HIDE DEF v2
<1>5. ASSUME k >= 3 PROVE Mods(b, k, n)[3] = v3 % n
  <2>1. 3 \in 1..k /\ k - 3 \in 0..6 /\ 3 - 1 = 2 /\ k >= 2
    BY <1>2, <1>5
  <2> DEFINE w == b[k - 3]
  <2>2. w \in Nat /\ v2 \in Nat /\ Mods(b, k, n)[2] = v2 % n
    BY <1>4, <2>1
  <2>3. Mods(b, k, n)[3] = ((v2 % n) * Base + w) % n
    BY <1>1, <2>1, <2>2
  <2>4. v3 = v2 * Base + w
    OBVIOUS
  <2> HIDE DEF w, v3
  <2>5. ((v2 % n) * Base + w) % n = (v2 * Base + w) % n
    BY <1>2, <2>2, ModHorner, ZenonT(60)
  <2>6. QED
    BY <2>3, <2>4, <2>5
<1>6. QED
  BY <1>3, <1>4, <1>5 DEF v1, v2, v3

\* Two buffers that agree modulo n and in the words below go on to agree.
LEMMA ModsAgree ==
    ASSUME NEW b \in [0..6 -> Nat], NEW c \in [0..6 -> Nat], NEW k \in 1..6, NEW n \in Nat \ {0},
           NEW j \in 0..(k - 1), Mods(c, k - 1, n)[j] = Mods(b, k, n)[j + 1],
           \A i \in 0..6 : i < k - 1 - j => c[i] = b[i]
    PROVE  Mods(c, k - 1, n)[k - 1] = Mods(b, k, n)[k]
<1>1. \A i \in 1..k : Mods(b, k, n)[i] = (Mods(b, k, n)[i - 1] * Base + b[k - i]) % n
  <2>1. k \in 0..6
    OBVIOUS
  <2>2. QED
    BY <2>1, ModsSteps
<1>2. k - 1 \in 0..6 /\ k \in Nat /\ k - 1 \in Nat
  OBVIOUS
<1>3. \A i \in 1..(k - 1) : Mods(c, k - 1, n)[i] = (Mods(c, k - 1, n)[i - 1] * Base + c[k - 1 - i]) % n
  BY <1>2, ModsSteps
<1> DEFINE T == {i \in 0..(k - 1) : i >= j => Mods(c, k - 1, n)[i] = Mods(b, k, n)[i + 1]}
<1>4. 0 \in T
  <2>1. 0 >= j => j = 0
    OBVIOUS
  <2>2. QED
    BY <1>2, <2>1
<1>5. ASSUME NEW i \in 1..(k - 1), i - 1 \in T PROVE i \in T
  <2>1. i \in 0..(k - 1) /\ i \in Int /\ j \in Int
    BY <1>2
  <2>2. CASE i = j
    BY <2>1, <2>2
  <2>3. CASE i < j
    BY <2>1, <2>3
  <2>4. CASE i > j
    <3>1. i - 1 >= j /\ i + 1 \in 1..k /\ (i + 1) - 1 = i /\ (i - 1) + 1 = i /\ k - (i + 1) = k - 1 - i
      BY <1>2, <2>1, <2>4
    <3>2. k - 1 - i \in 0..6 /\ k - 1 - i < k - 1 - j
      BY <1>2, <2>1, <2>4
    <3>3. Mods(c, k - 1, n)[i - 1] = Mods(b, k, n)[i]
      BY <1>5, <3>1
    <3>4. c[k - 1 - i] = b[k - 1 - i]
      BY <3>2
    <3>5. Mods(b, k, n)[i + 1] = (Mods(b, k, n)[i] * Base + b[k - 1 - i]) % n
      BY <1>1, <3>1
    <3>6. Mods(c, k - 1, n)[i] = (Mods(c, k - 1, n)[i - 1] * Base + c[k - 1 - i]) % n
      BY <1>3
    <3>7. QED
      BY <2>1, <3>3, <3>4, <3>5, <3>6
  <2>5. QED
    BY <2>1, <2>2, <2>3, <2>4
<1>6. \A i \in 0..(k - 1) : i \in T
  <2> HIDE DEF T
  <2>1. QED
    BY <1>2, <1>4, <1>5, RangeInduction
<1>7. k - 1 \in 0..(k - 1) /\ k - 1 >= j /\ (k - 1) + 1 = k
  BY <1>2
<1>8. QED
  BY <1>6, <1>7

\* The value of a window, and of its words above the lowest.
DividendOf(w) ==
    IF Len(w) = 3 THEN w[1] + (w[2] + w[3] * Base) * Base
    ELSE w[1] + w[2] * Base + (w[3] + w[4] * Base) * B2

AboveLowest(w) == IF Len(w) = 3 THEN w[3] * Base + w[2] ELSE (w[4] * Base + w[3]) * Base + w[2]

IsWindow(w) == /\ Len(w) \in {3, 4} /\ w[1] \in Word /\ w[2] \in Word /\ w[3] \in Word
               /\ Len(w) = 4 => w[4] \in Word

LEMMA WindowValue ==
    ASSUME NEW w, IsWindow(w)
    PROVE  /\ AboveLowest(w) \in Nat
           /\ DividendOf(w) = AboveLowest(w) * Base + w[1] /\ DividendOf(w) \in Nat
           /\ DividendOf(w) \div Base = AboveLowest(w)
<1>1. /\ Base \in Nat \ {0} /\ B2 \in Nat /\ B2 = Base * Base
      /\ w[1] \in Nat /\ w[1] < Base /\ w[2] \in Nat /\ w[3] \in Nat /\ (Len(w) = 4 => w[4] \in Nat)
  BY BaseType DEF IsWindow, Word, B2
<1> DEFINE w1 == w[1]
<1> DEFINE w2 == w[2]
<1> DEFINE w3 == w[3]
<1> DEFINE w4 == w[4]
<1>2. w1 \in Nat /\ w1 < Base /\ w2 \in Nat /\ w3 \in Nat /\ (Len(w) = 4 => w4 \in Nat)
  BY <1>1
<1>3. AboveLowest(w) = IF Len(w) = 3 THEN w3 * Base + w2 ELSE (w4 * Base + w3) * Base + w2
  BY DEF AboveLowest
<1>4. DividendOf(w) = IF Len(w) = 3 THEN w1 + (w2 + w3 * Base) * Base ELSE w1 + w2 * Base + (w3 + w4 * Base) * B2
  BY DEF DividendOf
<1>5. Len(w) \in {3, 4}
  BY DEF IsWindow
<1> HIDE DEF w1, w2, w3, w4
<1>6. AboveLowest(w) \in Nat /\ DividendOf(w) = AboveLowest(w) * Base + w1
  <2>1. CASE Len(w) = 3
    <3>1. w3 * Base \in Nat
      BY <1>1, <1>2
    <3>2. w3 * Base + w2 = w2 + w3 * Base /\ w3 * Base + w2 \in Nat
      BY <1>2, <3>1
    <3> DEFINE v == w2 + w3 * Base
    <3>3. AboveLowest(w) = v /\ DividendOf(w) = w1 + v * Base /\ v \in Nat
      BY <1>3, <1>4, <2>1, <3>2
    <3> HIDE DEF v
    <3>4. v * Base \in Nat
      BY <1>1, <3>3
    <3>5. QED
      BY <1>2, <3>3, <3>4
  <2>2. CASE Len(w) = 4
    <3>1. w4 \in Nat /\ w4 * Base \in Nat /\ w2 * Base \in Nat
      BY <1>1, <1>2, <2>2
    <3> DEFINE v == w4 * Base + w3
    <3>2. v \in Nat /\ v = w3 + w4 * Base
      BY <1>2, <3>1
    <3>3. AboveLowest(w) = v * Base + w2
      BY <1>3, <2>2
    <3>4. DividendOf(w) = w1 + w2 * Base + v * B2
      BY <1>4, <2>2, <3>2
    <3> HIDE DEF v
    <3>5. (v * Base + w2) * Base = (v * Base) * Base + w2 * Base /\ (v * Base) * Base = v * B2
      BY <1>1, <1>2, <3>2, Distribute, MulAssoc
    <3>6. v * Base \in Nat /\ v * B2 \in Nat
      BY <1>1, <3>2
    <3>7. QED
      BY <1>2, <3>1, <3>3, <3>4, <3>5, <3>6
  <2>3. QED
    BY <1>5, <2>1, <2>2
<1>7. w1 = w[1]
  BY DEF w1
<1>8. DividendOf(w) \in Nat /\ DividendOf(w) \div Base = AboveLowest(w)
  <2>1. AboveLowest(w) * Base \in Nat
    BY <1>1, <1>6
  <2>2. DividendOf(w) \in Nat
    BY <1>2, <1>6, <2>1
  <2>3. QED
    BY <1>1, <1>2, <1>6, <2>2, QuotientUnique
<1>9. QED
  BY <1>6, <1>7, <1>8

\* A window whose top bit is clear is less than the shifted divisor.
LEMMA ClearTop ==
    ASSUME NEW w, IsWindow(w), 2 * w[Len(w)] < Base, NEW d \in Nat,
           Len(w) = 3 => B2 <= 2 * d, Len(w) = 4 => B3 <= 2 * d
    PROVE  AboveLowest(w) < d
<1>1. /\ Base \in Nat \ {0} /\ Base % 2 = 0 /\ B2 \in Nat \ {0} /\ B3 \in Nat \ {0} /\ B2 = Base * Base /\ B3 = B2 * Base
      /\ w[1] \in Nat /\ w[2] \in Nat /\ w[2] < Base /\ w[3] \in Nat /\ w[3] < Base /\ (Len(w) = 4 => w[4] \in Nat)
  BY BaseType, BaseAssumption DEF IsWindow, Word, B2, B3
<1>2. \A v \in Nat, u \in Nat, n \in Nat : 2 * v + 2 <= n /\ u < Base => 2 * (v * Base + u) + 2 <= n * Base /\ v * Base + u \in Nat
  <2>1. SUFFICES ASSUME NEW v \in Nat, NEW u \in Nat, NEW n \in Nat, 2 * v + 2 <= n, u < Base
                 PROVE  2 * (v * Base + u) + 2 <= n * Base /\ v * Base + u \in Nat
    OBVIOUS
  <2>2. (2 * v + 2) * Base <= n * Base /\ (2 * v + 2) * Base = (2 * v) * Base + 2 * Base /\ (2 * v) * Base = 2 * (v * Base)
    BY <1>1, <2>1, MulMono, Distribute, MulAssoc
  <2>3. v * Base \in Nat /\ n * Base \in Nat
    BY <1>1, <2>1
  <2>4. QED
    BY <1>1, <2>1, <2>2, <2>3
<1>3. CASE Len(w) = 3
  <2>1. 2 * w[3] + 2 <= Base
    BY <1>1, <1>3
  <2>2. 2 * (w[3] * Base + w[2]) + 2 <= Base * Base /\ w[3] * Base + w[2] \in Nat
    BY <1>1, <1>2, <2>1
  <2> DEFINE v == w[3] * Base + w[2]
  <2>3. 2 * v + 2 <= B2 /\ v \in Nat /\ AboveLowest(w) = v
    BY <1>1, <1>3, <2>2 DEF AboveLowest
  <2> HIDE DEF v
  <2>4. QED
    BY <1>1, <1>3, <2>3
<1>4. CASE Len(w) = 4
  <2>1. 2 * w[4] + 2 <= Base /\ w[4] \in Nat
    BY <1>1, <1>4
  <2>2. 2 * (w[4] * Base + w[3]) + 2 <= Base * Base /\ w[4] * Base + w[3] \in Nat
    BY <1>1, <1>2, <2>1
  <2>3. 2 * ((w[4] * Base + w[3]) * Base + w[2]) + 2 <= B2 * Base /\ (w[4] * Base + w[3]) * Base + w[2] \in Nat
    BY <1>1, <1>2, <2>2
  <2> DEFINE v == (w[4] * Base + w[3]) * Base + w[2]
  <2>4. 2 * v + 2 <= B3 /\ v \in Nat /\ AboveLowest(w) = v
    BY <1>1, <1>4, <2>3 DEF AboveLowest
  <2> HIDE DEF v
  <2>5. QED
    BY <1>1, <1>4, <2>4
<1>5. QED
  BY <1>3, <1>4 DEF IsWindow

\* The next window and its value, in terms of the next state.
LEMMA NextDividend ==
    ASSUME Len(window') \in {3, 4}
    PROVE  Dividend' = DividendOf(window')
<1>1. CASE Len(window') = 3
  <2>1. 3 - 1 = 2
    OBVIOUS
  <2>2. QED
    BY <1>1, <2>1 DEF Dividend, DividendOf, High64
<1>2. CASE Len(window') = 4
  <2>1. 4 - 1 = 3
    OBVIOUS
  <2>2. QED
    BY <1>2, <2>1 DEF Dividend, DividendOf, High64
<1>3. QED
  BY <1>1, <1>2

LEMMA NextBufferMod ==
    BufferMod(at + Width)' = Mods(buffer', at' + Width', d2' * Shift')[at' + Width']
  BY DEF BufferMod, Mods

\* The words of a window are a call of partial_divide.
LEMMA CallsDivide ==
    ASSUME NEW w, IsWindow(w), NEW d \in Nat \ {0}, DivideCall(w, d)
    PROVE  /\ window' = w /\ den' = d /\ quo' = 0 /\ quo' \in Word
           /\ num' = w[1] + w[2] * Base /\ num' \in 0..(B2 - 1) /\ top' = w[3] /\ top' \in Word
           /\ ppc' = IF Len(w) = 3 THEN "divide64" ELSE "divide96"
           /\ AboveLowest(w) < d => Divisible'
<1>1. /\ window' = w /\ den' = d /\ quo' = 0 /\ num' = w[1] + w[2] * Base /\ top' = w[3]
      /\ ppc' = IF Len(w) = 3 THEN "divide64" ELSE "divide96"
  BY DEF DivideCall
<1>2. /\ Base \in Nat \ {0} /\ B2 = Base * Base /\ B2 \in Nat
      /\ w[1] \in Nat /\ w[1] < Base /\ w[2] \in Nat /\ w[2] < Base /\ w[3] \in Word
  BY BaseType DEF IsWindow, Word, B2
<1>3. w[1] + w[2] * Base \in 0..(B2 - 1)
  <2>1. w[2] * Base \in Nat /\ (w[2] + 1) * Base <= Base * Base /\ (w[2] + 1) * Base = w[2] * Base + 1 * Base
    BY <1>2, MulMono, Distribute
  <2>2. QED
    BY <1>2, <2>1
<1>4. 0 \in Word
  BY <1>2 DEF Word
<1>5. Len(window') \in {3, 4}
  BY <1>1 DEF IsWindow
<1>6. Dividend' = DividendOf(w)
  BY <1>1, <1>5, NextDividend
<1>7. AboveLowest(w) < d => Divisible'
  BY <1>1, <1>6, WindowValue DEF Divisible
<1>8. QED
  BY <1>1, <1>2, <1>3, <1>4, <1>7

\* The first window is less than the divisor, for the top bit of the buffer is clear.
LEMMA GrownInv ==
    ASSUME RemInv, Grown
    PROVE  RemInv'
<1> DEFINE a == at'
<1> DEFINE w == WindowAt(at')
<1> DEFINE d == d2 * Shift
<1>1. /\ pc = "grow" /\ pc' = "window" /\ scale >= 0
      /\ at' = upper - Width
      /\ DivideCall(w, d)
      /\ call' = call /\ d1' = d1 /\ d2' = d2 /\ scale' = scale /\ buffer' = buffer /\ upper' = upper
      /\ cut' = cut /\ result' = result
      /\ UNCHANGED <<cvars, call, d1, d2, scale, buffer, upper, cut, result>>
  BY DEF Grown
<1>2. /\ CallOK /\ call.op = "rem" /\ ~cut
      /\ d2 = Divisor /\ d2 >= Base /\ d2 \in Mantissa
      /\ upper \in 3..6 /\ 2 * buffer[upper] < Base
      /\ (Value(buffer) * POWERS[Lack]) % (d2 * Shift) = Remaining * Shift
      /\ buffer \in [0..6 -> Word] /\ scale \in (-MAX_SCALE)..MAX_SCALE
      /\ \A i \in 0..6 : i > upper => buffer[i] = 0
  BY <1>1 DEF RemInv, RemTypeOK, FreshPart, GrowPart
<1>3. /\ Width \in {2, 3} /\ d \in Nat \ {0}
      /\ Width = 2 => B2 <= 2 * d
      /\ Width = 3 => B3 <= 2 * d
  BY <1>2, ShiftIs
<1>4. a \in 0..4 /\ a \in Nat /\ a + Width = upper /\ a + Width <= 6
  BY <1>1, <1>2, <1>3
<1>5. a = at' /\ w = WindowAt(a)
  OBVIOUS
<1> HIDE DEF a, d
<1>6. /\ Len(w) = Width + 1
      /\ \A j \in 1..(Width + 1) : w[j] = buffer[a + j - 1] /\ w[j] \in Word
  BY <1>2, <1>3, <1>4, <1>5, WindowWords
<1> HIDE DEF w
<1>7. IsWindow(w) /\ w[Len(w)] = buffer[upper]
  <2>1. Width + 1 \in 1..(Width + 1) /\ 1 \in 1..(Width + 1) /\ 2 \in 1..(Width + 1) /\ 3 \in 1..(Width + 1)
    BY <1>3
  <2>2. a + (Width + 1) - 1 = upper
    BY <1>2, <1>3, <1>4
  <2>3. Len(w) = 4 => 4 \in 1..(Width + 1)
    BY <1>3, <1>6
  <2>4. Len(w) \in {3, 4}
    BY <1>3, <1>6
  <2>5. QED
    BY <1>6, <2>1, <2>2, <2>3, <2>4 DEF IsWindow
<1>8. AboveLowest(w) < d
  <2>1. 2 * w[Len(w)] < Base /\ d \in Nat
    BY <1>2, <1>3, <1>7
  <2>2. (Len(w) = 3 => B2 <= 2 * d) /\ (Len(w) = 4 => B3 <= 2 * d)
    BY <1>3, <1>6
  <2>3. QED
    BY <1>7, <2>1, <2>2, ClearTop
<1>9. /\ window' = w /\ den' = d /\ quo' = 0 /\ quo' \in Word
      /\ num' = w[1] + w[2] * Base /\ num' \in 0..(B2 - 1) /\ top' = w[3] /\ top' \in Word
      /\ ppc' = IF Len(w) = 3 THEN "divide64" ELSE "divide96"
      /\ Divisible'
  BY <1>1, <1>3, <1>7, <1>8, CallsDivide
<1>10. RemTypeOK'
  BY <1>1, <1>4, <1>5, <1>9 DEF RemInv, RemTypeOK, cvars
<1>11. CallOK' /\ Divisor' = Divisor /\ Remaining' = Remaining /\ LargerScale' = LargerScale
  BY <1>1, <1>2, CallKept
<1>12. Width' = Width /\ Shift' = Shift
  BY <1>1, ShiftKept
<1>13. FreshPart'
  BY <1>1, <1>2 DEF RemInv, FreshPart, cvars
<1>14. ComparePart' /\ CompareExact'
  BY <1>1, CompareKept
<1>15. ScalingPart'
  BY <1>1, <1>11 DEF RemInv, ScalingPart
<1>16. Value(buffer) % d = Remaining * Shift
  <2>1. Lack = 0 /\ POWERS[0] = 1
    BY <1>1, <1>2, PowersAssumption DEF Lack
  <2>2. buffer \in [0..6 -> Nat]
    BY <1>2, BaseType DEF Word
  <2>3. Value(buffer) \in Nat
    BY <2>2, FromSteps DEF Value
  <2>4. Value(buffer) * 1 = Value(buffer)
    BY <2>3
  <2>5. QED
    BY <1>2, <2>1, <2>4 DEF d
<1>17. BufferMod(at + Width)' = Remaining' * Shift'
  <2>1. buffer \in [0..6 -> Nat] /\ upper \in 0..6
    BY <1>2, BaseType DEF Word
  <2>2. Mods(buffer, upper, d)[upper] = Value(buffer) % d
    BY <1>2, <1>3, <2>1, ModsFrom
  <2>3. at' + Width' = upper /\ d2' * Shift' = d
    BY <1>1, <1>4, <1>5, <1>12 DEF d
  <2>4. BufferMod(at + Width)' = Mods(buffer, upper, d)[upper]
    BY <1>1, <2>3, NextBufferMod
  <2>5. QED
    BY <1>11, <1>12, <1>16, <2>2, <2>4
<1>18. WindowPart'
  <2>1. (d2 = Divisor)' /\ (d2 >= Base)' /\ (at + Width <= 6)' /\ (den = d2 * Shift)'
    BY <1>1, <1>2, <1>4, <1>5, <1>9, <1>11, <1>12 DEF d
  <2>2. (window = WindowAt(at))'
    <3>1. WindowAt(at)' = w
      BY <1>1, <1>5, <1>12 DEF WindowAt
    <3>2. QED
      BY <1>9, <3>1
  <2>3. (ppc \in (IF Width = 2 THEN {"divide64", "add64", "divided"} ELSE {"divide96", "add96", "divided"}))'
    BY <1>3, <1>6, <1>9, <1>12
  <2>4. QED
    BY <1>1, <1>2, <1>9, <1>17, <2>1, <2>2, <2>3 DEF WindowPart
<1>19. DividePart'
  BY <1>9 DEF DividePart
<1>20. QED
  BY <1>1, <1>10, <1>11, <1>13, <1>14, <1>15, <1>18, <1>19, NotGrowing, NotDone DEF RemInv

\* What is left of a window, in words.
LEMMA LeftWords ==
    ASSUME RemInv, pc = "window"
    PROVE  /\ Left[1] \in Word /\ Left[2] \in Word /\ Left[3] \in Word
           /\ Width = 3 => Left[4] \in Word
           /\ Rest \in Nat
           /\ Width = 2 => Rest = Left[2] * Base + Left[1]
           /\ Width = 3 => Rest = (Left[3] * Base + Left[2]) * Base + Left[1]
<1>1. /\ Width \in {2, 3} /\ Len(window) = Width + 1
      /\ window[3] \in Word /\ (Width = 3 => window[4] \in Word)
      /\ num \in 0..(B2 - 1) /\ top \in Word
  BY WindowFacts
<1>2. /\ Lo(num) \in 0..(Base - 1) /\ num \div Base \in 0..(Base - 1)
      /\ num = Lo(num) + Base * (num \div Base)
  BY <1>1, DoubleWord
<1>3. Base \in Nat \ {0} /\ B2 = Base * Base /\ B2 \in Nat
  BY BaseType DEF B2
<1>4. Mid(num) = num \div Base
  <2> DEFINE v == num \div Base
  <2>1. v \in Nat /\ v < Base /\ v = 0 * Base + v
    BY <1>2, <1>3
  <2> HIDE DEF v
  <2>2. v % Base = v
    BY <1>3, <2>1, QuotientUnique
  <2>3. QED
    BY <2>2 DEF Mid, v
<1> DEFINE l == Lo(num)
<1> DEFINE h == Mid(num)
<1>5. /\ l \in Nat /\ l \in Word /\ h \in Nat /\ h \in Word /\ num = l + Base * h
  BY <1>2, <1>3, <1>4 DEF Word
<1>6. Left = IF Width = 2 THEN << l, h, window[3] >> ELSE << l, h, top, window[4] >>
  BY <1>1 DEF Left
<1>7. Rest = IF Width = 2 THEN num ELSE num + top * B2
  BY <1>1 DEF Rest
<1> HIDE DEF l, h
<1>8. Base * h = h * Base /\ h * Base \in Nat
  BY <1>3, <1>5, MulAssoc
<1>9. CASE Width = 2
  BY <1>1, <1>3, <1>5, <1>6, <1>7, <1>8, <1>9
<1>10. CASE Width = 3
  <2> DEFINE t == top
  <2>1. t \in Nat /\ t \in Word
    BY <1>1, <1>3 DEF Word
  <2>2. Left = << l, h, t, window[4] >> /\ Rest = num + t * B2
    BY <1>6, <1>7, <1>10
  <2>3. Left[1] = l /\ Left[2] = h /\ Left[3] = t /\ Left[4] = window[4]
    BY <2>2
  <2> HIDE DEF t
  <2>4. (t * Base + h) * Base = (t * Base) * Base + h * Base /\ (t * Base) * Base = t * B2
    BY <1>3, <1>5, <2>1, Distribute, MulAssoc
  <2>5. t * B2 \in Nat
    BY <1>3, <2>1
  <2>6. Rest = (t * Base + h) * Base + l /\ Rest \in Nat
    BY <1>5, <1>8, <2>2, <2>4, <2>5
  <2>7. QED
    BY <1>1, <1>5, <1>10, <2>1, <2>3, <2>6
<1>11. QED
  BY <1>1, <1>9, <1>10

\* The buffer once what is left of a window is put back.
LEMMA Refilled ==
    ASSUME RemInv, pc = "window",
           NEW F, F = [i \in 0..6 |-> IF i - at \in 0..Width THEN Left[i - at + 1] ELSE buffer[i]]
    PROVE  /\ F \in [0..6 -> Word]
           /\ F[at] = Left[1] /\ F[at + 1] = Left[2] /\ F[at + 2] = Left[3]
           /\ Width = 3 => F[at + 3] = Left[4]
           /\ \A i \in 0..6 : i < at => F[i] = buffer[i]
<1>1. Width \in {2, 3} /\ at \in 0..4 /\ at + Width <= 6 /\ buffer \in [0..6 -> Word]
  BY WindowFacts DEF RemInv, RemTypeOK, WindowPart
<1>2. /\ Left[1] \in Word /\ Left[2] \in Word /\ Left[3] \in Word /\ (Width = 3 => Left[4] \in Word)
  BY LeftWords
<1>3. ASSUME NEW i \in 0..6 PROVE F[i] \in Word
  <2>1. CASE i - at \in 0..Width
    <3>1. F[i] = Left[i - at + 1] /\ i - at + 1 \in {1, 2, 3} \cup (IF Width = 3 THEN {4} ELSE {})
      BY <1>1, <2>1
    <3>2. QED
      BY <1>2, <3>1
  <2>2. CASE ~(i - at \in 0..Width)
    BY <1>1, <2>2
  <2>3. QED
    BY <2>1, <2>2
<1>4. F \in [0..6 -> Word]
  BY <1>3
<1>5. /\ at \in 0..6 /\ at + 1 \in 0..6 /\ at + 2 \in 0..6 /\ (Width = 3 => at + 3 \in 0..6)
      /\ at - at = 0 /\ (at + 1) - at = 1 /\ (at + 2) - at = 2 /\ (at + 3) - at = 3
      /\ 0 \in 0..Width /\ 1 \in 0..Width /\ 2 \in 0..Width /\ (Width = 3 => 3 \in 0..Width)
  BY <1>1
<1>6. F[at] = Left[0 + 1] /\ F[at + 1] = Left[1 + 1] /\ F[at + 2] = Left[2 + 1] /\ (Width = 3 => F[at + 3] = Left[3 + 1])
  BY <1>5
<1>7. \A i \in 0..6 : i < at => ~(i - at \in 0..Width)
  BY <1>1
<1>8. QED
  BY <1>4, <1>6, <1>7

\* What a division leaves is the words of the window, modulo the divisor.
LEMMA WindowLeaves ==
    ASSUME RemInv, pc = "window", ppc = "divided", ~cut, ~EstimateCut
    PROVE  /\ Rest \in Nat /\ Rest < den
           /\ Mods(buffer, at + Width, den)[Width] = Rest
           /\ Mods(buffer, at + Width, den)[at + Width] = Remaining * Shift
<1>1. /\ Width \in {2, 3} /\ Len(window) = Width + 1
      /\ window[1] \in Word /\ window[2] \in Word /\ window[3] \in Word
      /\ Width = 3 => window[4] \in Word
      /\ quo \in Nat /\ den \in Nat \ {0}
  BY WindowFacts, BaseType DEF Word
<1>2. at \in 0..4 /\ at \in Nat /\ at + Width <= 6 /\ buffer \in [0..6 -> Word] /\ den = d2 * Shift /\ window = WindowAt(at)
  BY DEF RemInv, RemTypeOK, WindowPart
<1>3. Rest \in Nat
  BY LeftWords
<1>4. Dividend = quo * den + Rest /\ Rest < den
  BY DEF RemInv, DividePart
<1>5. Dividend % den = Rest
  <2>1. quo * den \in Nat
    BY <1>1
  <2>2. Dividend \in Nat
    BY <1>3, <1>4, <2>1
  <2>3. QED
    BY <1>1, <1>3, <1>4, <2>2, QuotientUnique
<1>6. \A j \in 1..(Width + 1) : window[j] = buffer[at + j - 1]
  BY <1>1, <1>2, WindowWords
<1> DEFINE n == at + Width
<1>7. n \in 0..6 /\ n \in Nat
  BY <1>1, <1>2
<1>8. buffer \in [0..6 -> Nat]
  BY <1>2, BaseType DEF Word
<1>9. IsWindow(window)
  BY <1>1 DEF IsWindow
<1>10. Dividend = AboveLowest(window) * Base + window[1]
  <2>1. Dividend = DividendOf(window)
    <3>1. 3 - 1 = 2 /\ 4 - 1 = 3
      OBVIOUS
    <3>2. QED
      BY <1>9, <3>1 DEF Dividend, DividendOf, High64, IsWindow
  <2>2. QED
    BY <1>9, <2>1, WindowValue
<1>11. Mods(buffer, n, den)[Width] = Dividend % den
  <2>1. CASE Width = 2
    <3>1. n >= 2 /\ n = at + 3 - 1 /\ n - 1 = at + 2 - 1 /\ n - 2 = at + 1 - 1 /\ 1 \in 1..(Width + 1) /\ 2 \in 1..(Width + 1) /\ 3 \in 1..(Width + 1)
      BY <1>2, <2>1
    <3>2. buffer[n] = window[3] /\ buffer[n - 1] = window[2] /\ buffer[n - 2] = window[1]
      BY <1>6, <3>1
    <3>3. Dividend = (window[3] * Base + window[2]) * Base + window[1]
      BY <1>1, <1>10, <2>1 DEF AboveLowest
    <3> HIDE DEF n
    <3>4. Mods(buffer, n, den)[2] = ((buffer[n] * Base + buffer[n - 1]) * Base + buffer[n - 2]) % den
      BY <1>1, <1>7, <1>8, <3>1, ModsPrefix
    <3>5. QED
      BY <2>1, <3>2, <3>3, <3>4
  <2>2. CASE Width = 3
    <3>1. /\ n >= 3 /\ n = at + 4 - 1 /\ n - 1 = at + 3 - 1 /\ n - 2 = at + 2 - 1 /\ n - 3 = at + 1 - 1
          /\ 1 \in 1..(Width + 1) /\ 2 \in 1..(Width + 1) /\ 3 \in 1..(Width + 1) /\ 4 \in 1..(Width + 1)
      BY <1>2, <2>2
    <3>2. buffer[n] = window[4] /\ buffer[n - 1] = window[3] /\ buffer[n - 2] = window[2] /\ buffer[n - 3] = window[1]
      BY <1>6, <3>1
    <3>3. Dividend = ((window[4] * Base + window[3]) * Base + window[2]) * Base + window[1]
      BY <1>1, <1>10, <2>2 DEF AboveLowest
    <3> HIDE DEF n
    <3>4. Mods(buffer, n, den)[3] = (((buffer[n] * Base + buffer[n - 1]) * Base + buffer[n - 2]) * Base + buffer[n - 3]) % den
      BY <1>1, <1>7, <1>8, <3>1, ModsPrefix
    <3>5. QED
      BY <2>2, <3>2, <3>3, <3>4
  <2>3. QED
    BY <1>1, <2>1, <2>2
<1>12. Mods(buffer, n, den)[n] = Remaining * Shift
  <2>1. BufferMod(n) = Remaining * Shift
    BY DEF RemInv, WindowPart
  <2> HIDE DEF n
  <2>2. QED
    BY <1>2, <1>7, <2>1, BufferModIs
<1>13. QED
  BY <1>3, <1>4, <1>5, <1>11, <1>12

\* One word down the remainder is the same.
LEMMA RestMoves ==
    ASSUME RemInv, pc = "window", ppc = "divided", ~cut, ~EstimateCut, at # 0,
           NEW F \in [0..6 -> Word],
           F[at] = Left[1], F[at + 1] = Left[2], F[at + 2] = Left[3],
           \A i \in 0..6 : i < at => F[i] = buffer[i]
    PROVE  Mods(F, at - 1 + Width, den)[at - 1 + Width] = Remaining * Shift
<1>1. Width \in {2, 3} /\ den \in Nat \ {0} /\ at \in 1..4 /\ at + Width <= 6 /\ buffer \in [0..6 -> Word]
  BY WindowFacts DEF RemInv, RemTypeOK, WindowPart
<1> DEFINE n == at + Width
<1>2. /\ Rest \in Nat /\ Rest < den
      /\ Mods(buffer, n, den)[Width] = Rest /\ Mods(buffer, n, den)[n] = Remaining * Shift
  BY WindowLeaves
<1>3. /\ n \in 1..6 /\ n - 1 \in 0..6 /\ at - 1 + Width = n - 1
      /\ Width - 1 \in 0..(n - 1) /\ (Width - 1) + 1 = Width /\ n - 1 - (Width - 1) = at
  BY <1>1
<1>4. F \in [0..6 -> Nat] /\ buffer \in [0..6 -> Nat]
  BY <1>1, BaseType DEF Word
<1>5. Rest % den = Rest
  <2> DEFINE v == Rest
  <2>1. v \in Nat /\ v < den /\ v = 0 * den + v
    BY <1>1, <1>2
  <2> HIDE DEF v
  <2>2. v % den = v
    BY <1>1, <2>1, QuotientUnique
  <2>3. QED
    BY <2>2 DEF v
<1>6. Mods(F, n - 1, den)[Width - 1] = Rest
  <2> DEFINE k == n - 1
  <2>1. CASE Width = 2
    <3>1. k >= 1 /\ k = at + 1 /\ k - 1 = at /\ k \in 0..6
      BY <1>1, <2>1
    <3> HIDE DEF k
    <3>2. Mods(F, k, den)[1] = (F[k] * Base + F[k - 1]) % den
      BY <1>1, <1>4, <3>1, ModsPrefix
    <3>3. Rest = F[k] * Base + F[k - 1]
      BY <2>1, <3>1, LeftWords
    <3>4. Mods(F, k, den)[1] = Rest
      BY <1>5, <3>2, <3>3
    <3>5. Width - 1 = 1
      BY <2>1
    <3>6. QED
      BY <3>4, <3>5 DEF k
  <2>2. CASE Width = 3
    <3>1. k >= 2 /\ k = at + 2 /\ k - 1 = at + 1 /\ k - 2 = at /\ k \in 0..6
      BY <1>1, <2>2
    <3> HIDE DEF k
    <3>2. Mods(F, k, den)[2] = ((F[k] * Base + F[k - 1]) * Base + F[k - 2]) % den
      BY <1>1, <1>4, <3>1, ModsPrefix
    <3>3. Rest = (F[k] * Base + F[k - 1]) * Base + F[k - 2]
      BY <2>2, <3>1, LeftWords
    <3>4. Mods(F, k, den)[2] = Rest
      BY <1>5, <3>2, <3>3
    <3>5. Width - 1 = 2
      BY <2>2
    <3>6. QED
      BY <3>4, <3>5 DEF k
  <2>3. QED
    BY <1>1, <2>1, <2>2
<1> DEFINE j == Width - 1
<1>7. /\ j \in 0..(n - 1) /\ Mods(F, n - 1, den)[j] = Mods(buffer, n, den)[j + 1]
      /\ \A i \in 0..6 : i < n - 1 - j => F[i] = buffer[i]
  BY <1>2, <1>3, <1>6
<1> HIDE DEF n, j
<1>8. Mods(F, n - 1, den)[n - 1] = Mods(buffer, n, den)[n]
  BY <1>1, <1>3, <1>4, <1>7, ModsAgree
<1>9. QED
  BY <1>2, <1>3, <1>8

\* What the last window leaves is the shifted remainder.
LEMMA LastLeaves ==
    ASSUME RemInv, pc = "window", ppc = "divided", at = 0,
           NEW F \in [0..6 -> Word],
           F[at] = Left[1], F[at + 1] = Left[2], F[at + 2] = Left[3]
    PROVE  ~cut /\ ~EstimateCut =>
               F[0] + F[1] * Base + (IF Width = 2 THEN 0 ELSE F[2] * B2) = Remaining * Shift
<1>1. Width \in {2, 3} /\ Base \in Nat /\ B2 \in Nat /\ B2 = Base * Base
  BY WindowFacts, BaseType DEF B2
<1>2. F[0] = Left[1] /\ F[1] = Left[2] /\ F[2] = Left[3]
  <2>1. 0 + 1 = 1 /\ 0 + 2 = 2
    OBVIOUS
  <2>2. QED
    BY <2>1
<1> DEFINE v0 == F[0]
<1> DEFINE v1 == F[1]
<1> DEFINE v2 == F[2]
<1>3. v0 \in Nat /\ v1 \in Nat /\ v2 \in Nat
  BY BaseType DEF Word
<1>4. /\ Width = 2 => Rest = v1 * Base + v0
      /\ Width = 3 => Rest = (v2 * Base + v1) * Base + v0
  BY <1>2, LeftWords
<1>5. SUFFICES ASSUME ~cut, ~EstimateCut
               PROVE  v0 + v1 * Base + (IF Width = 2 THEN 0 ELSE v2 * B2) = Remaining * Shift
  OBVIOUS
<1>6. Rest = Remaining * Shift
  <2>1. Mods(buffer, at + Width, den)[Width] = Rest /\ Mods(buffer, at + Width, den)[at + Width] = Remaining * Shift
    BY <1>5, WindowLeaves
  <2>2. at + Width = Width
    BY <1>1
  <2>3. QED
    BY <2>1, <2>2
<1> HIDE DEF v0, v1, v2
<1>7. v1 * Base \in Nat /\ v2 * B2 \in Nat
  BY <1>1, <1>3
<1>8. CASE Width = 2
  <2>1. v0 + v1 * Base + 0 = v1 * Base + v0
    BY <1>3, <1>7
  <2>2. QED
    BY <1>4, <1>6, <1>8, <2>1
<1>9. CASE Width = 3
  <2>1. (v2 * Base + v1) * Base = (v2 * Base) * Base + v1 * Base /\ (v2 * Base) * Base = v2 * B2
    BY <1>1, <1>3, Distribute, MulAssoc
  <2>2. v0 + v1 * Base + v2 * B2 = (v2 * Base + v1) * Base + v0
    BY <1>3, <1>7, <2>1
  <2>3. QED
    BY <1>4, <1>6, <1>9, <2>2
<1>10. QED
  BY <1>1, <1>8, <1>9

\* A window one word down.
LEMMA WindowDown ==
    ASSUME RemInv, pc = "window", ppc = "divided", at # 0,
           NEW F \in [0..6 -> Word],
           F[at] = Left[1], F[at + 1] = Left[2], F[at + 2] = Left[3],
           NEW w, w = [j \in 1..(Width + 1) |-> F[at - 1 + j - 1]]
    PROVE  /\ IsWindow(w) /\ Len(w) = Width + 1
           /\ ~cut /\ ~EstimateCut => AboveLowest(w) < den
<1>1. Width \in {2, 3} /\ at \in 1..4 /\ at + Width <= 6
  BY WindowFacts DEF RemInv, RemTypeOK, WindowPart
<1>2. \A j \in 1..(Width + 1) : at - 1 + j - 1 \in 0..6 /\ w[j] = F[at - 1 + j - 1] /\ w[j] \in Word
  <2>1. \A j \in 1..(Width + 1) : at - 1 + j - 1 \in 0..6
    BY <1>1
  <2>2. QED
    BY <2>1
<1>3. Len(w) = Width + 1
  <2>1. Width + 1 \in Nat
    BY <1>1
  <2>2. w \in Seq(Word)
    BY <1>2, <2>1
  <2>3. DOMAIN w = 1..(Width + 1)
    OBVIOUS
  <2>4. QED
    BY <2>1, <2>2, <2>3
<1>4. /\ 1 \in 1..(Width + 1) /\ 2 \in 1..(Width + 1) /\ 3 \in 1..(Width + 1) /\ (Width = 3 => 4 \in 1..(Width + 1))
      /\ at - 1 + 2 - 1 = at /\ at - 1 + 3 - 1 = at + 1 /\ at - 1 + 4 - 1 = at + 2
  BY <1>1
<1>5. IsWindow(w)
  <2>1. Len(w) \in {3, 4} /\ (Len(w) = 4 => Width = 3)
    BY <1>1, <1>3
  <2>2. QED
    BY <1>2, <1>4, <2>1 DEF IsWindow
<1>6. w[2] = Left[1] /\ w[3] = Left[2] /\ (Width = 3 => w[4] = Left[3])
  BY <1>2, <1>4
<1>7. AboveLowest(w) = Rest
  <2>1. CASE Width = 2
    <3>1. Len(w) = 3
      BY <1>3, <2>1
    <3>2. QED
      BY <1>6, <2>1, <3>1, LeftWords DEF AboveLowest
  <2>2. CASE Width = 3
    <3>1. Len(w) = 4
      BY <1>3, <2>2
    <3>2. QED
      BY <1>6, <2>2, <3>1, LeftWords DEF AboveLowest
  <2>3. QED
    BY <1>1, <2>1, <2>2
<1>8. ~cut /\ ~EstimateCut => Rest < den
  BY WindowLeaves
<1>9. QED
  BY <1>3, <1>5, <1>7, <1>8

\* From window to window the buffer keeps its remainder.
LEMMA NextWindowInv ==
    ASSUME RemInv, NextWindow
    PROVE  RemInv'
<1> DEFINE F == [i \in 0..6 |-> IF i - at \in 0..Width THEN Left[i - at + 1] ELSE buffer[i]]
<1> DEFINE w == [j \in 1..(Width + 1) |-> F[at - 1 + j - 1]]
<1>1. /\ pc = "window" /\ ppc = "divided"
      /\ cut' = (cut \/ EstimateCut)
      /\ buffer' = F
      /\ IF at = 0
         THEN pc' = "shift_back" /\ at' = at /\ UNCHANGED pvars
         ELSE at' = at - 1 /\ pc' = pc /\ DivideCall([j \in 1..(Width + 1) |-> F[at' + j - 1]], den)
      /\ call' = call /\ d1' = d1 /\ d2' = d2 /\ scale' = scale /\ upper' = upper /\ result' = result
      /\ UNCHANGED <<cvars, call, d1, d2, scale, upper, result>>
  BY DEF NextWindow
<1>2. /\ CallOK /\ call.op = "rem"
      /\ d2 = Divisor /\ d2 >= Base /\ den = d2 * Shift
      /\ at \in 0..4 /\ at + Width <= 6 /\ (cut => Width = 3)
      /\ d1.s = LargerScale
  BY <1>1 DEF RemInv, RemTypeOK, FreshPart, ScalingPart, WindowPart
<1>3. Width \in {2, 3} /\ Len(window) = Width + 1 /\ den \in Nat \ {0}
  BY <1>1, WindowFacts
<1>4. /\ F \in [0..6 -> Word]
      /\ F[at] = Left[1] /\ F[at + 1] = Left[2] /\ F[at + 2] = Left[3]
      /\ \A i \in 0..6 : i < at => F[i] = buffer[i]
  <2>1. F = [i \in 0..6 |-> IF i - at \in 0..Width THEN Left[i - at + 1] ELSE buffer[i]]
    OBVIOUS
  <2> HIDE DEF F
  <2>2. QED
    BY <1>1, <2>1, Refilled
<1>5. at # 0 => DivideCall(w, den) /\ at' = at - 1
  BY <1>1
<1>6. w = [j \in 1..(Width + 1) |-> F[at - 1 + j - 1]]
  OBVIOUS
<1> HIDE DEF F, w
<1>7. at = 0 => pc' = "shift_back" /\ at' = 0 /\ UNCHANGED pvars
  BY <1>1
<1>8. at # 0 => pc' = "window" /\ at' = at - 1 /\ at' \in 0..4 /\ at' + Width <= 6
  BY <1>1, <1>2, <1>3
<1>9. ~cut' => ~cut /\ ~EstimateCut
  BY <1>1
<1>10. cut' => Width = 3
  <2>1. cut' => cut \/ EstimateCut
    BY <1>1
  <2>2. EstimateCut => Len(window) = 4
    BY DEF EstimateCut
  <2>3. Len(window) = 4 => Width = 3
    BY <1>3
  <2>4. QED
    BY <1>2, <2>1, <2>2, <2>3
<1>11. at # 0 => /\ IsWindow(w) /\ Len(w) = Width + 1
                 /\ ~cut /\ ~EstimateCut => AboveLowest(w) < den
  BY <1>1, <1>4, <1>6, WindowDown
<1>12. at # 0 => /\ window' = w /\ den' = den /\ quo' = 0 /\ quo' \in Word
                 /\ num' = w[1] + w[2] * Base /\ num' \in 0..(B2 - 1) /\ top' = w[3] /\ top' \in Word
                 /\ ppc' = (IF Len(w) = 3 THEN "divide64" ELSE "divide96")
                 /\ AboveLowest(w) < den => Divisible'
  BY <1>3, <1>5, <1>11, CallsDivide
<1>13. RemTypeOK'
  <2>1. quo' \in Word /\ num' \in 0..(B2 - 1) /\ top' \in Word
    BY <1>7, <1>12 DEF RemInv, RemTypeOK, pvars
  <2>2. at' \in 0..4
    BY <1>2, <1>7, <1>8
  <2>3. buffer' \in [0..6 -> Word] /\ pc' # "grow"
    BY <1>1, <1>4, <1>7, <1>8
  <2>4. /\ d1' = d1 /\ d2' = d2 /\ scale' = scale /\ upper' = upper /\ result' = result
        /\ left' = left /\ right' = right /\ order' = order /\ cpc' = cpc /\ diff' = diff
    BY <1>1 DEF cvars
  <2>5. QED
    BY <2>1, <2>2, <2>3, <2>4 DEF RemInv, RemTypeOK
<1>14. pc' \in {"window", "shift_back"} /\ (pc' = "window" => at # 0) /\ (pc' = "shift_back" => at = 0)
  BY <1>7, <1>8
<1>15. CallOK' /\ Divisor' = Divisor /\ Remaining' = Remaining /\ LargerScale' = LargerScale
  BY <1>1, <1>2, CallKept
<1>16. Width' = Width /\ Shift' = Shift
  BY <1>1, ShiftKept
<1>17. FreshPart'
  BY <1>1, <1>2, <1>14 DEF RemInv, FreshPart, cvars
<1>18. ComparePart' /\ CompareExact'
  BY <1>1, <1>14, CompareKept
<1>19. ScalingPart'
  BY <1>1, <1>2, <1>14, <1>15 DEF RemInv, ScalingPart
<1>20. ASSUME at # 0 PROVE WindowPart' /\ DividePart'
  <2>1. ~cut' => BufferMod(at + Width)' = Remaining' * Shift'
    <3>1. SUFFICES ASSUME ~cut' PROVE BufferMod(at + Width)' = Remaining' * Shift'
      OBVIOUS
    <3>2. Mods(F, at - 1 + Width, den)[at - 1 + Width] = Remaining * Shift
      BY <1>1, <1>4, <1>9, <1>20, <3>1, RestMoves
    <3>3. buffer' = F /\ at' + Width' = at - 1 + Width /\ d2' * Shift' = den
      BY <1>1, <1>2, <1>8, <1>16, <1>20
    <3>4. BufferMod(at + Width)' = Mods(F, at - 1 + Width, den)[at - 1 + Width]
      BY <3>3, NextBufferMod
    <3>5. QED
      BY <1>15, <1>16, <3>2, <3>4
  <2>2. ~cut' => Divisible'
    BY <1>9, <1>11, <1>12, <1>20
  <2>3. (d2 = Divisor)' /\ (d2 >= Base)' /\ (at + Width <= 6)' /\ (den = d2 * Shift)' /\ (cut => Width = 3)'
    BY <1>1, <1>2, <1>8, <1>10, <1>12, <1>15, <1>16, <1>20
  <2>4. (window = WindowAt(at))'
    <3>1. WindowAt(at)' = [j \in 1..(Width + 1) |-> F[at - 1 + j - 1]]
      BY <1>1, <1>8, <1>16, <1>20 DEF WindowAt
    <3>2. QED
      BY <1>6, <1>12, <1>20, <3>1
  <2>5. (ppc \in (IF Width = 2 THEN {"divide64", "add64", "divided"} ELSE {"divide96", "add96", "divided"}))'
    BY <1>3, <1>11, <1>12, <1>16, <1>20
  <2>6. WindowPart'
    BY <1>14, <1>20, <2>1, <2>2, <2>3, <2>4, <2>5 DEF WindowPart
  <2>7. DividePart'
    BY <1>12, <1>20 DEF DividePart
  <2>8. QED
    BY <2>6, <2>7
<1>21. ASSUME at = 0 PROVE WindowPart' /\ DividePart'
  <2>1. ~cut' => F[0] + F[1] * Base + (IF Width = 2 THEN 0 ELSE F[2] * B2) = Remaining * Shift
    BY <1>1, <1>4, <1>9, <1>21, LastLeaves
  <2>2. pc' = "shift_back" /\ d2' = Divisor' /\ d2' >= Base
    BY <1>1, <1>2, <1>7, <1>15, <1>21
  <2>3. ~cut' => buffer'[0] + buffer'[1] * Base + (IF Width' = 2 THEN 0 ELSE buffer'[2] * B2) = Remaining' * Shift'
    BY <1>1, <1>15, <1>16, <2>1
  <2>4. QED
    BY <2>2, <2>3 DEF WindowPart, DividePart
<1>22. GrowPart' /\ RemainderExact'
  BY <1>14, NotGrowing, NotDone
<1>23. QED
  BY <1>13, <1>15, <1>17, <1>18, <1>19, <1>20, <1>21, <1>22 DEF RemInv

-----------------------------------------------------------------------------
\* What is left is shifted back.
LEMMA RemReturnInv ==
    ASSUME RemInv, RemReturn
    PROVE  RemInv'
<1> DEFINE low == buffer[0] + buffer[1] * Base + (IF Width = 2 THEN 0 ELSE buffer[2] * B2)
<1> DEFINE d == [d1 EXCEPT !.m = low \div Shift]
<1>1. /\ pc = "shift_back" /\ pc' = "done"
      /\ result' = Dividend64(d)
      /\ call' = call /\ d1' = d1 /\ d2' = d2 /\ scale' = scale /\ buffer' = buffer /\ upper' = upper
      /\ at' = at /\ cut' = cut
      /\ UNCHANGED <<cvars, pvars, call, d1, d2, scale, buffer, upper, at, cut>>
  BY DEF RemReturn
<1>2. /\ CallOK /\ call.op = "rem" /\ call.x.m # 0 /\ call.y.m # 0
      /\ Divisor < Against(call.x, call.y)
      /\ d2 = Divisor /\ d2 >= Base /\ d2 \in Mantissa
      /\ ~cut => low = Remaining * Shift
      /\ d1 = [m |-> d1.m, s |-> d1.s] /\ d1.s = LargerScale /\ d1.s \in 0..MAX_SCALE
      /\ buffer \in [0..6 -> Word]
  BY <1>1 DEF RemInv, RemTypeOK, FreshPart, ScalingPart, WindowPart
<1>3. Width \in {2, 3} /\ Shift \in Nat \ {0}
  BY <1>2, ShiftIs
<1>4. /\ Base \in Nat \ {0} /\ B2 \in Nat /\ B3 \in Nat /\ B2 = Base * Base /\ B3 = B2 * Base /\ Max96 = B3 - 1
      /\ B2 < B3 /\ Base < B2
  BY BaseType DEF B2, B3
<1>5. low \in Nat /\ low < B3
  <2> DEFINE v0 == buffer[0]
  <2> DEFINE v1 == buffer[1]
  <2> DEFINE v2 == buffer[2]
  <2>1. v0 \in Nat /\ v0 < Base /\ v1 \in Nat /\ v1 < Base /\ v2 \in Nat /\ v2 < Base
    BY <1>2, <1>4 DEF Word
  <2>2. low = v0 + v1 * Base + (IF Width = 2 THEN 0 ELSE v2 * B2)
    OBVIOUS
  <2> HIDE DEF v0, v1, v2, low
  <2>3. v1 * Base \in Nat /\ (v1 + 1) * Base <= Base * Base /\ (v1 + 1) * Base = v1 * Base + 1 * Base
    BY <1>4, <2>1, MulMono, Distribute
  <2>4. v2 * B2 \in Nat /\ (v2 + 1) * B2 <= Base * B2 /\ (v2 + 1) * B2 = v2 * B2 + 1 * B2 /\ Base * B2 = B2 * Base
    BY <1>4, <2>1, MulMono, Distribute, MulAssoc
  <2>5. CASE Width = 2
    BY <1>4, <2>1, <2>2, <2>3, <2>5
  <2>6. CASE Width = 3
    BY <1>4, <2>1, <2>2, <2>3, <2>4, <2>6
  <2>7. QED
    BY <1>3, <2>5, <2>6
<1> HIDE DEF low
<1>6. low \div Shift \in Mantissa
  <2>1. low \div Shift \in Nat /\ low \div Shift <= low
    <3>1. low \div Shift \in Nat /\ low % Shift \in Nat /\ low = (low \div Shift) * Shift + (low % Shift)
      BY <1>3, <1>5, DivMod
    <3> DEFINE q == low \div Shift
    <3>2. q \in Nat /\ low = q * Shift + (low % Shift)
      BY <3>1
    <3> HIDE DEF q
    <3>3. 1 * q <= Shift * q /\ Shift * q = q * Shift /\ Shift * q \in Int
      BY <1>3, <3>2, MulMono, MulAssoc
    <3>4. QED
      BY <3>1, <3>2, <3>3 DEF q
  <2>2. QED
    BY <1>4, <1>5, <2>1 DEF Mantissa
<1>7. ~cut => low \div Shift = Remaining
  <2>1. Remaining \in Nat
    BY <1>2, TrueRemainderIs
  <2> DEFINE r == Remaining
  <2>2. r \in Nat /\ (~cut => low = r * Shift + 0)
    BY <1>2, <1>3, <2>1
  <2> HIDE DEF r
  <2>3. ~cut => low \div Shift = r
    BY <1>3, <1>5, <2>2, QuotientUnique
  <2>4. QED
    BY <2>3 DEF r
<1>8. d.m = low \div Shift /\ d.s = d1.s
  BY <1>2
<1> HIDE DEF d
<1>9. result' \in Decimal
  BY <1>1, <1>2, <1>6, <1>8, DividendType
<1>10. RemainderExact'
  BY <1>1, <1>2, <1>6, <1>7, <1>8, ExactAnswer
<1>11. RemTypeOK'
  BY <1>1, <1>9 DEF RemInv, RemTypeOK, cvars, pvars
<1>12. CallOK'
  BY <1>1, <1>2, CallKept
<1>13. FreshPart'
  BY <1>1, <1>2 DEF RemInv, FreshPart
<1>14. ComparePart' /\ CompareExact'
  BY <1>1, CompareKept
<1>15. QED
  BY <1>1, <1>10, <1>11, <1>12, <1>13, <1>14, NotScaling DEF RemInv

-----------------------------------------------------------------------------
(***************************************************************************)
(* The specification.                                                      *)
(***************************************************************************)
\* What is not touched keeps what it was.
LEMMA RemStutter ==
    ASSUME RemInv, UNCHANGED vars
    PROVE  RemInv'
<1>1. /\ UNCHANGED <<cvars, pvars, call, d1, d2, scale, buffer, upper, at, cut, result, pc>>
      /\ call' = call /\ d1' = d1 /\ d2' = d2 /\ scale' = scale /\ buffer' = buffer /\ upper' = upper
      /\ at' = at /\ cut' = cut /\ result' = result /\ pc' = pc
      /\ left' = left /\ right' = right /\ diff' = diff /\ order' = order /\ cpc' = cpc
      /\ window' = window /\ den' = den /\ quo' = quo /\ num' = num /\ top' = top /\ ppc' = ppc
  BY DEF vars, cvars, pvars
<1>2. RemTypeOK'
  BY <1>1 DEF RemInv, RemTypeOK
<1>3. CallOK' /\ Divisor' = Divisor /\ Remaining' = Remaining /\ LargerScale' = LargerScale
      /\ First' = First /\ Second' = Second /\ Answer' = Answer
  BY <1>1, CallKept DEF RemInv
<1>4. FreshPart'
  BY <1>1 DEF RemInv, FreshPart
<1>5. ComparePart'
  BY <1>1, <1>3 DEF RemInv, ComparePart
<1>6. CompareExact'
  BY <1>1 DEF RemInv, CompareExact
<1>7. ScalingPart'
  BY <1>1, <1>3 DEF RemInv, ScalingPart
<1>8. Shift' = Shift /\ Width' = Width /\ WindowAt(at)' = WindowAt(at) /\ BufferMod(at + Width)' = BufferMod(at + Width)
  BY <1>1, WindowKept
<1>9. GrowPart'
  <2>1. Value(buffer)' = Value(buffer) /\ Lack' = Lack
    BY <1>1 DEF Value, From, Lack
  <2>2. QED
    BY <1>1, <1>3, <1>8, <2>1 DEF RemInv, GrowPart
<1>10. /\ Dividend' = Dividend /\ Divisible' = Divisible /\ Rest' = Rest /\ EstimateCut' = EstimateCut
  BY <1>1 DEF Divisible, Dividend, High64, Rest, EstimateCut, DivisorHi
<1>11. WindowPart'
  <2>1. (pc = "window" => d2 = Divisor /\ d2 >= Base /\ at + Width <= 6)'
    BY <1>1, <1>3, <1>8 DEF RemInv, WindowPart
  <2>2. (pc = "window" => /\ den = d2 * Shift /\ window = WindowAt(at)
                          /\ ppc \in (IF Width = 2 THEN {"divide64", "add64", "divided"} ELSE {"divide96", "add96", "divided"})
                          /\ cut => Width = 3)'
    BY <1>1, <1>8 DEF RemInv, WindowPart
  <2>3. (pc = "window" /\ ~cut => Divisible /\ BufferMod(at + Width) = Remaining * Shift)'
    BY <1>1, <1>3, <1>8, <1>10 DEF RemInv, WindowPart
  <2>4. (pc = "shift_back" =>
           /\ d2 = Divisor /\ d2 >= Base
           /\ ~cut => buffer[0] + buffer[1] * Base + (IF Width = 2 THEN 0 ELSE buffer[2] * B2) = Remaining * Shift)'
    BY <1>1, <1>3, <1>8 DEF RemInv, WindowPart
  <2>5. QED
    BY <2>1, <2>2, <2>3, <2>4 DEF WindowPart
<1>12. DividePart'
  BY <1>1, <1>10 DEF RemInv, DividePart
<1>13. RemainderExact'
  BY <1>1 DEF RemInv, RemainderExact, RemainderIsTrue, Dividend64, TrueRemainder
<1>14. QED
  BY <1>2, <1>3, <1>4, <1>5, <1>6, <1>7, <1>9, <1>11, <1>12, <1>13 DEF RemInv

LEMMA RemNext ==
    ASSUME RemInv, [Next]_vars
    PROVE  RemInv'
<1>1. CASE Next
  BY <1>1, CmpInv, CmpReturnInv, RemByZeroInv, RemZeroInv, RemCompareInv, ComparingInv, RemSmallInv, RemLargeInv,
     ScaleDivisorInv, ScaleDividendInv, ReduceLowInv, ReduceWordInv, RemFullInv, GrowBufferInv, GrownInv,
     DividingInv, NextWindowInv, RemReturnInv DEF Next
<1>2. CASE UNCHANGED vars
  BY <1>2, RemStutter
<1>3. QED
  BY <1>1, <1>2

\* From call to answer the routines of rem.rs and cmp.rs keep their variables in
\* step: what is scaled is the dividend against the divisor, the buffer of rem_full
\* has room for every pass and keeps its top bit clear, each window is less than the
\* divisor, and from window to window the remainder is the same.
THEOREM RemInvariant == Spec => []RemInv
<1>1. Init => RemInv
  BY RemInit
<1>2. RemInv /\ [Next]_vars => RemInv'
  BY RemNext
<1>3. QED
  BY <1>1, <1>2, PTL DEF Spec

\* The variables of rem_impl and rem_full hold what their types can: three words for
\* what is scaled, seven for the buffer, whatever the operands.
THEOREM RemTypeCorrect == Spec => []RemTypeOK
<1>1. RemInv => RemTypeOK
  BY DEF RemInv
<1>2. QED
  BY <1>1, RemInvariant, PTL

\* cmp_impl orders every two decimals as the numbers they stand for, and those that
\* compare as equal are those that Hash::hash treats alike.
THEOREM CompareCorrect == Spec => []CompareExact
<1>1. RemInv => CompareExact
  BY DEF RemInv
<1>2. QED
  BY <1>1, RemInvariant, PTL

\* rem_impl returns the remainder of the numbers, at the larger scale and with the
\* sign of the dividend, on every path where no quotient estimate was cut.
THEOREM RemainderCorrect == Spec => []RemainderExact
<1>1. RemInv => RemainderExact
  BY DEF RemInv
<1>2. QED
  BY <1>1, RemInvariant, PTL

\* Every window that rem_full divides is congruent to the true remainder, shifted.
THEOREM WindowsCorrect == Spec => []WindowsKeepRemainder
<1>1. RemInv => WindowsKeepRemainder
  <2>1. SUFFICES ASSUME RemInv, pc = "window", ~cut
                 PROVE  BufferMod(at + Width) = TrueRemainder * Shift
    BY DEF WindowsKeepRemainder
  <2>2. BufferMod(at + Width) = Remaining * Shift /\ CallOK /\ call.y.m # 0
    BY <2>1 DEF RemInv, WindowPart, ScalingPart
  <2>3. TrueRemainder = Remaining
    BY <2>2, TrueRemainderIs
  <2>4. QED
    BY <2>2, <2>3
<1>2. QED
  BY <1>1, RemInvariant, PTL

\* partial_divide_64 and partial_divide_96 leave the quotient and the remainder of
\* the window, however often the divisor is added back: the sums that wrap are exact
\* unless the estimate itself was cut.
THEOREM DivideCorrect == Spec => []PartialDivideExact
<1> DEFINE Both == RemInv /\ PartialDivideExact
<1>1. Init => Both
  <2>1. ASSUME Init PROVE ppc # "divided"
    BY <2>1 DEF Init, Called, DivideIdle
  <2>2. QED
    BY <2>1, RemInit DEF PartialDivideExact
<1>2. Both /\ [Next]_vars => Both'
  <2>1. SUFFICES ASSUME RemInv, PartialDivideExact, [Next]_vars PROVE PartialDivideExact'
    BY RemNext
  <2>2. RemInv'
    BY <2>1, RemNext
  <2>3. CASE pc' = "window"
    BY <2>2, <2>3 DEF RemInv, WindowPart, DividePart, PartialDivideExact
  <2>4. CASE pc' # "window"
    <3>1. UNCHANGED pvars /\ (~cut' => ~cut)
      <4>1. CASE UNCHANGED vars
        BY <4>1 DEF vars
      <4>2. CASE NextWindow
        BY <2>4, <4>2 DEF NextWindow
      <4>3. CASE Grown \/ Dividing
        BY <2>4, <4>3 DEF Grown, Dividing
      <4>4. CASE Cmp \/ CmpReturn \/ RemByZero \/ RemZero \/ RemCompare \/ Comparing \/ RemSmall \/ RemLarge
        BY <4>4 DEF Cmp, CmpReturn, RemByZero, RemZero, RemCompare, Comparing, RemSmall, RemLarge
      <4>5. CASE ScaleDivisor \/ ScaleDividend \/ ReduceLow \/ ReduceWord \/ RemFull \/ GrowBuffer \/ RemReturn
        BY <4>5 DEF ScaleDivisor, ScaleDividend, ReduceLow, ReduceWord, RemFull, GrowBuffer, RemReturn
      <4>6. QED
        BY <2>1, <4>1, <4>2, <4>3, <4>4, <4>5 DEF Next
    <3>2. window' = window /\ den' = den /\ quo' = quo /\ num' = num /\ top' = top /\ ppc' = ppc
      BY <3>1 DEF pvars
    <3>3. Dividend' = Dividend /\ Divisible' = Divisible /\ Rest' = Rest /\ EstimateCut' = EstimateCut
      BY <3>2 DEF Divisible, Dividend, High64, Rest, EstimateCut, DivisorHi
    <3>4. QED
      BY <2>1, <3>1, <3>2, <3>3 DEF PartialDivideExact
  <2>5. QED
    BY <2>3, <2>4
<1>3. Both => PartialDivideExact
  OBVIOUS
<1> HIDE DEF Both
<1>4. QED
  BY <1>1, <1>2, <1>3, PTL DEF Spec
===============================================================================
