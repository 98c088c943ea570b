--------------------------------- MODULE Forms ---------------------------------
(***************************************************************************)
(* The forms of a decimal that are not text: the 16 bytes of serialize and *)
(* deserialize, and the machine integers of From and ToPrimitive           *)
(* (decimal.rs).  Each is a function; a behaviour is one call of one.      *)
(***************************************************************************)
EXTENDS DecimalBase

CONSTANT ScaleBits      \* scales that the bits of the flags under the mask tell apart (32)

\* Three of them are too large for a decimal.
ASSUME ScaleBitsAssumption == ScaleBits = MAX_SCALE + 4 /\ 3 <= PowLimit

VARIABLES
    form,       \* the call: [op, kind |-> of integer, arg]
    formed,     \* what it returns, None for none
    opc

xvars == <<form, formed, opc>>

NoForm == [none |-> TRUE]
FormIdle == form = [op |-> "none", kind |-> "u32", arg |-> ZERO] /\ formed = NoForm /\ opc = "idle"
FormStart(op, kind, arg) == form = [op |-> op, kind |-> kind, arg |-> arg] /\ formed = NoForm /\ opc = "call"

-----------------------------------------------------------------------------
\* ops/array.rs: div_by_power, a word after the other.
DivByPower(m, e) ==
    LET p  == POWERS[e]
        t1 == (Hi(m) % p) * Base + Mid(m)
        t0 == (t1 % p) * Base + Lo(m)
    IN  [q |-> (Hi(m) \div p) * B2 + (t1 \div p) * Base + (t0 \div p), r |-> t0 % p]

\* Bits 16 to 23 of the flags hold the scale; the others but the sign are not written.
Serialized(d) == [neg |-> d.neg, field |-> d.s, m |-> d.m]

\* Mutant of Deserialized: the scale is brought down without its digits.
DeserializedUnscaled(b) == [neg |-> b.neg, m |-> b.m, s |-> SmallerOf(b.field % ScaleBits, MAX_SCALE)]

\* The mask keeps the sign and the low bits of the scale.  One that is too large loses
\* its digits, and the whole remainder is compared with a five.
Deserialized(b) ==
    LET s   == b.field % ScaleBits
        cut == DivByPower(b.m, s - MAX_SCALE)
    IN  IF s <= MAX_SCALE THEN [neg |-> b.neg, m |-> b.m, s |-> s]
        ELSE [neg |-> b.neg, m |-> IF cut.r >= Ten \div 2 THEN cut.q + 1 ELSE cut.q, s |-> MAX_SCALE]

-----------------------------------------------------------------------------
Words(kind)  == CASE kind \in {"i32", "u32"} -> 1 [] kind \in {"i64", "u64"} -> 2 [] kind \in {"i128", "u128"} -> 4
HasSign(kind) == kind \in {"i32", "i64", "i128"}
Limit(kind)  == CASE Words(kind) = 1 -> Base [] Words(kind) = 2 -> B2 [] Words(kind) = 4 -> B2 * B2
IntegersOf(kind) == IF HasSign(kind) THEN -(Limit(kind) \div 2)..(Limit(kind) \div 2 - 1) ELSE 0..(Limit(kind) - 1)

\* from_i32 .. from_u128: the words of the magnitude; four words may be too many.
FromInteger(kind, n) ==
    LET size == IF n < 0 THEN -n ELSE n
    IN  IF Words(kind) = 4 /\ size \div B3 # 0 THEN NoForm
        ELSE [neg |-> n < 0, m |-> size % SmallerOf(Limit(kind), B3), s |-> 0]

Truncated(d) == d.m \div POWERS[d.s]
Negated(d, n) == IF d.neg THEN -n ELSE n

ToI64(d) ==
    LET t == Truncated(d)
    IN  IF Hi(t) # 0 THEN NoForm
        ELSE IF Mid(t) >= Base \div 2
        THEN IF d.neg /\ Mid(t) = Base \div 2 /\ Lo(t) = 0 THEN [n |-> -(B2 \div 2)] ELSE NoForm
        ELSE [n |-> Negated(d, Low64(t))]

\* to_i64, to_i128, to_u64, to_u128: a decimal with a minus is never unsigned.
ToInteger(kind, d) ==
    CASE kind = "i64"  -> ToI64(d)
      [] kind = "i128" -> [n |-> Negated(d, Truncated(d))]
      [] kind = "u64"  -> IF d.neg \/ Hi(Truncated(d)) # 0 THEN NoForm ELSE [n |-> Low64(Truncated(d))]
      [] kind = "u128" -> IF d.neg THEN NoForm ELSE [n |-> Truncated(d)]

FormCall(op, answer) == opc = "call" /\ form.op = op /\ formed' = answer /\ opc' = "done" /\ UNCHANGED form

Serialize   == FormCall("serialize", Serialized(form.arg))
Deserialize == FormCall("deserialize", Deserialized(form.arg))
From        == FormCall("from", FromInteger(form.kind, form.arg))
To          == FormCall("to", ToInteger(form.kind, form.arg))

\* Any decimal, any 16 bytes (the field is a byte of them), any integer of any type.
\* The decimals that become integers of one word become i64 or u64 first.
FormInit ==
    \/ \E d \in Decimal : FormStart("serialize", "u32", d)
    \/ \E b \in [neg : BOOLEAN, field : Word, m : Mantissa] : FormStart("deserialize", "u32", b)
    \/ \E k \in {"i32", "u32", "i64", "u64", "i128", "u128"} : \E n \in IntegersOf(k) : FormStart("from", k, n)
    \/ \E k \in {"i64", "u64", "i128", "u128"}, d \in Decimal : FormStart("to", k, d)
FormNext == Serialize \/ Deserialize \/ From \/ To
FormSpec == FormInit /\ [][FormNext]_xvars

-----------------------------------------------------------------------------
\* What was written is read back; what is read is a decimal with the sign and, but
\* for digits that have no place, the value that was written: one such digit is
\* rounded, several are cut off or counted as one more.
BytesAgree ==
    opc = "done" =>
        /\ form.op = "serialize" => Deserialized(formed) = form.arg
        /\ form.op = "deserialize" =>
            LET more == (form.arg.field % ScaleBits) - MAX_SCALE
                off  == form.arg.m - formed.m * POWERS[more]
            IN  /\ formed \in Decimal /\ formed.neg = form.arg.neg
                /\ more <= 0 => Serialized(formed) = [form.arg EXCEPT !.field = @ % ScaleBits]
                /\ more = 1  => off >= -(Ten \div 2) /\ off < Ten \div 2
                /\ more > 1  => off > -POWERS[more] /\ off < POWERS[more]

\* An integer becomes itself, or nothing when 96 bits do not hold it, and is found
\* again; a decimal becomes the integer it truncates to, or nothing when the type
\* does not hold that or has no sign for it.
IntegersAgree ==
    opc = "done" =>
        /\ form.op = "from" =>
            IF formed = NoForm THEN form.arg > Max96 \/ form.arg < -Max96
            ELSE /\ formed \in Decimal /\ formed.s = 0 /\ Negated(formed, formed.m) = form.arg
                 /\ form.kind \notin {"i32", "u32"} => ToInteger(form.kind, formed) = [n |-> form.arg]
        /\ form.op = "to" =>
            LET n == Negated(form.arg, Truncated(form.arg))
            IN  IF formed = NoForm THEN n \notin IntegersOf(form.kind) \/ (form.arg.neg /\ ~HasSign(form.kind))
                ELSE formed = [n |-> n] /\ n \in IntegersOf(form.kind)

FormsAgree == BytesAgree /\ IntegersAgree
================================================================================
