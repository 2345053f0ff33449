------------------------------- MODULE Convert -------------------------------
(***************************************************************************)
(* Conversion of numbers between the integer types, from text and to text  *)
(* (mptcore/convert).  Widths are parameters: WordBits holds the bits of   *)
(* one, two, four and eight bytes.  Text is what the number functions of   *)
(* the C library see in it.                                                *)
(***************************************************************************)
EXTENDS Integers, Sequences, FiniteSets, Calls

CONSTANTS WordBits, GraphChars,
          FieldMax    \* bound: width of a field, size of a buffer

ASSUME WidthAssumption ==
    /\ WordBits \in [1 .. 4 -> Nat \ {0}]
    /\ \A i \in 1 .. 3 : WordBits[i] < WordBits[i + 1]

Signed == {"b", "n", "i", "x"}
Unsigned == {"y", "q", "u", "t"}
Ints == Signed \cup Unsigned
Floats == {"f", "d", "e"}

BitsOf(t) ==
    WordBits[CASE t \in {"b", "y", "c"} -> 1 [] t \in {"n", "q"} -> 2
               [] t \in {"i", "u"} -> 3 [] t \in {"x", "t"} -> 4]
Low(t) == IF t \in Unsigned THEN 0 ELSE -(2 ^ (BitsOf(t) - 1))
High(t) == IF t \in Unsigned THEN 2 ^ BitsOf(t) - 1 ELSE 2 ^ (BitsOf(t) - 1) - 1
Values(t) == Low(t) .. High(t)
\* Assignment to a type keeps the low bits.
Wrap(v, t) == ((v - Low(t)) % (2 ^ BitsOf(t))) + Low(t)

Done(out) == [err |-> "ok", out |-> out]
Fail(err) == [err |-> err, out |-> 0]

MPT_type_toVector(t) ==
    CASE t = "b" -> "B" [] t = "y" -> "Y" [] t = "n" -> "N" [] t = "q" -> "Q" [] t = "i" -> "I"
      [] t = "u" -> "U" [] t = "x" -> "X" [] t = "t" -> "T" [] t = "c" -> "C" [] t = "f" -> "F"
      [] t = "d" -> "D" [] t = "e" -> "E" [] t = "s" -> "S" [] OTHER -> "none"
-----------------------------------------------------------------------------
(* One function for each source type: what it makes of v for the type to.  *)
Beyond(v, t) == v < Low(t) \/ v > High(t)

\* isgraph takes an int and is undefined outside the range of characters.
isgraph(v, undefined) ==
    IF v \in Low("b") .. High("y") THEN v \in GraphChars ELSE undefined

\* A real number stands for all: how many digits it keeps no property tells.
Real == "real"

\* What all of them have in common: characters are visible ones, integers in the range
\* that the function tests, real numbers always; vector is the type for the source itself.
Converted(vector, refused, v, to, undefined) ==
    CASE to = "c" -> IF isgraph(Wrap(v, "i"), undefined) THEN Done(Wrap(v, "c"))
                     ELSE Fail("BadValue")
      [] to \in Ints -> IF refused THEN Fail("BadValue") ELSE Done(Wrap(v, to))
      [] to \in Floats -> Done(Real)
      [] to = vector -> Done(v)
      [] OTHER -> Fail("BadType")

mpt_data_convert_int8(v, to, u) ==
    Converted("B", to \in Unsigned /\ v < 0, v, to, u)

mpt_data_convert_uint8(v, to, u) ==
    Converted("Y", to = "b" /\ v > High("b"), v, to, u)

mpt_data_convert_int16(v, to, u) ==
    Converted("N", IF to \in {"b", "y"} THEN Beyond(v, to) ELSE to \in Unsigned /\ v < 0,
              v, to, u)

\* The signed type of two bytes has no case, its vector is reported as missing data.
mpt_data_convert_uint16(v, to, u) ==
    IF to = "n" THEN Fail("BadType")
    ELSE Converted("none", to \in {"b", "y"} /\ v > High(to), v, to, u)

mpt_data_convert_int32(v, to, u) ==
    Converted("I", IF to \in {"b", "y", "n", "q"} THEN Beyond(v, to) ELSE to \in Unsigned /\ v < 0,
              v, to, u)

mpt_data_convert_uint32(v, to, u) ==
    Converted("U", to \in {"b", "y", "n", "q", "i"} /\ v > High(to), v, to, u)

mpt_data_convert_int64(v, to, u) ==
    Converted("X", IF to \in Ints \ {"x", "t"} THEN Beyond(v, to) ELSE to = "t" /\ v < 0,
              v, to, u)

\* Mutant: the sign of the widest type is not tested.
mpt_data_convert_uint64_Sign(v, to, u) ==
    Converted("T", to \in Ints \ {"x", "t"} /\ v > High(to), v, to, u)
mpt_data_convert_uint64(v, to, u) ==
    Converted("T", to \in Ints \ {"t"} /\ v > High(to), v, to, u)

\* Real numbers become real numbers or their own vector.
mpt_data_convert_float(from, to) ==
    IF to \in Floats \cup {MPT_type_toVector(from)} THEN Done(Real) ELSE Fail("BadType")

mpt_data_converter(from, v, to, u) ==
    CASE from \in {"b", "c"} -> mpt_data_convert_int8(v, to, u)
      [] from = "y" -> mpt_data_convert_uint8(v, to, u)
      [] from = "n" -> mpt_data_convert_int16(v, to, u)
      [] from = "q" -> mpt_data_convert_uint16(v, to, u)
      [] from = "i" -> mpt_data_convert_int32(v, to, u)
      [] from = "u" -> mpt_data_convert_uint32(v, to, u)
      [] from = "x" -> mpt_data_convert_int64(v, to, u)
      [] from = "t" -> mpt_data_convert_uint64(v, to, u)
      [] from \in Floats -> mpt_data_convert_float(from, to)

\* The steps of mpt_value_convert: converter, copy, vector of one element,
\* text; numbers have no text of their own.
mpt_value_convert(from, v, to, undefined) ==
    LET conv == mpt_data_converter(from, v, to, undefined) IN
    IF conv.err = "ok" THEN [conv EXCEPT !.err = IF from = to THEN "same" ELSE "converted"]
    ELSE IF from = to THEN [err |-> "same", out |-> v]
    ELSE IF to = MPT_type_toVector(from) THEN [err |-> "vector", out |-> v]
    ELSE Fail("BadType")
-----------------------------------------------------------------------------
(* Numbers in text. *)
strtoimax(v) == IF v < Low("x") THEN Low("x") ELSE IF v > High("x") THEN High("x") ELSE v
\* A sign negates the unsigned number; beyond the range the maximum is used.
strtoumax(v) ==
    IF v > High("t") \/ v < -High("t") THEN High("t") ELSE Wrap(v, "t")

_mpt_convert_int(v, t) ==
    IF Beyond(strtoimax(v), t) THEN Fail("BadValue") ELSE Done(strtoimax(v))
_mpt_convert_uint(v, t) ==
    IF strtoumax(v) > High(t) THEN Fail("BadValue") ELSE Done(strtoumax(v))

\* Wide signed numbers are read by the function for unsigned ones.
mpt_convert_number(text, fmt) ==
    CASE text.kind \in {"null", "empty", "blank"} -> Fail("none")
      [] text.kind = "junk" -> Fail("BadType")
      [] fmt \in {"b", "n", "i"} -> _mpt_convert_int(text.v, fmt)
      [] fmt \in {"y", "q", "u", "t"} -> _mpt_convert_uint(text.v, fmt)
      [] fmt = "x" -> IF _mpt_convert_uint(text.v, "t").err = "ok"
                      THEN Done(Wrap(_mpt_convert_uint(text.v, "t").out, "x"))
                      ELSE _mpt_convert_uint(text.v, "t")
      [] fmt \in Floats -> Done(Real)
      [] OTHER -> Fail("BadType")

Flag(f, bit) == (f \div bit) % 2 = 1
ToStringEnd(len, left) == len >= left

\* Whether printf has a conversion for the low flags.
KnownInt(low) == low % 16 = 0 \/ Flag(low, 1) \/ Flag(low, 2)
KnownFloat(low, dec) == dec = 0 \/ low \div 16 = 0 \/ Flag(low, 16) \/ Flag(low, 32)

\* Length of the text for a number of n characters; the flag for left bounded
\* output is looked for in the low byte of the flags.
mpt_number_tostring(type, f, n, left) ==
    LET low == f.flags % 256
        wd  == IF Flag(f.flags, 512) THEN 0 ELSE f.width
        len == IF n < wd THEN wd ELSE n
    IN  CASE wd > left -> Fail("MissingBuffer")
          [] type \in Ints /\ ~KnownInt(low) -> Fail("BadValue")
          [] type \in Floats /\ ~KnownFloat(low, f.dec) -> Fail("BadValue")
          [] type \notin Ints \cup Floats \cup {"c"} -> Fail("BadType")
          [] ToStringEnd(len, left) -> Fail("MissingBuffer")
          [] Flag(low, 512) /\ left < f.width -> Fail("MissingBuffer")
          [] Flag(low, 512) /\ len < f.width -> Done(f.width)
          [] OTHER -> Done(len)
-----------------------------------------------------------------------------
Number(v) == [kind |-> "number", v |-> v]

ConvertCalls ==
    \/ \E from \in Ints \cup {"c"}, to \in Ints \cup {"c", "d", "s", "B", "Q"}, u \in BOOLEAN :
          \E v \in Values(from) :
             Called("value_convert", [from |-> from, v |-> v, to |-> to],
                    mpt_value_convert(from, v, to, u))
    \/ \E from \in Floats, to \in Floats \cup {"i", "D"} :
          Called("value_convert", [from |-> from, v |-> Real, to |-> to],
                 mpt_value_convert(from, Real, to, FALSE))
    \/ \E fmt \in Ints \cup {"d", "s"}, v \in -(2 * High("t")) .. 2 * High("t") :
          Called("convert_number", [fmt |-> fmt, v |-> v], mpt_convert_number(Number(v), fmt))
    \/ \E fmt \in {"i", "x"}, k \in {"null", "empty", "blank", "junk"} :
          Called("convert_text", [fmt |-> fmt, v |-> 0],
                 mpt_convert_number([kind |-> k, v |-> 0], fmt))
    \/ \E type \in {"i", "d", "c", "s"}, flags \in {0, 1, 2, 4, 16, 32, 64, 512}, dec \in 0 .. 1,
          width \in 0 .. FieldMax, n \in 1 .. FieldMax, left \in 0 .. FieldMax :
          Called("number_tostring", [width |-> width, left |-> left, flags |-> flags, n |-> n],
                 mpt_number_tostring(type, [flags |-> flags, width |-> width, dec |-> dec], n, left))

\* An integer or character that mpt_value_convert delivers as another one is
\* the same number, save that a number beyond the characters may be taken for
\* the character of its low bits.  A number the target can hold is refused only
\* when it is no visible character, or by mpt_data_convert_uint16, which has no
\* signed type of its own size.
ValuesExact ==
    call.fn = "value_convert" /\ {call.args.from, call.args.to} \subseteq Ints \cup {"c"} =>
        LET a == call.args   out == call.result.out IN
        IF call.result.err \in {"same", "converted"}
        THEN \/ out = a.v
             \/ a.to = "c" /\ a.v \notin Low("b") .. High("y") /\ out = Wrap(a.v, "c")
        ELSE \/ a.v \notin Values(a.to) \/ (a.from = "q" /\ a.to = "n")
             \/ a.to = "c" /\ a.v \notin GraphChars

\* Text with a number the type holds is read as that number, and a number
\* outside is refused, with three exceptions.  Unsigned types take a negative
\* number for its complement where that fits; the widest unsigned type ends at
\* its maximum; and the widest signed type, which mpt_convert_number reads with
\* the function of the unsigned one, takes the low bits of what that read: a
\* number above its maximum is delivered as a negative one.
TextExact ==
    call.fn = "convert_number" /\ call.args.fmt \in Ints =>
        LET a == call.args
            out  == call.result.out
            read == a.v \in -High("t") .. High("t") IN
        IF a.v \in Values(a.fmt) THEN call.result = Done(a.v)
        ELSE call.result.err = "ok" =>
                \/ a.fmt \in Unsigned /\ a.v \in -High("t") .. -1 /\ out = a.v + 2 ^ BitsOf("t")
                \/ a.fmt = "t" /\ ~read /\ out = High("t")
                \/ a.fmt = "x" /\ read /\ (out - a.v) % 2 ^ BitsOf("t") = 0
                \/ a.fmt = "x" /\ ~read /\ out = -1

\* Text that mpt_number_tostring reports has its terminator in the buffer and
\* fills the field, unless it should have been left bounded.
TextFits ==
    call.fn = "number_tostring" /\ call.result.err = "ok" =>
        /\ call.result.out < call.args.left
        /\ call.result.out >= call.args.n
        /\ call.result.out >= call.args.width \/ call.args.flags = 512

\* What mpt_value_convert and mpt_convert_number deliver is the number they were
\* given, in every case but the ones ValuesExact and TextExact name, and no text
\* of mpt_number_tostring exceeds its buffer.
ConvertExact == ValuesExact /\ TextExact /\ TextFits
=============================================================================
