----------------------------- MODULE Transform -----------------------------
(***************************************************************************)
(* The value conversions of transform.py: a mapping runs forwards from CAN *)
(* to VSS and backwards from VSS to CAN, and a value that cannot be        *)
(* represented faithfully is dropped.                                      *)
(*                                                                         *)
(* A value is a record.  Numbers are exact, in quarters: rounding of       *)
(* floats is left out, and so is overflow.  Infinities behave as NaN does  *)
(* and are not told from it; looked up in an enum they are left out.       *)
(* A text is the decimal form of a number (of an int, "1", or of a float,  *)
(* "1.0") or one of a few words.                                           *)
(***************************************************************************)
EXTENDS Integers, Sequences

Unit == 4

Types == {"boolean", "string", "int", "float"}
Ops == {"passthrough", "linear", "threshold", "enum"}

Value(kind, n, word) == [kind |-> kind, n |-> n, word |-> word]
IntVal(n) == Value("int", n, "")
FloatVal(n) == Value("float", n, "")
BoolVal(b) == Value("bool", IF b THEN Unit ELSE 0, "")
Word(w) == Value("str", 0, w)           \* "true", "false" or anything else
Decimal(n, form) == Value("str", n, form)
NaN == Value("nan", 0, "")
None == Value("none", 0, "")
List == Value("list", 0, "")
Dropped == Value("dropped", 0, "")      \* raise TransformError
Raised == Value("raised", 0, "")        \* any other exception

Forms == {"int", "float"}
IsNumber(v) == v.kind \in {"int", "float"}
IsDecimal(v) == v.kind = "str" /\ v.word \in Forms

\* What a dict takes for the same key: 1 == 1.0 == True.  The NaN of a file is
\* one object of the YAML parser's, and so the same key as itself.
PyEqual(v, w) ==
    LET Numeric == {"int", "float", "bool"}
    IN  IF v.kind \in Numeric /\ w.kind \in Numeric THEN v.n = w.n ELSE v = w

-----------------------------------------------------------------------------
(* Coercion.                                                               *)

\* _as_number: a finite float; neither a boolean nor a text such as "nan".
AsNumber(v) == IF IsNumber(v) \/ IsDecimal(v) THEN FloatVal(v.n) ELSE Dropped

ToBoolean(v) ==
    LET ReadsAs(b) == \/ v = BoolVal(b)
                      \/ v = Word(IF b THEN "true" ELSE "false")
                      \/ v = Decimal(IF b THEN Unit ELSE 0, "int")
                      \/ IsNumber(v) /\ v.n = IF b THEN Unit ELSE 0
    IN  CASE ReadsAs(TRUE)  -> BoolVal(TRUE)
          [] ReadsAs(FALSE) -> BoolVal(FALSE)
          [] OTHER          -> Dropped

ToString(v) ==
    CASE v.kind = "str" -> v
      [] IsNumber(v)    -> Decimal(v.n, v.kind)
      [] v.kind = "nan" -> Word("nan")
      [] OTHER          -> Dropped

ToInt(v) == IF AsNumber(v) # Dropped /\ (v.n % Unit) = 0 THEN IntVal(v.n) ELSE Dropped

\* A bug: an int needs no conversion.
CoerceLazily(v, type) ==
    CASE type = "boolean" -> ToBoolean(v)
      [] type = "string"  -> ToString(v)
      [] type = "int"     -> v
      [] type = "float"   -> AsNumber(v)

CoerceValue(v, type) ==
    CASE type = "boolean" -> ToBoolean(v)
      [] type = "string"  -> ToString(v)
      [] type = "int"     -> ToInt(v)
      [] type = "float"   -> AsNumber(v)

\* _check_range: a text or a boolean passes, NaN is within no range, and
\* comparing a null or a list is a TypeError.
CheckRange(e, v) ==
    IF e.range = <<>> THEN v
    ELSE IF v.kind \in {"none", "list"} THEN Raised
    ELSE IF v.kind = "nan" THEN Dropped
    ELSE IF IsNumber(v) /\ ~(e.range[1] <= v.n /\ v.n <= e.range[2]) THEN Dropped
    ELSE v

-----------------------------------------------------------------------------
(* Both directions.  scale is a fraction <<numerator, denominator>>; an    *)
(* enum map is a sequence of <<CAN value, VSS value>>.                     *)

\* The value of a dict at a key that comes from a peer: a list is not
\* hashable, and a NaN is not the one of the file.
LookUp(pairs, from, to, v) ==
    IF v.kind = "list" THEN Raised
    ELSE LET Hits == {j \in DOMAIN pairs : v.kind # "nan" /\ PyEqual(pairs[j][from], v)}
         IN  IF Hits = {} THEN Dropped ELSE pairs[CHOOSE j \in Hits : TRUE][to]

\* Division, for a divisor of either sign.
Quotient(x, y) == IF y > 0 THEN x \div y ELSE (-x) \div (-y)

Scaled(spec, v) ==
    IF AsNumber(v) = Dropped THEN Dropped
    ELSE IF spec.offset = NaN THEN NaN
    ELSE FloatVal(Quotient(v.n * spec.scale[1], spec.scale[2]) + spec.offset.n)

\* A bug: the offset is taken off after the division.
UnscaledLate(spec, v) ==
    IF AsNumber(v) = Dropped THEN Dropped
    ELSE IF spec.offset = NaN THEN NaN
    ELSE FloatVal(Quotient(v.n * spec.scale[2], spec.scale[1]) - spec.offset.n)

Unscaled(spec, v) ==
    IF AsNumber(v) = Dropped THEN Dropped
    ELSE IF spec.offset = NaN THEN NaN
    ELSE FloatVal(Quotient((v.n - spec.offset.n) * spec.scale[2], spec.scale[1]))

Exceeds(spec, v) == IF AsNumber(v) = Dropped THEN Dropped ELSE BoolVal(v.n > spec.gt)

Level(spec, v) ==
    LET b == ToBoolean(v)
    IN  IF b = Dropped THEN Dropped ELSE IF b = BoolVal(TRUE) THEN spec.high ELSE spec.low

\* can_to_vss.  An error that the transform raised passes through.
CanToVss(e, v) ==
    LET spec == e.transform
        x == CASE spec.op = "linear"      -> Scaled(spec, v)
               [] spec.op = "threshold"   -> Exceeds(spec, v)
               [] spec.op = "enum"        -> LookUp(spec.map, 1, 2, v)
               [] spec.op = "passthrough" -> v
    IN  IF x \in {Dropped, Raised} THEN x ELSE CheckRange(e, CoerceValue(x, e.type))

\* vss_to_can: only a passthrough coerces what it sends.
VssToCan(e, v) ==
    LET spec == e.transform
    IN  CheckRange(e, CASE spec.op = "linear"      -> Unscaled(spec, v)
                        [] spec.op = "threshold"   -> Level(spec, v)
                        [] spec.op = "enum"        -> LookUp(spec.map, 2, 1, v)
                        [] spec.op = "passthrough" -> CoerceValue(v, e.type))
=============================================================================
