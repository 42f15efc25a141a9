----------------------------- MODULE BoostFrame -----------------------------
(***************************************************************************)
(* How a line becomes a boost frame: psx_parse_boost_frame (psx.c) splits  *)
(* it into fields, parse_ground_flag, parse_int, parse_long, parse_double  *)
(* (utils.c) convert them.  Integers are accepted if converting them back  *)
(* yields the same text; what the C library makes of a number outside the  *)
(* type is undefined, so any value of the type may come back.  Coordinates *)
(* are not checked, here their value is their text.  Every function yields *)
(* the set of its possible results.                                        *)
(***************************************************************************)
EXTENDS Integers, Sequences, FiniteSets

CONSTANTS
    Fields,                     \* the kinds of the fields, in their order
    NUMBER_PARSING_BUFFER_SIZE,
    INT_BITS, LONG_BITS,
    Alphabet, MaxLength,        \* bound the lines that are tried
    NULL                        \* stands for failure

ASSUME BoostFrameAssumption ==
    /\ Fields \in Seq({"ground", "int", "long", "double"}) /\ Fields # << >>
    /\ NUMBER_PARSING_BUFFER_SIZE \in Nat \ {0}
    /\ INT_BITS \in Nat \ {0} /\ LONG_BITS \in Nat \ {0}
    /\ MaxLength \in Nat

Digits == <<"0", "1", "2", "3", "4", "5", "6", "7", "8", "9">>
DigitSet == {Digits[i] : i \in DOMAIN Digits}
DigitValue(ch) == (CHOOSE i \in DOMAIN Digits : Digits[i] = ch) - 1

Blank == " "
Separator == ";"

FieldValues == BOOLEAN \cup Int \cup Seq(Alphabet)

ASSUME NullAssumption == NULL \notin FieldValues \cup Seq(FieldValues)

LinesUpTo(n) == UNION {[1 .. length -> Alphabet] : length \in 0 .. n}
-----------------------------------------------------------------------------
\* The C library.  The part of s before the first character that is not in S.
Leading(s, S) ==
    LET n == CHOOSE k \in 0 .. Len(s) :
               /\ \A i \in 1 .. k : s[i] \in S
               /\ k < Len(s) => s[k + 1] \notin S
    IN  SubSeq(s, 1, n)

Behind(s, prefix) == SubSeq(s, Len(prefix) + 1, Len(s))

NumberOf(digits) ==
    LET value[n \in 0 .. Len(digits)] ==
          IF n = 0 THEN 0 ELSE 10 * value[n - 1] + DigitValue(digits[n])
    IN  value[Len(digits)]

IntegerRange(bits) == -(2 ^ (bits - 1)) .. 2 ^ (bits - 1) - 1

\* What atoi and atol may return for s.
Converted(s, bits) ==
    LET text == Behind(s, Leading(s, {Blank}))
        sign == IF text # << >> /\ Head(text) \in {"+", "-"} THEN <<Head(text)>> ELSE << >>
        number == NumberOf(Leading(Behind(text, sign), DigitSet))
        signed == IF sign = <<"-">> THEN -number ELSE number
    IN  IF signed \in IntegerRange(bits) THEN {signed} ELSE IntegerRange(bits)

\* snprintf with %d or %ld.
Decimal[n \in Nat] ==
    IF n < 10 THEN <<Digits[n + 1]>> ELSE Append(Decimal[n \div 10], Digits[(n % 10) + 1])

Printed(v) == IF v < 0 THEN <<"-">> \o Decimal[-v] ELSE Decimal[v]

\* apply_string_to_buffer.
FitsBuffer(s) == Len(s) < NUMBER_PARSING_BUFFER_SIZE

\* Mutant: only the lengths are compared.
ParsedIntegerByLength(s, bits, memory) ==
    IF FitsBuffer(s) /\ memory
    THEN {IF Len(Printed(v)) = Len(s) THEN v ELSE NULL : v \in Converted(s, bits)}
    ELSE {NULL}

\* parse_int and parse_long, which allocate memory for the text they compare with.
ParsedInteger(s, bits, memory) ==
    IF FitsBuffer(s) /\ memory
    THEN {IF Printed(v) = s THEN v ELSE NULL : v \in Converted(s, bits)}
    ELSE {NULL}

ParsedDouble(s) == {IF FitsBuffer(s) THEN s ELSE NULL}

parse_ground_flag(s) ==
    {IF s = <<"G">> THEN TRUE ELSE IF s = <<"F">> THEN FALSE ELSE NULL}

Parsed(kind, s, memory) ==
    CASE kind = "ground" -> parse_ground_flag(s)
      [] kind = "int" -> ParsedInteger(s, INT_BITS, memory)
      [] kind = "long" -> ParsedInteger(s, LONG_BITS, memory)
      [] kind = "double" -> ParsedDouble(s)
-----------------------------------------------------------------------------
\* A field ends before the next separator, or with the line.
FieldEnd(line, start) ==
    CHOOSE e \in start .. Len(line) + 1 :
        /\ e <= Len(line) => line[e] = Separator
        /\ \A i \in start .. e - 1 : line[i] # Separator

\* The number of fields is checked at the end of the line.
AtLineEnd(field) == IF field = Len(Fields) THEN {<< >>} ELSE {NULL}

InFrontOf(value, other) ==
    IF value = NULL \/ other = NULL THEN NULL ELSE <<value>> \o other

\* From a field on, given the results from the next field on for each place of the line.
ParsedFrom(following, field, start, line, memory) ==
    LET end == FieldEnd(line, start)
        values == Parsed(Fields[field], SubSeq(line, start, end - 1), memory)
        others == IF end > Len(line) THEN AtLineEnd(field) ELSE following[end + 1]
    IN  UNION {{InFrontOf(value, other) : other \in others} : value \in values}

psx_parse_boost_frame(line, memory) ==
    LET parsed[field \in 1 .. Len(Fields) + 1] ==
          [start \in 1 .. Len(line) + 1 |->
             IF field > Len(Fields) THEN {NULL}
             ELSE ParsedFrom(parsed[field + 1], field, start, line, memory)]
    IN  parsed[1][1]
-----------------------------------------------------------------------------
\* The lines that are a boost frame, without scanning: one text per field, with
\* separators in between.
Separators(line) == {i \in DOMAIN line : line[i] = Separator}

Text(line, k) ==
    LET start == CHOOSE i \in 1 .. Len(line) + 1 :
                   /\ i = 1 \/ i - 1 \in Separators(line)
                   /\ Cardinality({j \in Separators(line) : j < i}) = k - 1
        end == CHOOSE i \in start .. Len(line) + 1 :
                 /\ i = Len(line) + 1 \/ i \in Separators(line)
                 /\ Separators(line) \cap start .. i - 1 = {}
    IN  SubSeq(line, start, end - 1)

\* Integers as PSX writes them, without leading zeros, plus or blanks.
IsCanonical(s) ==
    LET digits == IF s # << >> /\ Head(s) = "-" THEN Tail(s) ELSE s
    IN  /\ digits # << >> /\ \A i \in DOMAIN digits : digits[i] \in DigitSet
        /\ Head(digits) = "0" => s = <<"0">>

SignedValue(s) == IF Head(s) = "-" THEN -NumberOf(Tail(s)) ELSE NumberOf(s)

IsInteger(s, bits) == FitsBuffer(s) /\ IsCanonical(s) /\ SignedValue(s) \in IntegerRange(bits)

IsField(kind, s) ==
    CASE kind = "ground" -> s \in {<<"G">>, <<"F">>}
      [] kind = "int" -> IsInteger(s, INT_BITS)
      [] kind = "long" -> IsInteger(s, LONG_BITS)
      [] kind = "double" -> FitsBuffer(s)

IsBoostFrame(line) ==
    /\ Cardinality(Separators(line)) + 1 = Len(Fields)
    /\ \A k \in DOMAIN Fields : IsField(Fields[k], Text(line, k))

FieldValue(kind, s) ==
    CASE kind = "ground" -> s = <<"G">>
      [] kind \in {"int", "long"} -> SignedValue(s)
      [] kind = "double" -> s

BoostFrameOf(line) == [k \in DOMAIN Fields |-> FieldValue(Fields[k], Text(line, k))]
=============================================================================
