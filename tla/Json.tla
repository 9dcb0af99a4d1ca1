-------------------------------- MODULE Json --------------------------------
(***************************************************************************)
(* Generator and Parser of breUtils/Json: a document is written as a text, *)
(* which may be cut off on its way, and the text is read again.            *)
(*                                                                         *)
(* A character of a text is a string; null, true and false count as one    *)
(* character each.  A double is a number of the last of Decimals decimals: *)
(* to_string writes so many and no others.  Positions begin at 1.  \u,     *)
(* which Generator never writes, and exponents are left out.               *)
(***************************************************************************)
EXTENDS Integers, Sequences, SequencesExt

CONSTANTS Documents,  \* the Values a program may write
          Decimals,   \* of std::to_string(double): 6
          MaxInt      \* of int

VARIABLES document,
          text,
          whole,      \* history: the text was not cut off
          result      \* of Parser::parse, and whether it was strict

jsonVars == <<document, text, whole, result>>

(* Values: of each type a field of its own.                                *)
Literals == {"null", "true", "false"}
IsOf(v, type) == type \in DOMAIN v
NoMembers == [key \in {} |-> [lit |-> "null"]]

Digits == <<"0", "1", "2", "3", "4", "5", "6", "7", "8", "9">>
Quote  == "\""
Back   == "\\"
Spaces == {" ", "\n"}

(* The characters behind a backslash, and what they stand for.             *)
EscapeOf == [c \in {Quote, Back, "\n", "\t"} |->
                IF c = "\n" THEN "n" ELSE IF c = "\t" THEN "t" ELSE c]
MeaningOf == [e \in {Quote, Back, "/", "n", "t"} |->
                IF e = "n" THEN "\n" ELSE IF e = "t" THEN "\t" ELSE e]

-----------------------------------------------------------------------------
(* Generator.                                                              *)
RECURSIVE Numeral(_, _)
Numeral(n, width) ==    \* at least width digits
    IF n < 10 /\ width <= 1 THEN <<Digits[n + 1]>>
    ELSE Append(Numeral(n \div 10, width - 1), Digits[(n % 10) + 1])

Sign(n)      == IF n < 0 THEN <<"-">> ELSE <<>>
Absolute(n)  == IF n < 0 THEN -n ELSE n
IntText(n)   == Sign(n) \o Numeral(Absolute(n), 1)
DoubleText(n) ==
    Sign(n) \o Numeral(Absolute(n) \div (10^Decimals), 1) \o <<".">>
        \o Numeral(Absolute(n) % (10^Decimals), Decimals)

(* Mutant of escapeString: a backslash is written as it is.                *)
escapeStringNotBack(s) ==
    FlattenSeq([k \in DOMAIN s |->
        IF s[k] \in DOMAIN EscapeOf \ {Back} THEN <<Back, EscapeOf[s[k]]>> ELSE <<s[k]>>])

escapeString(s) ==
    FlattenSeq([k \in DOMAIN s |->
        IF s[k] \in DOMAIN EscapeOf THEN <<Back, EscapeOf[s[k]]>> ELSE <<s[k]>>])

StringText(s) == <<Quote>> \o escapeString(s) \o <<Quote>>

Indent(level, width) == [k \in 1..(level * width) |-> " "]
LineEnd(width)       == IF width > 0 THEN <<"\n">> ELSE <<>>

(* The lines of a container: every element but the last has a comma.       *)
Bracketed(open, elements, close, level, width) ==
    IF elements = <<>> THEN <<open, close>>
    ELSE <<open>> \o LineEnd(width)
         \o FlattenSeq([k \in DOMAIN elements |->
               Indent(level, width) \o elements[k]
                  \o (IF k < Len(elements) THEN <<",">> ELSE <<>>) \o LineEnd(width)])
         \o Indent(level - 1, width) \o <<close>>

(* An unordered_map lists its keys in an order of its own.                 *)
KeyOrder(members, reversed) ==
    LET keys == SetToSeq(DOMAIN members) IN IF reversed THEN Reverse(keys) ELSE keys

RECURSIVE generateValue(_, _, _, _)
generateValue(v, level, width, reversed) ==
    CASE IsOf(v, "lit") -> <<v.lit>>
      [] IsOf(v, "int") -> IntText(v.int)
      [] IsOf(v, "dbl") -> DoubleText(v.dbl)
      [] IsOf(v, "str") -> StringText(v.str)
      [] IsOf(v, "arr") ->
            Bracketed("[", [k \in DOMAIN v.arr |->
                              generateValue(v.arr[k], level + 1, width, reversed)],
                      "]", level + 1, width)
      [] IsOf(v, "obj") ->
            LET keys == KeyOrder(v.obj, reversed)
            IN  Bracketed("{", [k \in DOMAIN keys |->
                                  StringText(keys[k]) \o <<":", " ">>
                                     \o generateValue(v.obj[keys[k]], level + 1, width, reversed)],
                          "}", level + 1, width)

-----------------------------------------------------------------------------
(* Parser.  A function of it returns a value and the position behind it.   *)
Parsed(v, p) == [value |-> v, at |-> p]
Threw(r)     == "thrown" \in DOMAIN r

(* throwException cuts its message out of the text; behind the end of the  *)
(* text that throws another exception.                                     *)
throwException(in, p) ==
    [thrown |-> IF p <= Len(in) THEN "JsonParseException" ELSE "out_of_range"]

CharAt(in, p) == IF p <= Len(in) THEN in[p] ELSE "end"

(* The first position from p on whose character is not in the set.         *)
PastAll(in, p, set) ==
    CHOOSE q \in p..(Len(in) + 1) :
        /\ CharAt(in, q) \notin set
        /\ \A k \in p..(q - 1) : in[k] \in set

skipWhitespace(in, p) == PastAll(in, p, Spaces)

DigitValue(c) == (CHOOSE d \in DOMAIN Digits : Digits[d] = c) - 1
Number(in, p, q) ==     \* of the digits from p to before q
    FoldLeft(LAMBDA n, c : n * 10 + DigitValue(c), 0, SubSeq(in, p, q - 1))

(* A numeral too large for int, or one with a point, becomes a double.     *)
parseNumber(in, p) ==
    LET negative == in[p] = "-"
        first    == IF negative THEN p + 1 ELSE p
        point    == PastAll(in, first, Range(Digits))
        end      == IF CharAt(in, point) = "." THEN PastAll(in, point + 1, Range(Digits))
                                               ELSE point
        Signed(n) == IF negative THEN -n ELSE n
        n        == Number(in, first, point)
        fraction == Number(in, point + 1, end) * 10^(Decimals - (end - point - 1))
    IN  IF end > point
        THEN IF end - first = 1 THEN throwException(in, end)
             ELSE Parsed([dbl |-> Signed(n * 10^Decimals + fraction)], end)
        ELSE IF point = first THEN throwException(in, end)
             ELSE IF Signed(n) \in (-MaxInt - 1)..MaxInt THEN Parsed([int |-> Signed(n)], end)
             ELSE Parsed([dbl |-> Signed(n * 10^Decimals)], end)

RECURSIVE StringFrom(_, _, _)
StringFrom(in, p, read) ==
    LET c == CharAt(in, p) IN
    CASE c = "end" -> throwException(in, p)
      [] c = Quote -> Parsed([str |-> read], p + 1)
      [] c = Back  -> IF CharAt(in, p + 1) \in DOMAIN MeaningOf
                      THEN StringFrom(in, p + 2, Append(read, MeaningOf[in[p + 1]]))
                      ELSE throwException(in, p + 1)
      [] OTHER     -> StringFrom(in, p + 1, Append(read, c))

parseString(in, p) == StringFrom(in, p + 1, <<>>)

With(members, key, v) ==
    [k \in DOMAIN members \union {key} |-> IF k = key THEN v ELSE members[k]]

RECURSIVE parseValue(_, _), ArrayFrom(_, _, _), ObjectFrom(_, _, _)

(* The elements from p on, behind those read already.                      *)
ArrayFrom(in, p, read) ==
    LET e == parseValue(in, p) IN
    IF Threw(e) THEN e
    ELSE LET q    == skipWhitespace(in, e.at)
             now  == Append(read, e.value)
         IN  CASE CharAt(in, q) = "," -> ArrayFrom(in, skipWhitespace(in, q + 1), now)
               [] CharAt(in, q) = "]" -> Parsed([arr |-> now], q + 1)
               [] OTHER               -> throwException(in, q)

parseArray(in, p) ==
    LET q == skipWhitespace(in, p + 1)
    IN  IF CharAt(in, q) = "]" THEN Parsed([arr |-> <<>>], q + 1) ELSE ArrayFrom(in, q, <<>>)

ObjectFrom(in, p, read) ==
    LET key == parseString(in, p) IN
    IF CharAt(in, p) # Quote THEN throwException(in, p)
    ELSE IF Threw(key) THEN key
    ELSE LET colon == skipWhitespace(in, key.at)
             v     == parseValue(in, colon + 1)
         IN  IF CharAt(in, colon) # ":" THEN throwException(in, colon)
             ELSE IF Threw(v) THEN v
             ELSE LET q   == skipWhitespace(in, v.at)
                      now == With(read, key.value.str, v.value)
                  IN  CASE CharAt(in, q) = "," -> ObjectFrom(in, skipWhitespace(in, q + 1), now)
                        [] CharAt(in, q) = "}" -> Parsed([obj |-> now], q + 1)
                        [] OTHER               -> throwException(in, q)

parseObject(in, p) ==
    LET q == skipWhitespace(in, p + 1)
    IN  IF CharAt(in, q) = "}" THEN Parsed([obj |-> NoMembers], q + 1)
                               ELSE ObjectFrom(in, q, NoMembers)

parseValue(in, start) ==
    LET p == skipWhitespace(in, start)
        c == CharAt(in, p)
    IN  CASE c \in Literals                -> Parsed([lit |-> c], p + 1)
          [] c = Quote                     -> parseString(in, p)
          [] c = "["                       -> parseArray(in, p)
          [] c = "{"                       -> parseObject(in, p)
          [] c \in Range(Digits) \union {"-"} -> parseNumber(in, p)
          [] OTHER                         -> throwException(in, p)

-----------------------------------------------------------------------------
NoResult == [strict |-> FALSE, of |-> [thrown |-> "nothing"]]

JsonInit ==
    /\ document \in Documents
    /\ text = <<>>
    /\ whole = TRUE
    /\ result = NoResult

generate(width, reversed) ==
    /\ text = <<>>
    /\ text' = generateValue(document, 0, width, reversed)
    /\ UNCHANGED <<document, whole, result>>

(* A file that was not written to its end.                                 *)
CutOff(length) ==
    /\ length \in 1..(Len(text) - 1)
    /\ whole /\ result = NoResult
    /\ text' = SubSeq(text, 1, length)
    /\ whole' = FALSE
    /\ UNCHANGED <<document, result>>

(* Unless is_strict is set the text without its comments goes into a       *)
(* second cleanStr, inside the if, and the empty one is parsed.            *)
parse(is_strict) ==
    /\ text # <<>> /\ result = NoResult
    /\ result' = [strict |-> is_strict,
                  of |-> parseValue(IF is_strict THEN text ELSE <<>>, 1)]
    /\ UNCHANGED <<document, text, whole>>

JsonNext ==
    \/ \E width \in {0, 1}, reversed \in BOOLEAN : generate(width, reversed)
    \/ \E length \in 1..Len(text) : CutOff(length)
    \/ \E is_strict \in BOOLEAN : parse(is_strict)

-----------------------------------------------------------------------------
(* Strict parsing gives back the document that was written, indented or    *)
(* not, whatever its strings hold, and uses the text up; of a string, an   *)
(* array or an object it accepts no text that was cut off                  *)
(* (json_parse.hpp:42-288, json_generator.hpp:25-97).                      *)
TextsReadBack ==
    result.strict =>
        /\ whole => result.of = Parsed(document, Len(text) + 1)
        /\ ~whole /\ (DOMAIN document \subseteq {"str", "arr", "obj"}) => Threw(result.of)

(* "By default, strict mode is disabled" (Json.hpp:12), and the test reads *)
(* the text of a document without it and finds an equal one                *)
(* (test_json.hpp:155, 231): what Generator wrote is not refused.          *)
DefaultReadsText ==
    (result # NoResult /\ whole) => ~Threw(result.of)
=============================================================================
