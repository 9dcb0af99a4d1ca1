------------------------------ MODULE MCTexts ------------------------------
(* RedisMgr with three clients and two contexts, and the two components    *)
(* that turn texts into values, Json and NifixExpression.  They share      *)
(* nothing: a behaviour is one of "part", for safety only, and the others  *)
(* stay as they are.                                                       *)
EXTENDS RedisMgr, Integers, TLC

CONSTANTS Documents, Decimals, MaxInt,   \* Json
          Expressions, BufferSize        \* NifixExpression

VARIABLES part,
          document, text, whole, result,
          expression, spread, outcome

J == INSTANCE Json
N == INSTANCE NifixExpression WITH answer <- outcome

-----------------------------------------------------------------------------
(* Scalars of every type, and containers of up to two of the elements:     *)
(* scalars and containers of at most one.  Strings have characters that    *)
(* must be escaped, doubles are hundredths.                                *)
Texts(n) == UNION {[1..k -> {"a", "\"", "\\", "\n"}] : k \in 0..n}
Arrays(Vals, n)      == {[arr |-> s] : s \in UNION {[1..k -> Vals] : k \in 0..n}}
Objects(Vals, Names) == {[obj |-> m] : m \in UNION {[K -> Vals] : K \in SUBSET Names}}

Few      == {[lit |-> "null"], [int |-> -12], [dbl |-> -50], [str |-> <<"\\", "\"">>]}
Inner    == Few \union Arrays(Few, 1) \union Objects(Few, {<<"a">>})

MCDocuments ==
    {[lit |-> l] : l \in {"null", "true", "false"}}
        \union {[int |-> n] : n \in {-100, -12, 0, 99}}
        \union {[dbl |-> n] : n \in {-50, 0, 7, 12345}}
        \union {[str |-> s] : s \in Texts(3)}
        \union Arrays(Inner, 2) \union Objects(Inner, {<<"a">>, <<"\"">>})

(* Expressions of up to three operations, the longest over fewer numbers.  *)
Numbers(digits) == {[num |-> d] : d \in digits}
Apply(Lefts, Rights) ==
    {[op |-> o, left |-> e, right |-> f] :
        o \in {"+", "-", "*", "/"}, e \in Lefts, f \in Rights}

Short    == Numbers({<<"0">>, <<"7">>, <<"1", "2">>})
Numerals == Numbers({<<"3">>, <<"1", "0">>})
Onefold  == Apply(Numerals, Numerals)
Twofold  == Apply(Onefold, Numerals) \union Apply(Numerals, Onefold)

MCExpressions ==
    Short \union Apply(Short, Short)
        \union Apply(Apply(Short, Short), Short) \union Apply(Short, Apply(Short, Short))
        \union Apply(Twofold, Numerals) \union Apply(Numerals, Twofold)
        \union Apply(Onefold, Onefold)

-----------------------------------------------------------------------------
redisVars == vars
jsonVars  == <<document, text, whole, result>>
nifixVars == <<expression, spread, outcome>>

(* One document and one expression for the behaviours of the other parts.  *)
JsonStays  == /\ document = [lit |-> "null"] /\ text = <<>> /\ whole = TRUE
              /\ result = J!NoResult
NifixStays == expression = [num |-> <<"0">>] /\ spread = FALSE /\ outcome = <<>>

TextsInit ==
    /\ part \in {"redis", "json", "nifix"}
    /\ Init
    /\ IF part = "json" THEN J!JsonInit ELSE JsonStays
    /\ IF part = "nifix" THEN N!NifixInit ELSE NifixStays

TextsNext ==
    /\ UNCHANGED part
    /\ \/ part = "redis" /\ Next /\ UNCHANGED <<jsonVars, nifixVars>>
       \/ part = "json" /\ J!JsonNext /\ UNCHANGED <<redisVars, nifixVars>>
       \/ part = "nifix" /\ N!NifixNext /\ UNCHANGED <<redisVars, jsonVars>>

TextsSpec == TextsInit /\ [][TextsNext]_<<part, redisVars, jsonVars, nifixVars>>

(* An invariant of a part is looked at in the behaviours of that part.     *)
TextsReadBack      == part = "json" => J!TextsReadBack
DefaultReadsText   == part = "json" => J!DefaultReadsText
EvaluatesAsWritten == part = "nifix" => N!EvaluatesAsWritten
=============================================================================
