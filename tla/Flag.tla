-------------------------------- MODULE Flag --------------------------------
(***************************************************************************)
(* Flag of breUtils/flag/flag.hpp: Parse walks the command line once, one  *)
(* step per pass of its loop.  An argument is modelled by what Parse looks *)
(* at: how many '-' it begins with, the text up to the first '=', and the  *)
(* text behind it.  "-5" is the argument with one dash and the text "5".   *)
(* The only numbers are those that fit in an int.                          *)
(*                                                                         *)
(* exit and an exception nobody catches both end the program: "stopped".   *)
(***************************************************************************)
EXTENDS Naturals, Sequences, FiniteSets

CONSTANTS TypeOf,        \* the flags registered before Parse, with their types;
                         \* no name begins with '-' or holds a '='
          Numbers,       \* the texts that stoi and stoul can read
          Arguments,     \* the arguments a command line is made of
          MaxArguments   \* bound: its length

NoText    == "none"      \* there is no '='
TrueWords  == {"1", "t", "T", "true", "TRUE", "True"}
FalseWords == {"0", "f", "F", "false", "FALSE", "False"}

VARIABLES argv,    \* the command line, without the program's name
          i,       \* the argument to look at
          value,   \* what the flags' variables hold; <<"default">> until set
          args,    \* m_positional_args
          parse    \* "parsing", "parsed" (m_is_parsed), "stopped"

flagVars == <<argv, i, value, args, parse>>

FlagInit ==
    /\ argv \in UNION {[1..n -> Arguments] : n \in 0..MaxArguments}
    /\ i = 1
    /\ value = [f \in DOMAIN TypeOf |-> <<"default">>]
    /\ args = <<>>
    /\ parse = "parsing"

-----------------------------------------------------------------------------
Plain(a) == a.dashes = 0
Empty(a) == Plain(a) /\ a.text = "" /\ a.rest = NoText

(* judgeSuitableValue: stoi reads as far as it can, so "5=3" is a number.  *)
judgeSuitableValue(type, a) ==
    \/ type = "bool"   /\ Plain(a) /\ a.rest = NoText /\ a.text \in TrueWords \union FalseWords
    \/ type = "int"    /\ a.dashes <= 1 /\ a.text \in Numbers
    \/ type = "uint"   /\ Plain(a) /\ a.text \in Numbers
    \/ type = "string" /\ ~Empty(a)

(* stringToBool.                                                           *)
WordValue(word) == IF word \in TrueWords THEN <<"true">> ELSE <<"false">>

(* What the flag's variable holds after SetVal with a suitable argument    *)
(* that follows it, or with the text behind its own '='.                   *)
Given(type, a) == CASE type = "bool" -> WordValue(a.text)
                    [] type \in {"int", "uint"} -> <<a.dashes, a.text>>
                    [] type = "string" -> <<a.dashes, a.text, a.rest>>

Assigned(type, text) ==
    CASE type = "bool" -> IF text = "true" THEN <<"true">> ELSE <<"false">>
      [] type \in {"int", "uint"} -> <<0, text>>
      [] type = "string" -> <<0, text, NoText>>

Throws(type, text) == type \in {"int", "uint"} /\ text \notin Numbers

(* A third dash belongs to the name.  The name of an argument with two     *)
(* dashes and a '=' is cut off one character late and takes the '=' along. *)
(* No flag has such a name.                                                *)
Known(a) == /\ a.dashes \in {1, 2}
            /\ ~(a.dashes = 2 /\ a.rest # NoText)
            /\ a.text \in DOMAIN TypeOf

-----------------------------------------------------------------------------
(* The passes of the loop.                                                 *)
At(a) == parse = "parsing" /\ i <= Len(argv) /\ a = argv[i]

(* Mutant of Set: a value is looked at once more, as an argument.          *)
SetOneStep(f, v, step) == /\ value' = [value EXCEPT ![f] = v]
                          /\ i' = i + 1
                          /\ UNCHANGED <<argv, args, parse>>

Set(f, v, step) == /\ value' = [value EXCEPT ![f] = v]
                   /\ i' = i + step
                   /\ UNCHANGED <<argv, args, parse>>

Stop == parse' = "stopped" /\ UNCHANGED <<argv, i, value, args>>

ParseNothing == parse = "parsing" /\ argv = <<>> /\ Stop

ParsePositional(a) ==
    /\ At(a) /\ Plain(a)
    /\ args' = Append(args, a)
    /\ i' = i + 1
    /\ UNCHANGED <<argv, value, parse>>

ParseUnknown(a) == At(a) /\ ~Plain(a) /\ ~Known(a) /\ Stop

ParseAssigned(a) ==
    /\ At(a) /\ Known(a) /\ a.rest # NoText
    /\ LET type == TypeOf[a.text] IN
         \/ Throws(type, a.rest) /\ Stop
         \/ ~Throws(type, a.rest) /\ Set(a.text, Assigned(type, a.rest), 1)

ParseLast(a) ==
    /\ At(a) /\ Known(a) /\ a.rest = NoText /\ i = Len(argv)
    /\ \/ TypeOf[a.text] = "bool" /\ Set(a.text, <<"true">>, 1)
       \/ TypeOf[a.text] # "bool" /\ Stop

ParseNext(a) ==
    /\ At(a) /\ Known(a) /\ a.rest = NoText /\ i < Len(argv)
    /\ LET type == TypeOf[a.text]
           b    == argv[i + 1]
       IN  \/ /\ judgeSuitableValue(type, b)
              /\ Set(a.text, Given(type, b), 2)
           \/ /\ ~judgeSuitableValue(type, b)
              /\ type = "bool" /\ ~Plain(b)
              /\ Set(a.text, <<"true">>, 1)
           \/ /\ ~judgeSuitableValue(type, b)
              /\ type # "bool" \/ Plain(b)
              /\ Stop

ParseEnd ==
    /\ parse = "parsing" /\ argv # <<>> /\ i > Len(argv)
    /\ parse' = "parsed"
    /\ UNCHANGED <<argv, i, value, args>>

FlagNext ==
    \/ ParseNothing \/ ParseEnd
    \/ \E a \in Arguments : \/ ParsePositional(a) \/ ParseUnknown(a)
                             \/ ParseAssigned(a) \/ ParseLast(a) \/ ParseNext(a)

-----------------------------------------------------------------------------
(* A second reading of a command line, from the header comment             *)
(* (flag.hpp:8-9): which arguments are flags, and which are their values.   *)
TakesNext(k) ==
    /\ argv[k].rest = NoText
    /\ k < Len(argv)
    /\ TypeOf[argv[k].text] = "bool" => judgeSuitableValue("bool", argv[k + 1])

IsFlag[k \in 0..MaxArguments] ==
    /\ k > 0
    /\ ~Plain(argv[k])
    /\ ~(IsFlag[k - 1] /\ TakesNext(k - 1))

Uses(f)      == {k \in DOMAIN argv : IsFlag[k] /\ argv[k].text = f}
LastUse(f)   == CHOOSE k \in Uses(f) : \A l \in Uses(f) : l <= k
Positional   == {k \in DOMAIN argv : ~IsFlag[k] /\ ~(IsFlag[k - 1] /\ TakesNext(k - 1))}

ValueOf(f) ==
    LET k == LastUse(f) IN
    IF argv[k].rest # NoText THEN Assigned(TypeOf[f], argv[k].rest)
    ELSE IF TakesNext(k) THEN Given(TypeOf[f], argv[k + 1])
    ELSE <<"true">>

(* A bool was last given another word than true or false behind '='.       *)
OtherWord(f) == /\ TypeOf[f] = "bool"
                /\ argv[LastUse(f)].rest \notin {NoText, "true", "false"}

(* Of a command line that is accepted no argument is read twice or         *)
(* dropped: every flag has the value of its last use, a bool without a     *)
(* value is true, and what is neither a flag nor its value is positional,  *)
(* in order (flag.hpp:412-485).  Nothing is said of a bool with another    *)
(* word behind '=': -b=T is true in the usage comment (line 9), not to the *)
(* code.                                                                   *)
EveryArgumentIsRead ==
    parse = "parsed" =>
        /\ \A f \in DOMAIN TypeOf :
              \/ Uses(f) = {} /\ value[f] = <<"default">>
              \/ Uses(f) # {} /\ (value[f] = ValueOf(f) \/ OtherWord(f))
        /\ Len(args) = Cardinality(Positional)
        /\ \A k \in Positional :
              args[Cardinality({l \in Positional : l <= k})] = argv[k]
=============================================================================
