--------------------------- MODULE IniConfigLoad ---------------------------
(***************************************************************************)
(* breUtils/configLoad/iniConfigLoad.hpp: one map of sections for the      *)
(* program, into which Inst reads a file line by line.  The once_flag of   *)
(* Inst is a local variable, so every call loads the file it names into    *)
(* what was read before.  A character of a line is a string.               *)
(*                                                                         *)
(* The files hold what an author means by them: sections, assignments and  *)
(* lines that mean nothing, with blanks and comments around them.          *)
(***************************************************************************)
EXTENDS Naturals, Sequences, SequencesExt

CONSTANTS SectionNames, Keys, Values,  \* bound: of the files, sequences of characters
          Comments,                    \* what may follow on a line
          Noise                        \* lines that are neither

VARIABLES _config_map,      \* what was read, by section and key
          current_section,
          first,            \* history: Inst was called once so far
          meant,            \* history: what the first file says, by section and key
          under             \* history: the section the author has come to

iniVars == <<_config_map, current_section, first, meant, under>>

Blanks   == {" ", "\t", "\r"}
Places   == (SectionNames \union {<<>>}) \X Keys
Nothing  == [place \in {} |-> <<>>]

IniTypeOK ==
    /\ DOMAIN _config_map \subseteq Places
    /\ \A place \in DOMAIN _config_map : _config_map[place] \in Values
    /\ current_section \in SectionNames \union {<<>>}

IniInit ==
    /\ _config_map = Nothing
    /\ current_section = <<>>
    /\ first = TRUE
    /\ meant = Nothing
    /\ under = <<>>

-----------------------------------------------------------------------------
Trim(text) ==
    LET inner == {p \in DOMAIN text : text[p] \notin Blanks}
    IN  IF inner = {} THEN <<>> ELSE SubSeq(text, Min(inner), Max(inner))

WithoutComment(line) ==
    LET comment == SelectInSeq(line, LAMBDA c : c = ";")
    IN  IF comment = 0 THEN line ELSE SubSeq(line, 1, comment - 1)

IsSection(text) == text # <<>> /\ Head(text) = "[" /\ Last(text) = "]"

(* One place of a map of sections gets a value.                            *)
Put(map, place, value) ==
    [p \in DOMAIN map \union {place} |-> IF p = place THEN value ELSE map[p]]

(* Mutant of Equal: the last sign of a line for the first.                 *)
EqualLast(text) == SelectLastInSeq(text, LAMBDA c : c = "=")

Equal(text) == SelectInSeq(text, LAMBDA c : c = "=")

(* One round of loadConfig's loop.                                         *)
ReadLine(line) ==
    LET text  == Trim(WithoutComment(line))
        equal == Equal(text)
    IN  \/ /\ IsSection(text)
           /\ current_section' = SubSeq(text, 2, Len(text) - 1)
           /\ UNCHANGED _config_map
        \/ /\ ~IsSection(text) /\ equal > 0
           /\ LET key   == Trim(SubSeq(text, 1, equal - 1))
                  value == Trim(SubSeq(text, equal + 1, Len(text)))
              IN  _config_map' = Put(_config_map, <<current_section, key>>, value)
           /\ UNCHANGED current_section
        \/ /\ ~IsSection(text) /\ equal = 0
           /\ UNCHANGED <<_config_map, current_section>>

(* A missing section and a missing key read as an empty value.             *)
GetValue(section, key) ==
    IF <<section, key>> \in DOMAIN _config_map THEN _config_map[<<section, key>>]
                                               ELSE <<>>

-----------------------------------------------------------------------------
(* A call of Inst opens a file, whatever was loaded before; the file of    *)
(* the call before has ended by then.                                      *)
Inst ==
    /\ current_section' = <<>>
    /\ under' = <<>>
    /\ first' = FALSE
    /\ meant' = Nothing
    /\ UNCHANGED _config_map

Indented(text) == <<"\t", " ">> \o text \o <<" ", "\r">>

Lines(text) ==
    {line \o comment : line \in {text, Indented(text)}, comment \in Comments}

SectionLine(name) ==
    /\ \E line \in Lines(<<"[">> \o name \o <<"]">>) : ReadLine(line)
    /\ under' = name
    /\ UNCHANGED <<first, meant>>

AssignmentLine(key, value) ==
    /\ \E gap \in {<<>>, <<" ", "\t">>} :
          \E line \in Lines(key \o gap \o <<"=">> \o gap \o value) : ReadLine(line)
    /\ meant' = IF first THEN Put(meant, <<under, key>>, value) ELSE meant
    /\ UNCHANGED <<first, under>>

NoiseLine ==
    /\ \E text \in Noise : \E line \in Lines(text) : ReadLine(line)
    /\ UNCHANGED <<first, meant, under>>

IniNext ==
    \/ Inst \/ NoiseLine
    \/ \E name \in SectionNames : SectionLine(name)
    \/ \E key \in Keys, value \in Values : AssignmentLine(key, value)

IniSpec == IniInit /\ [][IniNext]_iniVars

-----------------------------------------------------------------------------
(* The map holds, for every section and key, what the last assignment to   *)
(* it in the file says, and nothing else: whatever stands around it, and   *)
(* however often a section begins anew (iniConfigLoad.hpp:86-137).  A call *)
(* of Inst with another file is not to load it (line 8), and loads it: of  *)
(* what the map holds then nothing is said.                                *)
LastAssignmentHolds ==
    /\ IniTypeOK
    /\ current_section = under
    /\ first =>
          /\ DOMAIN _config_map = DOMAIN meant
          /\ \A place \in Places :
                GetValue(place[1], place[2]) =
                    IF place \in DOMAIN meant THEN meant[place] ELSE <<>>
=============================================================================
