-------------------------- MODULE NifixExpression --------------------------
(***************************************************************************)
(* breUtils/NifixExpression.hpp: the text of an expression is turned into  *)
(* postfix, in a buffer of spaces, and the postfix text is evaluated.  A   *)
(* character is a string.  Overflows of int are left out, and the texts    *)
(* are those of expressions: numbers, the four operators and parentheses.  *)
(***************************************************************************)
EXTENDS Integers, Sequences, SequencesExt

CONSTANTS Expressions,  \* bound: trees that are written as a text
          BufferSize    \* of exp_transplant's output: 100

VARIABLES expression,   \* the tree that is written
          spread,       \* with all the parentheses it can have?
          answer        \* of calculate_expression, once it has returned

nifixVars == <<expression, spread, answer>>

(* A tree is a number, the sequence of its digits, or an operation.        *)
Figures == <<"0", "1", "2", "3", "4", "5", "6", "7", "8", "9">>
Digit(c)    == (CHOOSE d \in DOMAIN Figures : Figures[d] = c) - 1
IsDigit(c)  == c \in ToSet(Figures)
Operators   == {"+", "-", "*", "/"}
IsNumber(e) == "num" \in DOMAIN e

NifixTypeOK ==
    /\ spread \in BOOLEAN
    /\ answer \in Seq(Int) /\ Len(answer) <= 1

NifixInit ==
    /\ expression \in Expressions
    /\ spread \in BOOLEAN
    /\ answer = <<>>

-----------------------------------------------------------------------------
(* A stack has its top at the end of a sequence.  Those above the place    *)
(* are popped, each with a space behind it.                                *)
Emit(stack, place) ==
    FlattenSeq([k \in 1..(Len(stack) - place) |-> <<Reverse(stack)[k], " ">>])

(* Mutant of symcmp: operators of the same rank wait for each other.       *)
symcmpRight(a, b) ==
    \/ b = "("
    \/ b \in {"*", "/"}
    \/ b \in {"+", "-"} /\ a \in {"(", "+", "-"}

(* Does b go on top of a, which then has to wait?                          *)
symcmp(a, b) ==
    \/ b = "("
    \/ b \in {"*", "/"} /\ a \in {"+", "-", "("}
    \/ b \in {"+", "-"} /\ a = "("

Spaced(out, lead) ==
    IF (IF out = <<>> THEN lead ELSE Last(out)) = " " THEN out ELSE Append(out, " ")

(* One character of the text.  A second character that is no digit after a *)
(* first one, "((", looks at what is in memory before the buffer: lead.    *)
Transplant(text, lead, s, i) ==
    LET c    == text[i]
        out  == IF i = 1 THEN s.out ELSE Spaced(s.out, lead)
        open == SelectLastInSeq(s.stack, LAMBDA a : a = "(")
        wait == SelectLastInSeq(s.stack, LAMBDA a : symcmp(a, c))
    IN  CASE IsDigit(c) -> [s EXCEPT !.out = Append(@, c)]
          [] c = ")"    -> [out   |-> out \o Emit(s.stack, open),
                            stack |-> SubSeq(s.stack, 1, open - 1)]
          [] OTHER      -> [out   |-> out \o Emit(s.stack, wait),
                            stack |-> Append(SubSeq(s.stack, 1, wait), c)]

exp_transplant(text, lead) ==
    LET end == FoldLeftDomain(LAMBDA s, i : Transplant(text, lead, s, i),
                              [out |-> <<>>, stack |-> <<>>], text)
        out == Spaced(end.out, lead) \o Emit(end.stack, 0)
    IN  out \o [k \in 1..(BufferSize - Len(out)) |-> " "]

-----------------------------------------------------------------------------
Absolute(n) == IF n < 0 THEN -n ELSE n

(* C++ rounds a quotient towards zero.                                     *)
Quotient(a, b) ==
    LET q == Absolute(a) \div Absolute(b) IN IF (a < 0) = (b < 0) THEN q ELSE -q

Apply(op, a, b) ==
    CASE op = "+" -> a + b
      [] op = "-" -> a - b
      [] op = "*" -> a * b
      [] op = "/" -> Quotient(a, b)

(* One character of the postfix text; what throws makes the answer 0.      *)
Evaluate(s, c) ==
    LET n      == Len(s.stack)
        throws == \/ s.thrown
                  \/ c \in Operators /\ (n < 2 \/ (c = "/" /\ s.stack[n] = 0))
    IN  CASE throws -> [s EXCEPT !.thrown = TRUE]
          [] ~throws /\ IsDigit(c) -> [s EXCEPT !.tmp = @ * 10 + Digit(c)]
          [] ~throws /\ c = " " -> [s EXCEPT !.stack = Append(@, s.tmp), !.tmp = 0]
          [] ~throws /\ c \in Operators ->
                [s EXCEPT !.stack = SubSeq(@, 1, n - 2),
                          !.tmp = Apply(c, s.stack[n - 1], s.stack[n])]

(* The spaces at the end push zeros, which the last loop takes off again.  *)
cal_s(postfix) ==
    LET end == FoldLeft(Evaluate, [stack |-> <<>>, tmp |-> 0, thrown |-> FALSE], postfix)
        top == SelectLastInSeq(end.stack, LAMBDA n : n # 0)
    IN  IF end.thrown \/ top = 0 THEN 0 ELSE end.stack[top]

-----------------------------------------------------------------------------
(* How an expression is written: with the parentheses it needs, or around  *)
(* every operation.                                                        *)
Rank(e) == IF IsNumber(e) THEN 3 ELSE IF e.op \in {"*", "/"} THEN 2 ELSE 1

RECURSIVE Written(_, _)
Written(e, all) ==
    IF IsNumber(e) THEN e.num
    ELSE LET Part(operand, bare) ==
                 IF bare \/ all THEN Written(operand, all)
                                ELSE <<"(">> \o Written(operand, all) \o <<")">>
             text == Part(e.left, Rank(e.left) >= Rank(e)) \o <<e.op>>
                         \o Part(e.right, Rank(e.right) > Rank(e))
         IN  IF all THEN <<"(">> \o text \o <<")">> ELSE text

calculate_expression ==
    /\ answer = <<>>
    /\ \E lead \in {" ", "other"} :
          answer' = <<cal_s(exp_transplant(Written(expression, spread), lead))>>
    /\ UNCHANGED <<expression, spread>>

NifixNext == calculate_expression

NifixSpec == NifixInit /\ [][NifixNext]_nifixVars

-----------------------------------------------------------------------------
(* What an expression means: a sequence of one number, or of none if it    *)
(* divides by zero.                                                        *)
RECURSIVE Meaning(_)
Meaning(e) ==
    IF IsNumber(e) THEN <<FoldLeft(LAMBDA n, c : n * 10 + Digit(c), 0, e.num)>>
    ELSE LET a == Meaning(e.left)  b == Meaning(e.right)
         IN  IF a = <<>> \/ b = <<>> \/ (e.op = "/" /\ b = <<0>>) THEN <<>>
             ELSE <<Apply(e.op, a[1], b[1])>>

(* The value of a text is that of the expression it was written from, with *)
(* the usual ranks and from left to right among equals, whatever           *)
(* parentheses are there for nothing, in which range it falls, and         *)
(* whatever was in memory before the buffer; or 0 if something in it       *)
(* divides by zero (NifixExpression.hpp:20-127).                           *)
EvaluatesAsWritten ==
    /\ NifixTypeOK
    /\ answer # <<>> =>
          answer = IF Meaning(expression) = <<>> THEN <<0>> ELSE Meaning(expression)
=============================================================================
