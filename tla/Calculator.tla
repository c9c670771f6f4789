----------------------------- MODULE Calculator -----------------------------
(***************************************************************************)
(* The calculator of gtk/Chapter15, key by key.  A number is typed into    *)
(* input_buffer, which a key that needs an operand turns into one; when    *)
(* nothing is typed the last result is the operand.  A result is kept as   *)
(* the operation that gives it, so only a typed 0 is known to be zero, and *)
(* what is shown of it, six digits, is not the result itself.              *)
(***************************************************************************)
EXTENDS Integers, Sequences, SequencesExt

CONSTANTS
  MAX_CHAR,   \* what input_buffer holds
  MaxKeys     \* bound: keys pressed

Digit    == {"0", "1"}
Operator == {"Plus", "Minus", "Multiply", "Divide"}
NoOperator == "NULL"

VARIABLES
  input,               \* input_buffer, up to its position
  result,
  previous, current,   \* Operations: left, right, operator
  display,             \* what display_text was called with last
  replaced,            \* an operator was pressed right behind another one
  cleared,             \* history: what was typed when the buffer was cleared last
  repeated,            \* history: by a key that repeated the previous operation
  keys                 \* keys pressed so far

calcVars == <<input, result, previous, current, display, replaced, cleared, repeated, keys>>

\* atof, with the last of MAX_CHAR places as the unit.
Decimals(text) ==
  LET points == {i \in 1..Len(text) : text[i] = "."} IN
  IF points = {} THEN 0 ELSE Len(text) - (CHOOSE i \in points : TRUE)
Number(n) == <<"number", n>>
atof(text) ==
  Number(10^(MAX_CHAR - Decimals(text))
         * FoldLeft(LAMBDA n, ch : CASE ch = "0" -> 10 * n [] ch = "1" -> 10 * n + 1 [] OTHER -> n,
                    0, text))
\* Text on the display: as it was typed, or what %.6g leaves of a result.
Typed(text)  == <<"typed", text>>
Shown(value) == <<"rounded", value>>

Zero == Number(0)
NoOperation == [left |-> Zero, right |-> Zero, operator |-> NoOperator]
OperationApply(o) ==
  IF o.operator = "Divide" /\ o.right = Zero THEN Zero ELSE <<o.operator, o.left, o.right>>

Init ==
  /\ input = <<>> /\ result = Zero /\ previous = NoOperation /\ current = NoOperation
  /\ display = Shown(Zero) /\ replaced = FALSE /\ cleared = <<>> /\ repeated = FALSE
  /\ keys = 0

Press == keys < MaxKeys /\ keys' = keys + 1
-----------------------------------------------------------------------------
(* Typing.  A full buffer takes nothing; what was typed is put in order: a *)
(* 0 before a lone point, no 0 before a digit, and no second point.        *)
FormatInput(text) ==
  LET n == Len(text) IN
  CASE text = <<>> -> <<"0">>
    [] text = <<".">> -> <<"0", ".">>
    [] n > 1 /\ text[1] = "0" /\ text[2] # "." -> <<text[2]>>
    [] n > 1 /\ ~(text[1] = "0" /\ text[2] # ".") /\ text[n] = "." /\ Contains(Front(text), ".")
         -> Front(text)
    [] OTHER -> text

DisplayInput(text) ==
  /\ input' = FormatInput(text)
  /\ display' = Typed(input')

Type(ch) ==
  /\ Press
  /\ DisplayInput(IF Len(input) < MAX_CHAR THEN Append(input, ch) ELSE input)
  /\ UNCHANGED <<result, previous, current, replaced, cleared, repeated>>

ClearAll ==
  /\ Press
  /\ DisplayInput(<<>>)
  /\ result' = Zero /\ previous' = NoOperation /\ current' = NoOperation /\ replaced' = FALSE
  /\ cleared' = <<>> /\ repeated' = FALSE
-----------------------------------------------------------------------------
(* Operations.                                                             *)
Operand == IF input # <<>> THEN atof(input) ELSE result

ClearBuffer(repeats) == input' = <<>> /\ cleared' = input /\ repeated' = repeats

Operate(operator) ==
  /\ Press
  /\ current' = [current EXCEPT !.operator = operator, !.left = Operand]
  /\ ClearBuffer(FALSE)
  /\ replaced' = (input = <<>> /\ current.operator # NoOperator)
  /\ UNCHANGED <<result, previous, display>>

DisplayOutput(operation) ==
  /\ result' = OperationApply(operation)
  /\ display' = Shown(result')
  /\ replaced' = FALSE

ApplyCurrentOperation(operation) ==
  /\ DisplayOutput(operation)
  /\ ClearBuffer(FALSE)
  /\ previous' = operation
  /\ current' = NoOperation

Equals ==
  /\ Press
  /\ \/ /\ current.operator # NoOperator
        /\ ApplyCurrentOperation([current EXCEPT !.right = Operand])
     \/ /\ current.operator = NoOperator /\ previous.operator # NoOperator
        /\ previous' = [previous EXCEPT !.left = result]
        /\ DisplayOutput(previous')
        /\ ClearBuffer(TRUE)      \* also of a number that was typed meanwhile
        /\ UNCHANGED current
     \/ /\ current.operator = NoOperator /\ previous.operator = NoOperator
        /\ UNCHANGED <<input, result, previous, current, display, replaced, cleared, repeated>>

\* % and S: times 0.01 and times -1, which is what = repeats.
Times(right) ==
  /\ Press
  /\ ApplyCurrentOperation([left |-> Operand, right |-> right, operator |-> "Multiply"])

Next ==
  \/ \E ch \in Digit \cup {"."} : Type(ch)
  \/ ClearAll
  \/ \E operator \in Operator : Operate(operator)
  \/ Equals
  \/ \E right \in {Number(10^(MAX_CHAR - 2)), Number(-(10^MAX_CHAR))} : Times(right)

Spec == Init /\ [][Next]_calcVars
-----------------------------------------------------------------------------
(* The display tells what the next key works with.  While a number is      *)
(* typed, it is that text, in a form that has one reading; when nothing is *)
(* typed and no operator waits, six digits of the operand, which itself is *)
(* not rounded; behind an operator its left operand, as it was typed or in *)
(* six digits, unless that was pressed right behind another one (it then   *)
(* takes the result).  And a number that was typed is an operand of the    *)
(* operation under way or of the last one, unless the key was an = that    *)
(* repeats the previous operation: that one drops it.                      *)
Shows(value) == display = Shown(value) \/ (display[1] = "typed" /\ atof(display[2]) = value)
WorksWithWhatIsSeen ==
  /\ input # <<>> => display = Typed(input)
  /\ input = <<>> /\ current.operator = NoOperator => display = Shown(Operand)
  /\ input = <<>> /\ current.operator # NoOperator /\ ~replaced => Shows(current.left)
  /\ cleared # <<>> /\ ~repeated => atof(cleared) \in {current.left, previous.left, previous.right}
  /\ Len(input) <= MAX_CHAR
  /\ Len(input) > 1 => input[1] # "." /\ (input[1] = "0" => input[2] = ".")
  /\ \A i, j \in 1..Len(input) : input[i] = "." /\ input[j] = "." => i = j
=============================================================================
