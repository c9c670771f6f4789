---------------------------- MODULE MCSequential ----------------------------
(***************************************************************************)
(* What one thread does by itself, each part on its own: leptjson, that is *)
(* the parser on every text of MaxText tokens, a program that calls the    *)
(* functions on values, and strings piece by piece; and the programs of    *)
(* MCPrograms.                                                             *)
(***************************************************************************)
EXTENDS MCPrograms, MCLept, TLC

CONSTANTS Units, Literals, Escapes, MaxPieces   \* LeptString

VARIABLE pieces                                 \* LeptString

Strings == INSTANCE LeptString

jsonVars  == <<vars, valueVars, pieces>>
allVars   == <<jsonVars, programVars>>

InJson(p) == Runs(p) /\ UNCHANGED <<arrayVars, frameVars, lineVars, edgeVars, calcVars, number>>
InParser  == InJson("parser") /\ UNCHANGED <<valueVars, pieces>>
InValues  == InJson("values") /\ UNCHANGED <<vars, pieces>>
InStrings == InJson("string") /\ UNCHANGED <<vars, valueVars>>

AnyInit == ProgramsInit /\ Init /\ Values!Init /\ Strings!Init

AnyNext ==
  \/ InParser /\ Next
  \/ InValues /\ Values!Next
  \/ InStrings /\ Strings!Next
  \/ ProgramsNext /\ UNCHANGED jsonVars

AnySpec == AnyInit /\ [][AnyNext]_allVars

Sym == Permutations(Root)
-----------------------------------------------------------------------------
(* The grammar of JSON, by the way a text falls into parts.                *)
RECURSIVE IsValue(_), IsList(_, _)
Inner(s) == SubSeq(s, 2, Len(s) - 1)
Between(s, open, close) == Len(s) >= 2 /\ s[1] = open /\ s[Len(s)] = close
IsString(s) == Between(s, "q", "q") /\ \A i \in 2..Len(s)-1 : s[i] # "q"
IsMember(s) == \E i \in 1..Len(s) :
  s[i] = ":" /\ IsString(SubSeq(s, 1, i - 1)) /\ IsValue(SubSeq(s, i + 1, Len(s)))
IsItem(s, open) == IF open = "[" THEN IsValue(s) ELSE IsMember(s)
IsList(s, open) ==
  \/ IsItem(s, open)
  \/ \E i \in 1..Len(s) :
       s[i] = "," /\ IsItem(SubSeq(s, 1, i - 1), open) /\ IsList(SubSeq(s, i + 1, Len(s)), open)
IsValue(s) ==
  \/ s = <<"lit">>
  \/ IsString(s)
  \/ Between(s, "[", "]") /\ (Len(s) = 2 \/ IsList(Inner(s), "["))
  \/ Between(s, "{", "}") /\ (Len(s) = 2 \/ IsList(Inner(s), "{"))

\* The text without whitespace, its escapes as bytes.
Plain == LET p[i \in 0..Len(text)] ==
               IF i = 0 THEN <<>>
               ELSE IF text[i] \in {" ", End} THEN p[i - 1] ELSE p[i - 1] \o Bytes(text[i])
         IN p[Len(text)]

(* lept_parse accepts a text exactly when it is JSON, and what it builds   *)
(* prints as that text without the whitespace.                             *)
AcceptsJson ==
  at = "done" =>
    /\ ret = "OK" <=> text[Len(text)] = End /\ IsValue(Plain)
    /\ v.printed = IF ret = "OK" THEN Plain ELSE <<>>

(* What a text says is what is read: a value of an array, object or        *)
(* literal here, of a string in LeptString.                                *)
TextsReadRight ==
  CASE part = "parser" -> AcceptsJson
    [] part = "string" -> Strings!StringKept
    [] OTHER -> TRUE
=============================================================================
