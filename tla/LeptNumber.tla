----------------------------- MODULE LeptNumber -----------------------------
(***************************************************************************)
(* lept_parse_number of lib/json/leptjson.c: it checks by itself that the  *)
(* text begins with a number of the grammar, and then has strtod read the  *)
(* same text, which knows nothing of where the check stopped.              *)
(***************************************************************************)
EXTENDS Integers, Sequences

CONSTANT MaxNumber   \* bound: characters of a text

VARIABLE number      \* the text, character by character

\* "1" stands for every digit but 0.
Digit == {"0", "1"}
Character == Digit \cup {"-", "+", ".", "e", "x"}

\* s[p], where a text ends with a NUL.
Char(s, p) == IF p <= Len(s) THEN s[p] ELSE "NUL"

\* for (; ISDIGIT(*p); p++), and p++ over an optional character.
Digits(s, p) ==
  LET d[i \in Nat] == IF Char(s, i) \in Digit THEN d[i + 1] ELSE i IN d[p]
Skip(s, p, chars) == IF Char(s, p) \in chars THEN p + 1 ELSE p

\* Where each part of the number ends; 0 is LEPT_PARSE_INVALID_VALUE.
Integer(s, p) ==
  IF Char(s, p) = "0" THEN p + 1 ELSE IF Char(s, p) = "1" THEN Digits(s, p + 1) ELSE 0
Some(s, p) == IF Char(s, p) \in Digit THEN Digits(s, p + 1) ELSE 0
Fraction(s, p) == IF Char(s, p) = "." THEN Some(s, p + 1) ELSE p
Exponent(s, p) == IF Char(s, p) = "e" THEN Some(s, Skip(s, p + 1, {"+", "-"})) ELSE p
ParseNumber(s) ==
  LET i == Integer(s, Skip(s, 1, {"-"}))
      f == IF i = 0 THEN 0 ELSE Fraction(s, i)
  IN IF f = 0 THEN 0 ELSE Exponent(s, f)

Init == number = <<>>
Next == Len(number) < MaxNumber /\ \E c \in Character : number' = Append(number, c)
-----------------------------------------------------------------------------
Cut(s, i, j) == SubSeq(s, i, j - 1)
AllDigits(s) == s # <<>> /\ \A i \in DOMAIN s : s[i] \in Digit

\* RFC 8259: [ minus ] int [ frac ] [ exp ]
IsInt(s)  == AllDigits(s) /\ (s[1] = "0" => Len(s) = 1)
IsFrac(s) == s = <<>> \/ (s[1] = "." /\ AllDigits(Tail(s)))
IsExp(s)  == \/ s = <<>>
             \/ s[1] = "e" /\ (AllDigits(Tail(s)) \/
                  (Len(s) >= 3 /\ s[2] \in {"+", "-"} /\ AllDigits(SubSeq(s, 3, Len(s)))))
IsNumber(s) ==
  \E i \in {1, 2}, j, k \in 1..Len(s) + 1 :
    /\ i <= j /\ j <= k
    /\ i = 2 => s[1] = "-"
    /\ IsInt(Cut(s, i, j)) /\ IsFrac(Cut(s, j, k)) /\ IsExp(Cut(s, k, Len(s) + 1))

\* What strtod takes: also a plus sign, leading zeros, a bare point on one side, hexadecimal.
IsMantissa(s) ==
  /\ \E i \in DOMAIN s : s[i] \in Digit
  /\ \A i, k \in DOMAIN s : s[i] \in Digit \/ (s[i] = "." /\ (s[k] = "." => k = i))
IsHex(s) == Len(s) >= 3 /\ s[1] = "0" /\ s[2] = "x" /\ IsMantissa(SubSeq(s, 3, Len(s)))
IsUnsigned(s) == \/ \E k \in 1..Len(s) + 1 : IsMantissa(Cut(s, 1, k)) /\ IsExp(Cut(s, k, Len(s) + 1))
                 \/ IsHex(s)
IsDouble(s) == s # <<>> /\ (IsUnsigned(s) \/ (s[1] \in {"+", "-"} /\ IsUnsigned(Tail(s))))
Strtod(s) == LET ends == {n \in 0..Len(s) : n > 0 => IsDouble(SubSeq(s, 1, n))}
             IN CHOOSE n \in ends : \A k \in ends : k <= n

(* A text is taken as a number exactly when it is one, and then strtod has *)
(* read all of it and nothing else, though it would also take other texts. *)
NumberReadOnce ==
  /\ ParseNumber(number) = Len(number) + 1 <=> IsNumber(number)
  /\ IsNumber(number) => Strtod(number) = Len(number)
=============================================================================
