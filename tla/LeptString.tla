----------------------------- MODULE LeptString -----------------------------
(***************************************************************************)
(* lept_parse_string_raw and lept_stringify_string of lib/json/leptjson.c: *)
(* escapes, surrogate pairs and UTF-8 on the way in, escapes on the way    *)
(* out.  Characters and bytes are their codes.                             *)
(***************************************************************************)
EXTENDS Integers, Sequences

CONSTANTS
  Units,       \* the code units that a text writes as \uXXXX
  Literals,    \* the characters that it writes as they are
  Escapes,     \* the characters that it writes behind a backslash
  MaxPieces    \* bound: pieces of a text

VARIABLE pieces   \* what the text is made of

NUL == 0
Quote == 34
Slash == 47
Backslash == 92
LowerU == 117

\* The characters with an escape of one letter, and the letters b f n r t " \.
Control == 0..31
Letter  == [c \in {8, 12, 10, 13, 9, Quote, Backslash} |->
              CASE c = 8 -> 98 [] c = 12 -> 102 [] c = 10 -> 110 [] c = 13 -> 114
                [] c = 9 -> 116 [] OTHER -> c]

-----------------------------------------------------------------------------
(* Reading.                                                                *)
Code(t, p) == IF p <= Len(t) THEN t[p] ELSE NUL
Error == [ret |-> "error", bytes |-> <<>>]

HexDigits == 48..57 \cup 65..70 \cup 97..102
HexValue(c) == IF c <= 57 THEN c - 48 ELSE IF c <= 70 THEN c - 55 ELSE c - 87
IsHex4(t, p) == \A i \in p..(p + 3) : Code(t, i) \in HexDigits
Hex4(t, p) == LET h[i \in 0..4] == IF i = 0 THEN 0 ELSE h[i - 1] * 16 + HexValue(t[p + i - 1])
              IN h[4]

\* lept_encode_utf8: six bits to a byte.
Low6(u) == 128 + (u % 64)
EncodeUtf8(u) ==
  CASE u <= 127   -> <<u>>
    [] u \in 128..2047    -> <<192 + u \div 64, Low6(u)>>
    [] u \in 2048..65535  -> <<224 + u \div 4096, Low6(u \div 64), Low6(u)>>
    [] u > 65535 -> <<240 + u \div 262144, Low6(u \div 4096), Low6(u \div 64), Low6(u)>>

High(u) == u \in 55296..56319
Low(u)  == u \in 56320..57343
Pair(u, u2)       == (u - 55296) * 1024 + (u2 - 56320) + 65536

\* lept_parse_string_raw from t[p] on, with out on the stack.
RECURSIVE ParseRaw(_, _, _)
ParseUnicode(t, p, out) ==        \* behind the u
  LET u == Hex4(t, p)
  IN CASE ~IsHex4(t, p) -> Error
       [] IsHex4(t, p) /\ High(u) ->
            IF /\ Code(t, p + 4) = Backslash /\ Code(t, p + 5) = LowerU
               /\ IsHex4(t, p + 6) /\ Low(Hex4(t, p + 6))
            THEN ParseRaw(t, p + 10, out \o EncodeUtf8(Pair(u, Hex4(t, p + 6))))
            ELSE Error
       [] OTHER -> ParseRaw(t, p + 4, out \o EncodeUtf8(u))
ParseEscape(t, p, out) ==         \* behind the backslash
  LET c == Code(t, p)
      meant == {k \in DOMAIN Letter : Letter[k] = c} \cup ({Slash} \cap {c})
  IN IF c = LowerU THEN ParseUnicode(t, p + 1, out)
     ELSE IF meant = {} THEN Error
     ELSE ParseRaw(t, p + 1, Append(out, CHOOSE k \in meant : TRUE))
ParseRaw(t, p, out) ==
  LET c == Code(t, p)
  IN CASE c = Quote     -> [ret |-> "ok", bytes |-> out]
       [] c = Backslash -> ParseEscape(t, p + 1, out)
       [] c \in Control -> Error          \* MISS_QUOTATION_MARK or INVALID_STRING_CHAR
       [] OTHER         -> ParseRaw(t, p + 1, Append(out, c))

-----------------------------------------------------------------------------
(* Writing.                                                                *)
HexDigit(d) == IF d < 10 THEN 48 + d ELSE 55 + d
Escaped(c) ==
  CASE c \in DOMAIN Letter -> <<Backslash, Letter[c]>>
    [] c \in Control \ DOMAIN Letter ->
         <<Backslash, LowerU, 48, 48, HexDigit(c \div 16), HexDigit(c % 16)>>
    [] OTHER -> <<c>>
\* lept_stringify_string, and the room it reserves.
Stringify(bytes) ==
  LET s[i \in 0..Len(bytes)] == IF i = 0 THEN <<Quote>> ELSE s[i - 1] \o Escaped(bytes[i])
  IN Append(s[Len(bytes)], Quote)
Reserved(len) == len * 6 + 2

-----------------------------------------------------------------------------
\* The texts: pieces of three kinds, and the closing mark.
Piece == [kind : {"unit"}, code : Units] \cup [kind : {"literal"}, code : Literals]
           \cup [kind : {"escape"}, code : Escapes]
LowerHex(d) == IF d < 10 THEN 48 + d ELSE 87 + d
Spelled(x) ==
  CASE x.kind = "literal" -> <<x.code>>
    [] x.kind = "escape"  -> <<Backslash, x.code>>
    [] x.kind = "unit"    -> <<Backslash, LowerU, LowerHex(x.code \div 4096),
         LowerHex((x.code \div 256) % 16), LowerHex((x.code \div 16) % 16), LowerHex(x.code % 16)>>
Text ==
  LET s[i \in 0..Len(pieces)] == IF i = 0 THEN <<>> ELSE s[i - 1] \o Spelled(pieces[i])
  IN Append(s[Len(pieces)], Quote)

Init == pieces = <<>>
Next == Len(pieces) < MaxPieces /\ \E x \in Piece : pieces' = Append(pieces, x)
-----------------------------------------------------------------------------
(* What a text means: its code points, or that it is illegal.  A low       *)
(* surrogate on its own stands for itself: the code lets it pass.          *)
Unit(i, set(_)) == i \in DOMAIN pieces /\ pieces[i].kind = "unit" /\ set(pieces[i].code)
Legal ==
  \A i \in DOMAIN pieces :
    CASE pieces[i].kind = "unit"    -> High(pieces[i].code) => Unit(i + 1, Low)
      [] pieces[i].kind = "literal" -> pieces[i].code \notin Control
      [] pieces[i].kind = "escape"  -> pieces[i].code \in {98, 102, 110, 114, 116, 34, 92, 47}
Point(x) ==
  IF x.kind # "escape" THEN x.code
  ELSE IF x.code \in {34, 92, 47} THEN x.code
  ELSE CHOOSE c \in Control : c \in DOMAIN Letter /\ Letter[c] = x.code
Points ==
  LET m[i \in 0..Len(pieces)] ==
        IF i = 0 THEN <<>>
        ELSE IF Unit(i - 1, High) /\ Unit(i, Low)
             THEN [m[i - 1] EXCEPT ![Len(m[i - 1])] = Pair(@, pieces[i].code)]
             ELSE Append(m[i - 1], Point(pieces[i]))
  IN m[Len(pieces)]

\* Decoding by the table of RFC 3629: the shortest form of every code point.
Width(b) == CASE b < 128 -> 1 [] b \in 194..223 -> 2 [] b \in 224..239 -> 3 [] b \in 240..244 -> 4
              [] OTHER -> 9
Decoded(bytes) ==
  LET Follows(p, n) == p + n <= Len(bytes) + 1 /\ \A i \in p+1..p+n-1 : bytes[i] \in 128..191
      d[p \in 1..Len(bytes) + 1] ==
        IF p > Len(bytes) THEN <<>>
        ELSE LET b == bytes[p]  n == Width(b)
             IN IF ~Follows(p, n) THEN <<-1>>
                ELSE <<CASE n = 1 -> b
                         [] n = 2 -> (b - 192) * 64 + bytes[p+1] - 128
                         [] n = 3 -> (b - 224) * 4096 + (bytes[p+1] - 128) * 64 + bytes[p+2] - 128
                         [] n = 4 -> (b - 240) * 262144 + (bytes[p+1] - 128) * 4096
                                       + (bytes[p+2] - 128) * 64 + bytes[p+3] - 128>> \o d[p + n]
  IN d[1]

(* A string is accepted exactly when it is legal, its bytes are the UTF-8  *)
(* of what the text means; printed, they fit the room reserved for them    *)
(* and are read back as the same bytes.                                    *)
StringKept ==
  LET r == ParseRaw(Text, 1, <<>>)
  IN /\ r.ret = "ok" <=> Legal
     /\ r.ret = "ok" =>
          /\ Decoded(r.bytes) = Points
          /\ Len(Stringify(r.bytes)) <= Reserved(Len(r.bytes))
          /\ ParseRaw(Tail(Stringify(r.bytes)), 1, <<>>) = r
=============================================================================
