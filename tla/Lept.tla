-------------------------------- MODULE Lept --------------------------------
(***************************************************************************)
(* lept_parse of lib/json/leptjson.c: a recursive-descent parser that      *)
(* keeps the characters, elements and members it has parsed so far, of all *)
(* the values under way, on one growing stack (lept_context), and that     *)
(* gives back everything it allocated when it meets an error.              *)
(*                                                                         *)
(* The text is chosen token by token as the parser reads it.  A value is   *)
(* what lept_stringify prints of it and the blocks lept_free frees for it. *)
(***************************************************************************)
EXTENDS Integers, Sequences, FiniteSets

CONSTANTS
  Block,         \* heap blocks
  InitSize,      \* LEPT_PARSE_STACK_INIT_SIZE
  ValueBytes,    \* sizeof(lept_value)
  MemberBytes,   \* sizeof(lept_member)
  MaxText,       \* bound: tokens of a text
  MaxBlank       \* bound: of which are whitespace

ASSUME LeptAssumption ==
  /\ InitSize \in Nat /\ InitSize >= 2      \* 1 + (1 >> 1) = 1 never grows
  /\ ValueBytes \in Nat \ {0} /\ MemberBytes \in Nat \ {0}
  /\ MaxText \in Nat /\ MaxBlank \in Nat

VARIABLES
  text,     \* the tokens read
  at,       \* what the innermost function looks for
  calls,    \* the calls of lept_parse_array and lept_parse_object under way
  head,     \* head of lept_parse_string_raw
  stack,    \* what lies on c->stack, up to c->top
  size,     \* c->size
  live,     \* the blocks that malloc gave out, apart from c->stack
  v, ret    \* *v of lept_parse, and its result

vars == <<text, at, calls, head, stack, size, live, v, ret>>

\* "lit" is a literal or a number, "huge" a number out of range, "bad" any other
\* characters, "q" a quotation mark; "u" and "esc" are a legal and an illegal escape.
Structure == {"[", "]", "{", "}", ",", ":", "q", "lit", "huge", "bad", " "}
Content   == {"q", "]", "u", "esc"}
End       == "end"

\* *c->json is t; c->json++.
Read(t) ==
  /\ Len(text) < MaxText \/ t = End
  /\ text' = Append(text, t)

-----------------------------------------------------------------------------
(* Values, and what lies on the stack for a parsed piece of text.          *)
Piece(printed, owns, bytes) == [printed |-> printed, owns |-> owns, bytes |-> bytes]
Null == Piece(<<>>, {}, 0)

Scalar(t) == Piece(<<t>>, {}, ValueBytes)

\* lept_encode_utf8 puts the bytes of a code point, every other character is one byte.
Bytes(t) == IF t = "u" THEN <<"u1", "u2", "u3">> ELSE <<t>>
Chars(t) == [i \in DOMAIN Bytes(t) |-> Piece(<<Bytes(t)[i]>>, {}, 1)]

\* The pieces one after the other, with sep between them.
Joined(pieces, sep) ==
  LET j[i \in 0..Len(pieces)] ==
        IF i = 0 THEN <<>>
        ELSE IF i = 1 THEN pieces[1].printed
        ELSE j[i - 1] \o sep \o pieces[i].printed
  IN j[Len(pieces)]

\* The blocks that lept_free frees for pieces.
Owned(pieces) == UNION {pieces[i].owns : i \in DOMAIN pieces}

\* A string, array or object made of pieces, in block b of its own.
Compound(open, pieces, sep, close, b) ==
  Piece(open \o Joined(pieces, sep) \o close, Owned(pieces) \cup b, ValueBytes)

String(chars, b) == Compound(<<"q">>, chars, <<>>, <<"q">>, b)
Array(elements, b) == Compound(<<"[">>, elements, <<",">>, <<"]">>, b)
Object(members, b) == Compound(<<"{">>, members, <<",">>, <<"}">>, b)

Member(key, value) ==
  Piece(key.printed \o <<":">> \o value.printed, key.owns \cup value.owns, MemberBytes)

-----------------------------------------------------------------------------
(* The context stack.                                                      *)
Top(st) == LET t[i \in 0..Len(st)] == IF i = 0 THEN 0 ELSE t[i - 1] + st[i].bytes IN t[Len(st)]

\* c->size after lept_context_push: half as much again until the new top is inside.
Room(need) ==
  LET grown[n \in Nat] == IF need < n THEN n ELSE grown[n + n \div 2]
  IN grown[IF size = 0 THEN InitSize ELSE size]

\* lept_context_push, for each piece; and lept_context_pop of the last n pieces.
Push(st, pieces) == stack' = st \o pieces /\ size' = Room(Top(st \o pieces))
Popped(n)  == SubSeq(stack, Len(stack) - n + 1, Len(stack))
Below(n)   == SubSeq(stack, 1, Len(stack) - n)

-----------------------------------------------------------------------------
\* A call of lept_parse_array or lept_parse_object: size is its variable of that name,
\* key what m.k holds; base, which the code does not keep, is where the stack stood.
Call(fn, number, key, base) == [fn |-> fn, size |-> number, key |-> key, base |-> base]
Innermost == calls[Len(calls)]
Outer == SubSeq(calls, 1, Len(calls) - 1)

\* A block that malloc may return.
Fresh == CHOOSE b \in Block : b \notin live
Malloc == live # Block /\ live' = live \cup {Fresh}

\* lept_parse_value returns `value' to lept_parse, or to the call that is innermost in
\* cs, which pushes it as an element or, with its key, as a member.
Returned(value, cs, st) ==
  IF cs = <<>>
  THEN /\ at' = "root" /\ v' = value
       /\ calls' = cs /\ stack' = st /\ UNCHANGED size
  ELSE LET call == cs[Len(cs)]
           item == IF call.fn = "array" THEN value ELSE Member(call.key, value)
       IN /\ at' = "more"
          /\ calls' = [cs EXCEPT ![Len(cs)] = Call(call.fn, call.size + 1, Null, call.base)]
          /\ Push(st, <<item>>)
          /\ UNCHANGED v

Fail(code, st) ==
  /\ ret' = code
  /\ at' = "unwind"
  /\ stack' = st
  /\ UNCHANGED <<calls, head, size, live, v>>

Init ==
  /\ text = <<>> /\ at = "value" /\ calls = <<>> /\ head = 0
  /\ stack = <<>> /\ size = 0 /\ live = {}
  /\ v = Null /\ ret = "none"

\* lept_parse_whitespace, before and after every value, key, colon and comma.
Skips == {"value", "first", "key", "firstkey", "colon", "more", "root"}
Whitespace ==
  /\ at \in Skips
  /\ Cardinality({i \in DOMAIN text : text[i] = " "}) < MaxBlank
  /\ Read(" ")
  /\ UNCHANGED <<at, calls, head, stack, size, live, v, ret>>

-----------------------------------------------------------------------------
(* lept_parse_value, called by lept_parse, for an element, or for a member. *)
AtValue(t) == at = "value" \/ (at = "first" /\ t # "]")

ParseScalar ==
  /\ AtValue("lit") /\ Read("lit")
  /\ Returned(Scalar("lit"), calls, stack)
  /\ UNCHANGED <<head, live, ret>>

NoValue(t) ==
  /\ AtValue(t) /\ Read(t)
  /\ \/ t = "huge" /\ Fail("NUMBER_TOO_BIG", stack)
     \/ t = End /\ Fail("EXPECT_VALUE", stack)
     \/ t \in {"bad", "]", "}", ",", ":"} /\ Fail("INVALID_VALUE", stack)

OpenString ==
  /\ AtValue("q") /\ Read("q")
  /\ at' = "string" /\ head' = Len(stack)
  /\ UNCHANGED <<calls, stack, size, live, v, ret>>

Open(t, fn, state) ==
  /\ AtValue(t) /\ Read(t)
  /\ at' = state
  /\ calls' = calls \o <<Call(fn, 0, Null, Len(stack))>>
  /\ UNCHANGED <<head, stack, size, live, v, ret>>
OpenArray  == Open("[", "array", "first")
OpenObject == Open("{", "object", "firstkey")

-----------------------------------------------------------------------------
(* lept_parse_string_raw, for a value ("string") or for a key.             *)
InString == at \in {"string", "keystring"}

StringChar(t) ==
  /\ InString /\ t \in Content \ {"q", "esc"} /\ Read(t)
  /\ Push(stack, Chars(t))
  /\ UNCHANGED <<at, calls, head, live, v, ret>>

\* STRING_ERROR
StringErrorKeepsTop(t) ==
  /\ InString /\ t \in {"esc", End} /\ Read(t)
  /\ Fail(IF t = End THEN "MISS_QUOTATION_MARK" ELSE "INVALID_STRING_ESCAPE", stack)
StringError(t) ==
  /\ InString /\ t \in {"esc", End} /\ Read(t)
  /\ Fail(IF t = End THEN "MISS_QUOTATION_MARK" ELSE "INVALID_STRING_ESCAPE",
          SubSeq(stack, 1, head))

\* The closing mark of a value: lept_set_string.
CloseString ==
  /\ at = "string" /\ Read("q") /\ Malloc
  /\ LET len == Len(stack) - head
     IN Returned(String(Popped(len), {Fresh}), calls, Below(len))
  /\ UNCHANGED <<head, ret>>

\* The closing mark of a key: m.k.
CloseKey ==
  /\ at = "keystring" /\ Read("q") /\ Malloc
  /\ LET len == Len(stack) - head
         in  == Innermost
     IN /\ calls' = [calls EXCEPT ![Len(calls)] =
                        Call(in.fn, in.size, String(Popped(len), {Fresh}), in.base)]
        /\ stack' = Below(len)
  /\ at' = "colon"
  /\ UNCHANGED <<head, size, v, ret>>

-----------------------------------------------------------------------------
(* lept_parse_array                                                        *)
EmptyArray ==
  /\ at = "first" /\ Read("]")
  /\ Returned(Array(<<>>, {}), Outer, stack)
  /\ UNCHANGED <<head, live, ret>>

AfterElement(t) == at = "more" /\ Innermost.fn = "array" /\ Read(t)

NextElementFirst ==
  /\ AfterElement(",")
  /\ at' = "first"
  /\ UNCHANGED <<calls, head, stack, size, live, v, ret>>
NextElement ==
  /\ AfterElement(",")
  /\ at' = "value"
  /\ UNCHANGED <<calls, head, stack, size, live, v, ret>>

CloseArray ==
  /\ AfterElement("]") /\ Malloc
  /\ LET n == Innermost.size IN Returned(Array(Popped(n), {Fresh}), Outer, Below(n))
  /\ UNCHANGED <<head, ret>>

NoElement(t) ==
  /\ t \notin {",", "]", " "} /\ AfterElement(t)
  /\ Fail("MISS_COMMA_OR_SQUARE_BRACKET", stack)

-----------------------------------------------------------------------------
(* lept_parse_object                                                       *)
EmptyObject ==
  /\ at = "firstkey" /\ Read("}")
  /\ Returned(Object(<<>>, {}), Outer, stack)
  /\ UNCHANGED <<head, live, ret>>

AtKey(t) == at = "key" \/ (at = "firstkey" /\ t # "}")

OpenKey ==
  /\ AtKey("q") /\ Read("q")
  /\ at' = "keystring" /\ head' = Len(stack)
  /\ UNCHANGED <<calls, stack, size, live, v, ret>>

NoKey(t) ==
  /\ t \notin {"q", " "} /\ AtKey(t) /\ Read(t)
  /\ Fail("MISS_KEY", stack)

Colon ==
  /\ at = "colon" /\ Read(":")
  /\ at' = "value"
  /\ UNCHANGED <<calls, head, stack, size, live, v, ret>>

NoColon(t) ==
  /\ t \notin {":", " "} /\ at = "colon" /\ Read(t)
  /\ Fail("MISS_COLON", stack)

AfterMember(t) == at = "more" /\ Innermost.fn = "object" /\ Read(t)

NextMember ==
  /\ AfterMember(",")
  /\ at' = "key"
  /\ UNCHANGED <<calls, head, stack, size, live, v, ret>>

CloseObject ==
  /\ AfterMember("}") /\ Malloc
  /\ LET n == Innermost.size IN Returned(Object(Popped(n), {Fresh}), Outer, Below(n))
  /\ UNCHANGED <<head, ret>>

NoMember(t) ==
  /\ t \notin {",", "}", " "} /\ AfterMember(t)
  /\ Fail("MISS_COMMA_OR_CURLY_BRACKET", stack)

-----------------------------------------------------------------------------
\* A call that met an error, or whose callee did, frees its key and its pieces.
UnwindForgetsKey ==
  /\ at = "unwind" /\ calls # <<>>
  /\ LET n == Innermost.size
     IN live' = live \ Owned(Popped(n)) /\ stack' = Below(n)
  /\ calls' = Outer
  /\ UNCHANGED <<text, at, head, size, v, ret>>
Unwind ==
  /\ at = "unwind" /\ calls # <<>>
  /\ LET n == Innermost.size
     IN /\ live' = live \ (Owned(Popped(n)) \cup Innermost.key.owns)
        /\ stack' = Below(n)
  /\ calls' = Outer
  /\ UNCHANGED <<text, at, head, size, v, ret>>

\* lept_parse: the error has come all the way.
Failed ==
  /\ at = "unwind" /\ calls = <<>>
  /\ at' = "done"
  /\ UNCHANGED <<text, calls, head, stack, size, live, v, ret>>

\* lept_parse: behind the value there may only be whitespace.  The value of a text that
\* goes on becomes null without being freed.
EndOfText(t) ==
  /\ at = "root" /\ t # " " /\ Read(t)
  /\ at' = "done"
  /\ IF t = End THEN ret' = "OK" /\ UNCHANGED v
                ELSE ret' = "ROOT_NOT_SINGULAR" /\ v' = Null
  /\ UNCHANGED <<calls, head, stack, size, live>>

Done == at = "done" /\ UNCHANGED vars

Next ==
  \/ Whitespace
  \/ ParseScalar \/ OpenString \/ OpenArray \/ OpenObject
  \/ CloseString \/ CloseKey
  \/ EmptyArray \/ NextElement \/ CloseArray
  \/ EmptyObject \/ OpenKey \/ Colon \/ NextMember \/ CloseObject
  \/ Unwind \/ Failed \/ Done
  \/ \E t \in Content \cup {End} : StringChar(t) \/ StringError(t)
  \/ \E t \in Structure \cup {End} :
       NoValue(t) \/ NoElement(t) \/ NoKey(t) \/ NoColon(t) \/ NoMember(t) \/ EndOfText(t)

Spec == Init /\ [][Next]_vars
-----------------------------------------------------------------------------
(* What is pushed fits the memory of the stack.  The pieces on it are      *)
(* those of the calls under way, outermost first, then the characters of   *)
(* the string being read.  So every return pops what was pushed, and       *)
(* nothing is left when lept_parse returns, which it asserts (line 552).   *)
Mine(call) == call.base + call.size
Nested(cs) ==
  /\ cs # <<>> => cs[1].base = 0
  /\ \A i \in 1..Len(cs)-1 : Mine(cs[i]) = cs[i+1].base
Claimed(cs) == IF cs = <<>> THEN 0 ELSE Mine(cs[Len(cs)])
Balanced ==
  /\ Nested(calls)
  /\ IF InString THEN head = Claimed(calls) /\ head <= Len(stack)
                 ELSE Len(stack) = Claimed(calls)
  /\ at \in {"root", "done"} => stack = <<>>
FitsStack == Top(stack) <= size
StackOfCalls == Balanced /\ FitsStack

(* Every block has one owner: a piece on the stack, the key of a call or   *)
(* the value returned.  So an error, wherever it is met, frees everything, *)
(* and nothing twice; only the value in front of further text is lost,     *)
(* which line 547 turns into null without freeing it.                      *)
Keys(cs) == [i \in DOMAIN cs |-> cs[i].key]
Apart(ps) == \A i, j \in DOMAIN ps : i # j => ps[i].owns \cap ps[j].owns = {}
OwnersApart(cs, st, x) ==
  /\ Apart(st) /\ Apart(Keys(cs))
  /\ Owned(st) \cap Owned(Keys(cs)) = {}
  /\ (Owned(st) \cup Owned(Keys(cs))) \cap x = {}
OwnedOnce ==
  /\ OwnersApart(calls, stack, v.owns)
  /\ ret # "ROOT_NOT_SINGULAR" => live = Owned(stack) \cup Owned(Keys(calls)) \cup v.owns
=============================================================================
