---------------------------- MODULE ProgramProofs ----------------------------
(***************************************************************************)
(* Proofs about the programs of one thread.  Each has an invariant of its  *)
(* own (CalcInv, LinesInv, FramesInv, PollInv, EdgeInv, NumberInv);        *)
(* together they give ServedRight of MCPrograms.                           *)
(***************************************************************************)
EXTENDS MCPrograms, SequenceTheorems, SetInduction

-----------------------------------------------------------------------------
(* The calculator.                                                         *)
Chars == Calc!Digit \cup {"."}

\* The form of a typed text that has one reading.
InOrder(s) ==
  /\ s \in Seq(Chars) /\ Len(s) <= MAX_CHAR
  /\ Len(s) > 0 => s[1] # "."
  /\ Len(s) > 1 => (s[1] = "0" => s[2] = ".")
  /\ \A p, q \in 1..Len(s) : s[p] = "." /\ s[q] = "." => p = q

LEMMA FrontFacts ==
  ASSUME NEW s \in Seq(Chars), NEW ch \in Chars
  PROVE  /\ Append(s, ch) \in Seq(Chars) /\ Len(Append(s, ch)) = Len(s) + 1 /\ Len(s) \in Nat
         /\ Append(s, ch)[Len(s) + 1] = ch /\ Append(s, ch) # <<>>
         /\ \A k \in 1..Len(s) : Append(s, ch)[k] = s[k]
         /\ Calc!Front(Append(s, ch)) = s
<1>1. Len(s) \in Nat /\ \A k \in 1..Len(s) : s[k] \in Chars
  BY LenProperties, ElementOfSeq
<1>2. /\ Append(s, ch) \in Seq(Chars) /\ Len(Append(s, ch)) = Len(s) + 1
      /\ Append(s, ch)[Len(s) + 1] = ch /\ \A k \in 1..Len(s) : Append(s, ch)[k] = s[k]
  BY AppendProperties
<1>3. Calc!Front(Append(s, ch)) = s
  BY <1>1, <1>2 DEF Calc!Front
<1> QED
  BY <1>1, <1>2, <1>3

(* FormatInput puts in order what a key makes of a text in order.          *)

LEMMA FormatOrders ==
  ASSUME NEW s, InOrder(s), NEW ch \in Chars, NEW t,
         t = IF Len(s) < MAX_CHAR THEN Append(s, ch) ELSE s
  PROVE  InOrder(Calc!FormatInput(t)) /\ Calc!FormatInput(t) # <<>>
<1> DEFINE f == Calc!FormatInput(t)
<1> USE CalculatorAssumption
<1>1. CASE Len(s) < MAX_CHAR
  <2> DEFINE n == Len(s)
  <2>1. /\ t \in Seq(Chars) /\ Len(t) = n + 1 /\ n \in Nat /\ t[n + 1] = ch
        /\ \A k \in 1..n : t[k] = s[k]
        /\ Calc!Front(t) = s /\ t # <<>> /\ s \in Seq(Chars)
    BY <1>1, FrontFacts DEF InOrder
  <2>2. CASE t = <<".">>
    <3>1. t # <<>> /\ ~(Len(t) > 1)
      <4>1. Len(<<".">>) = 1
        OBVIOUS
      <4> QED
        BY <2>1, <2>2, <4>1
    <3>2. f = <<"0", ".">>
      <4> QED BY <2>2, <3>1 DEF Calc!FormatInput
    <3> DEFINE zero == <<"0", ".">>
    <3>3. zero \in Seq(Chars) /\ Len(zero) = 2 /\ zero[1] = "0" /\ zero[2] = "." /\ "0" \in Chars
      BY DEF Chars, Calc!Digit
    <3>4. zero # <<>> /\ zero[1] # "."
      BY <3>3
    <3>5. f = zero
      BY <3>2
    <3> HIDE DEF zero
    <3>6. \A p, q \in 1..Len(zero) : zero[p] = "." /\ zero[q] = "." => p = q
      <4>1. \A p \in 1..Len(zero) : p = 1 \/ p = 2
        BY <3>3
      <4> QED
        BY <3>3, <4>1
    <3>7. InOrder(zero)
      BY <3>3, <3>4, <3>6 DEF InOrder
    <3> QED
      BY <3>4, <3>5, <3>7
  <2>3. CASE t # <<".">> /\ n = 0
    <3>1. f = t
      BY <2>1, <2>3 DEF Calc!FormatInput
    <3>2. t[1] # "."
      <4> SUFFICES ASSUME t[1] = "." PROVE t = <<".">>
        BY <2>3
      <4> QED
        BY <2>1, <2>3
    <3> QED
      BY <2>1, <2>3, <3>1, <3>2 DEF InOrder
  <2>4. CASE n > 0 /\ t[1] = "0" /\ t[2] # "."
    <3>1. f = <<t[2]>> /\ t[2] \in Chars
      BY <2>1, <2>4, ElementOfSeq DEF Calc!FormatInput
    <3> QED
      BY <3>1, <2>4 DEF InOrder
  <2>5. CASE n > 0 /\ ~(t[1] = "0" /\ t[2] # ".") /\ ch = "." /\ Calc!Contains(s, ".")
    <3>1. f = s
      BY <2>1, <2>5 DEF Calc!FormatInput
    <3> QED
      BY <2>1, <2>5, <3>1
  <2>6. CASE n > 0 /\ ~(t[1] = "0" /\ t[2] # ".") /\ ~(ch = "." /\ Calc!Contains(s, "."))
    <3>1. f = t
      BY <2>1, <2>6 DEF Calc!FormatInput
    <3>2. \A k \in 1..n : ch = "." => s[k] # "."
      BY <2>6 DEF Calc!Contains
    <3>3. t[1] = s[1] /\ (n > 1 => t[2] = s[2])
      BY <2>1, <2>6
    <3>4. t[1] # "." /\ (t[1] = "0" => t[2] = ".")
      BY <2>1, <2>6, <3>3 DEF InOrder
    <3> QED
      BY <1>1, <2>1, <3>1, <3>2, <3>4, SMTT(30) DEF InOrder
  <2> QED
    BY <2>1, <2>2, <2>3, <2>4, <2>5, <2>6
<1>2. CASE ~(Len(s) < MAX_CHAR)
  <2> DEFINE n == Len(s)
  <2>1. t = s /\ n = MAX_CHAR /\ s # <<>> /\ s # <<".">> /\ n > 1 /\ Len(Calc!Front(s)) = n - 1
        /\ \A k \in 1..(n - 1) : Calc!Front(s)[k] = s[k]
    BY <1>2, LenProperties DEF InOrder, Calc!Front
  <2>2. ~(s[n] = "." /\ Calc!Contains(Calc!Front(s), "."))
    BY <2>1 DEF InOrder, Calc!Contains
  <2>3. f = s
    BY <2>1, <2>2 DEF Calc!FormatInput, InOrder
  <2> QED
    BY <2>1, <2>3
<1> QED
  BY <1>1, <1>2

\* The display tells what the next key works with, a typed number has become an operand,
\* and what is typed is in order.
CalcInv ==
  /\ InOrder(input)
  /\ input # <<>> => display = Calc!Typed(input)
  /\ input = <<>> /\ current.operator = Calc!NoOperator => display = Calc!Shown(result)
  /\ input = <<>> /\ current.operator # Calc!NoOperator /\ ~replaced => Calc!Shows(current.left)
  /\ cleared # <<>> /\ ~repeated =>
       Calc!atof(cleared) \in {current.left, previous.left, previous.right}
  /\ current = [left |-> current.left, right |-> current.right, operator |-> current.operator]

LEMMA CalcInvImplies == CalcInv => Calc!WorksWithWhatIsSeen
<1> SUFFICES ASSUME CalcInv PROVE Calc!WorksWithWhatIsSeen
  OBVIOUS
<1>1. input = <<>> => Calc!Operand = result
  BY DEF Calc!Operand
<1> QED
  BY <1>1, LenProperties DEF CalcInv, InOrder, Calc!WorksWithWhatIsSeen

LEMMA CalcInitHolds == CalculatorAssumption /\ Calc!Init => CalcInv
<1> SUFFICES ASSUME CalculatorAssumption, Calc!Init PROVE CalcInv
  OBVIOUS
<1>1. InOrder(<<>>)
  BY DEF InOrder, CalculatorAssumption
<1> QED
  BY <1>1 DEF Calc!Init, CalcInv, Calc!NoOperation

LEMMA CalcStep == CalcInv /\ Calc!Next => CalcInv'
<1> SUFFICES ASSUME CalcInv, Calc!Next PROVE CalcInv'
  OBVIOUS
<1>0. InOrder(<<>>)
  BY CalculatorAssumption DEF InOrder
<1>1. ASSUME NEW ch \in Chars, Calc!Type(ch) PROVE CalcInv'
  <2> DEFINE t == IF Len(input) < MAX_CHAR THEN Append(input, ch) ELSE input
             f == Calc!FormatInput(t)
  <2>1. InOrder(f) /\ f # <<>>
    <3> HIDE DEF t
    <3>1. t = IF Len(input) < MAX_CHAR THEN Append(input, ch) ELSE input
      BY DEF t
    <3> QED BY <3>1, FormatOrders DEF CalcInv
  <2>2. /\ input' = f /\ display' = Calc!Typed(f)
        /\ UNCHANGED <<result, previous, current, replaced, cleared, repeated>>
    BY <1>1 DEF Calc!Type, Calc!DisplayInput
  <2> HIDE DEF f
  <2> QED
    BY <2>1, <2>2 DEF CalcInv
<1>2. CASE Calc!ClearAll
  <2>1. Calc!FormatInput(<<>>) = <<"0">>
    BY DEF Calc!FormatInput
  <2>2. InOrder(<<"0">>) /\ <<"0">> # <<>>
    BY CalculatorAssumption DEF InOrder, Chars, Calc!Digit
  <2>3. input' = <<"0">> /\ display' = Calc!Typed(<<"0">>) /\ current' = Calc!NoOperation /\ cleared' = <<>>
    BY <1>2, <2>1 DEF Calc!ClearAll, Calc!DisplayInput
  <2> QED
    BY <2>2, <2>3 DEF CalcInv, Calc!NoOperation
\* What a key takes as its operand is what was typed, if anything was.
<1>3. input # <<>> => Calc!Operand = Calc!atof(input) /\ display = Calc!Typed(input)
  BY DEF Calc!Operand, CalcInv
<1>4. ASSUME NEW o \in Calc!Operator, Calc!Operate(o) PROVE CalcInv'
  <2>1. /\ input' = <<>> /\ current'.operator = o /\ current'.left = Calc!Operand
        /\ replaced' = (input = <<>> /\ current.operator # Calc!NoOperator) /\ display' = display
        /\ current' = [left |-> current'.left, right |-> current'.right, operator |-> current'.operator]
        /\ cleared' = input
    BY <1>4 DEF Calc!Operate, Calc!ClearBuffer, CalcInv
  <2>2. o # Calc!NoOperator
    BY DEF Calc!Operator, Calc!NoOperator
  <2>3. ~replaced' => Calc!Shows(Calc!Operand)
    <3>1. CASE input # <<>>
      BY <1>3, <3>1 DEF Calc!Shows, Calc!Typed
    <3>2. CASE input = <<>> /\ current.operator = Calc!NoOperator
      BY <3>2 DEF CalcInv, Calc!Shows, Calc!Operand
    <3> QED
      BY <2>1, <3>1, <3>2
  <2>4. ~replaced' => Calc!Shows(current.left)'
    BY <2>1, <2>3 DEF Calc!Shows
  <2> QED
    BY <1>0, <1>3, <2>1, <2>2, <2>4 DEF CalcInv
<1>5. ASSUME input' = <<>>, display' = Calc!Shown(result'), cleared' = input,
             cleared' # <<>> /\ ~repeated' => Calc!Operand \in {previous'.left, previous'.right},
             current' = Calc!NoOperation \/ (current' = current /\ current.operator = Calc!NoOperator)
      PROVE  CalcInv'
  BY <1>0, <1>3, <1>5 DEF CalcInv, Calc!NoOperation
<1>6. CASE Calc!Equals
  <2>1. CASE UNCHANGED <<input, result, previous, current, display, replaced, cleared, repeated>>
    BY <2>1 DEF CalcInv, Calc!Shows
  <2>2. CASE current.operator # Calc!NoOperator /\ Calc!ApplyCurrentOperation([current EXCEPT !.right = Calc!Operand])
    <3>1. previous' = [current EXCEPT !.right = Calc!Operand]
      BY <2>2 DEF Calc!ApplyCurrentOperation
    <3>2. previous'.right = Calc!Operand
      BY <3>1 DEF CalcInv
    <3> QED
      BY <1>5, <2>2, <3>2 DEF Calc!ApplyCurrentOperation, Calc!DisplayOutput, Calc!ClearBuffer
  <2>3. CASE /\ current.operator = Calc!NoOperator /\ Calc!DisplayOutput(previous')
             /\ Calc!ClearBuffer(TRUE) /\ UNCHANGED current
    BY <1>5, <2>3 DEF Calc!DisplayOutput, Calc!ClearBuffer
  <2> QED
    BY <1>6, <2>1, <2>2, <2>3 DEF Calc!Equals
<1>7. ASSUME NEW right, Calc!Times(right) PROVE CalcInv'
  BY <1>5, <1>7 DEF Calc!Times, Calc!ApplyCurrentOperation, Calc!DisplayOutput, Calc!ClearBuffer
<1> QED
  BY <1>1, <1>2, <1>4, <1>6, <1>7 DEF Calc!Next, Chars
-----------------------------------------------------------------------------
(* Flattening a list of sequences, element by element.                     *)
Joined(s, n, w) == [k \in 1..n |-> IF k = 1 THEN s[k] ELSE w[k - 1] \o s[k]]

LEMMA JoinedExists ==
  ASSUME NEW X, NEW s \in Seq(Seq(X)), s # <<>>
  PROVE  \E w : /\ w = Joined(s, Len(s), w) /\ Lined!FlattenSeq(s) = w[Len(s)]
                /\ Len(s) \in Nat \ {0} /\ \A k \in 1..Len(s) : s[k] \in Seq(X) /\ w[k] \in Seq(X)
<1> DEFINE n == Len(s)
           S == Seq(X)
           step == [p \in S \X (1..n) |-> p[1] \o s[p[2]]]
<1>1. n \in Nat /\ n # 0 /\ \A k \in 1..n : s[k] \in S
  BY LenProperties, ElementOfSeq, EmptySeq
<1>len. n = Len(s)
  OBVIOUS
<1> HIDE DEF n
<1>2. step \in [S \X (1..n) -> S] /\ <<>> \in S
  <2>1. \A p \in S \X (1..n) : p[1] \o s[p[2]] \in S
    BY <1>1, ConcatProperties
  <2> QED
    BY <2>1
<1>3. PICK v \in [0..n -> S] : IsWalk(v, <<>>, n, step)
  <2> HIDE DEF S, step
  <2> QED BY <1>1, <1>2, WalkExists
<1>4. ASSUME NEW k \in 1..n PROVE v[k] = v[k - 1] \o s[k] /\ v[k - 1] \in S /\ v[k] \in S
  <2>1. k \in 1..n /\ v[k - 1] \in S /\ v[k] \in S
    BY <1>1
  <2>2. <<v[k - 1], k>> \in S \X (1..n)
    BY <2>1
  <2>3. step[<<v[k - 1], k>>] = v[k - 1] \o s[k]
    <3> HIDE DEF S
    <3> QED BY <2>2
  <2> QED
    BY <1>3, <2>1, <2>3 DEF IsWalk
<1>5. v[1] = s[1]
  <2>0. 1 \in 1..n /\ 1 - 1 = 0
    BY <1>1
  <2>1. v[0] = <<>> /\ v[1] = v[1 - 1] \o s[1] /\ s[1] \in S
    BY <1>1, <1>3, <1>4, <2>0 DEF IsWalk
  <2> QED
    BY <2>0, <2>1, ConcatEmptySeq
<1> DEFINE w0 == [k \in 1..n |-> v[k]]
<1>6. w0 = Joined(s, n, w0)
  <2>1. ASSUME NEW k \in 1..n PROVE w0[k] = IF k = 1 THEN s[k] ELSE w0[k - 1] \o s[k]
    <3>1. CASE k = 1
      BY <1>5, <3>1
    <3>2. CASE k # 1
      <4>1. k - 1 \in 1..n
        BY <1>1, <3>2
      <4> QED
        BY <1>4, <3>2, <4>1
    <3> QED
      BY <3>1, <3>2
  <2> QED
    BY <2>1 DEF Joined
<1> DEFINE w == CHOOSE u : u = Joined(s, n, u)
<1>7. Lined!FlattenSeq(s) = w[n]
  BY <1>1, <1>len DEF Lined!FlattenSeq, Joined
<1>8. w = Joined(s, n, w)
  <2> HIDE DEF w0
  <2> QED BY <1>6
<1> HIDE DEF w
<1>9. ASSUME NEW k \in 1..n PROVE w[k] \in S
  <2> DEFINE G == {m \in Nat : m + 1 <= n => w[m + 1] \in S}
  <2>1. 0 \in G
    BY <1>1, <1>8 DEF Joined
  <2>2. ASSUME NEW m \in Nat, m \in G PROVE m + 1 \in G
    <3> DEFINE j == m + 1 + 1
    <3> SUFFICES ASSUME j <= n PROVE w[j] \in S
      OBVIOUS
    <3>1. w[m + 1] \in S /\ j \in 1..n /\ j # 1 /\ j - 1 = m + 1
      BY <1>1, <2>2
    <3> HIDE DEF j
    <3>2. w[j] = w[j - 1] \o s[j]
      BY <1>8, <3>1 DEF Joined
    <3> QED
      BY <1>1, <3>1, <3>2, ConcatProperties
  <2>3. Nat \subseteq G
    <3> HIDE DEF G
    <3> QED BY <2>1, <2>2, Induction
  <2>4. k - 1 \in Nat /\ k - 1 + 1 = k
    BY <1>1
  <2>5. k - 1 \in G
    <3> HIDE DEF G
    <3> QED BY <2>3, <2>4
  <2> QED
    BY <2>4, <2>5
<1> QED
  BY <1>1, <1>7, <1>8, <1>9, <1>len

LEMMA FlattenAppend ==
  ASSUME NEW X, NEW s \in Seq(Seq(X)), NEW x \in Seq(X)
  PROVE  Lined!FlattenSeq(Append(s, x)) = Lined!FlattenSeq(s) \o x /\ Lined!FlattenSeq(s) \in Seq(X)
<1> DEFINE t == Append(s, x)
           n == Len(s)
<1>1. /\ t \in Seq(Seq(X)) /\ Len(t) = n + 1 /\ n \in Nat /\ t[n + 1] = x /\ t # <<>>
      /\ \A k \in 1..n : t[k] = s[k]
  BY AppendProperties, LenProperties
<1>len. n = Len(s)
  OBVIOUS
<1> HIDE DEF t, n
<1>2. PICK w : /\ w = Joined(t, n + 1, w) /\ Lined!FlattenSeq(t) = w[n + 1]
               /\ \A k \in 1..(n + 1) : t[k] \in Seq(X) /\ w[k] \in Seq(X)
  BY <1>1, <1>len, JoinedExists
<1>3. CASE s = <<>>
  <2>1. n = 0 /\ Lined!FlattenSeq(s) = <<>>
    BY <1>3, <1>len DEF Lined!FlattenSeq
  <2>2. w[1] = x
    BY <1>1, <1>2, <2>1 DEF Joined
  <2>3. <<>> \o x = x /\ <<>> \in Seq(X)
    BY ConcatEmptySeq, EmptySeq
  <2> QED
    BY <1>2, <2>1, <2>2, <2>3 DEF t
<1>4. CASE s # <<>>
  <2>1. PICK v : /\ v = Joined(s, n, v) /\ Lined!FlattenSeq(s) = v[n]
                 /\ n # 0 /\ \A k \in 1..n : v[k] \in Seq(X)
    BY <1>4, <1>len, JoinedExists
  <2> DEFINE G == {m \in Nat : m + 1 <= n => w[m + 1] = v[m + 1]}
  <2>2. 0 \in G
    BY <1>1, <1>2, <2>1 DEF Joined
  <2>3. ASSUME NEW m \in Nat, m \in G PROVE m + 1 \in G
    <3> DEFINE j == m + 1 + 1
    <3> SUFFICES ASSUME j <= n PROVE w[j] = v[j]
      OBVIOUS
    <3>1. w[m + 1] = v[m + 1] /\ j \in 1..n /\ j # 1 /\ j - 1 = m + 1 /\ j \in 1..(n + 1)
      BY <1>1, <2>3
    <3> HIDE DEF j
    <3>2. w[j] = w[j - 1] \o t[j]
      BY <1>2, <3>1 DEF Joined
    <3>3. v[j] = v[j - 1] \o s[j]
      BY <2>1, <3>1 DEF Joined
    <3> QED
      BY <1>1, <3>1, <3>2, <3>3
  <2>4. Nat \subseteq G
    <3> HIDE DEF G
    <3> QED BY <2>2, <2>3, Induction
  <2>5. w[n] = v[n] /\ n \in 1..n
    <3>1. n - 1 \in Nat /\ n - 1 + 1 = n
      BY <1>1, <2>1
    <3>2. n - 1 \in G
      <4> HIDE DEF G
      <4> QED BY <2>4, <3>1
    <3> QED
      BY <1>1, <2>1, <3>1, <3>2
  <2>6. w[n + 1] = w[n] \o x
    <3>1. n + 1 \in 1..(n + 1) /\ n + 1 # 1 /\ n + 1 - 1 = n
      BY <1>1, <2>1
    <3> DEFINE j == n + 1
    <3>2. j \in 1..(n + 1) /\ j # 1 /\ j - 1 = n /\ t[j] = x
      BY <1>1, <3>1
    <3> HIDE DEF j
    <3>3. w[j] = w[j - 1] \o t[j]
      BY <1>2, <3>2 DEF Joined
    <3> QED
      BY <3>2, <3>3 DEF j
  <2> QED
    BY <1>2, <2>1, <2>5, <2>6 DEF t
<1> QED
  BY <1>3, <1>4
-----------------------------------------------------------------------------
(* The lines of chap-18.                                                   *)
LineChars == Lined!Letter
NoEol(s)  == \A k \in 1..Len(s) : s[k] # "eol"
Pieces    == [line : Seq(LineChars), forgotten : Seq(LineChars)]
IsRecord(r) ==
  /\ r \in Pieces /\ Len(r.line) < Length /\ \A j \in 1..Len(r.line) : r.line[j] = "eol" <=> j = Len(r.line)

\* What the records and what they forgot make up.
Recorded(rs) == Lined!FlattenSeq([k \in 1..Len(rs) |-> Lined!Whole(rs[k])])

LinesInv ==
  /\ lineSent \in Seq(LineChars) /\ arrived \in 0..Len(lineSent)
  /\ line \in Seq(LineChars) /\ NoEol(line) /\ Len(line) < Length
  /\ records \in Seq(Pieces) /\ \A k \in 1..Len(records) : IsRecord(records[k])
  /\ fate = "running" =>
       Len(line) < Length - 1 /\ SubSeq(lineSent, 1, arrived) = Recorded(records) \o line
  /\ fate = "readError" /\ peer # "failed" => Len(line) = Length - 1

\* The smallest of a finite set of numbers.
LEMMA MinIs ==
  ASSUME NEW S \in SUBSET Nat, S # {}
  PROVE  Lined!Min(S) \in S /\ \A x \in S : Lined!Min(S) <= x
<1>1. \E x \in S : \A y \in S : x <= y
  BY LeastNumber
<1> QED
  BY <1>1 DEF Lined!Min

LEMMA MinOf ==
  ASSUME NEW a \in Nat, NEW b \in Nat, NEW c \in Nat
  PROVE  LET m == Lined!Min({a, b, c}) IN m \in Nat /\ m <= a /\ m <= b /\ m <= c /\ m \in {a, b, c}
BY MinIs

\* What readline takes from a chunk.
LEMMA TakenIs ==
  ASSUME NEW c \in Seq(LineChars), c # <<>>, line \in Seq(LineChars), Len(line) < Length - 1,
         NEW taken, taken = Lined!Taken(c)
  PROVE  /\ taken \in 1..Len(c) /\ Len(line) + taken <= Length - 1
         /\ \A k \in 1..(taken - 1) : c[k] # "eol"
         /\ c[taken] # "eol" => taken = Len(c) \/ Len(line) + taken = Length - 1
<1> USE LinesAssumption
<1> DEFINE F == {Len(c) + 1} \cup {k \in 1..Len(c) : c[k] = "eol"}
           first == Lined!Min(F)
           room == Length - 1 - Len(line)
<1>1. Len(c) \in Nat /\ Len(c) # 0 /\ Len(line) \in Nat /\ room \in Nat /\ room # 0
  BY LenProperties, EmptySeq
<1>2. first \in F /\ (\A x \in F : first <= x) /\ F \in SUBSET Nat /\ first \in 1..(Len(c) + 1)
  <2>1. F \in SUBSET Nat /\ F # {} /\ F \subseteq 1..(Len(c) + 1)
    BY <1>1
  <2> HIDE DEF F
  <2> QED BY <2>1, MinIs
<1>3. taken = Lined!Min({first, Len(c), room})
  BY DEF Lined!Taken, Lined!FirstEol, Lined!Room
<1>4. taken \in Nat /\ taken <= first /\ taken <= Len(c) /\ taken <= room /\ taken \in {first, Len(c), room}
  <2>1. first \in Nat
    BY <1>2
  <2> HIDE DEF first, room
  <2>2. PICK m : m = Lined!Min({first, Len(c), room})
    OBVIOUS
  <2>3. m \in Nat /\ m <= first /\ m <= Len(c) /\ m <= room /\ m \in {first, Len(c), room}
    BY <1>1, <2>1, <2>2, MinOf
  <2> QED
    BY <1>3, <2>2, <2>3
<1>5. ASSUME NEW k \in 1..(taken - 1) PROVE c[k] # "eol"
  <2>1. k \in 1..Len(c) /\ ~(first <= k)
    <3> HIDE DEF first
    <3> QED BY <1>1, <1>2, <1>4
  <2>2. k \notin F
    <3> HIDE DEF F
    <3> QED BY <1>2, <2>1
  <2> QED
    BY <2>1, <2>2
<1>6. taken \in 1..Len(c) /\ Len(line) + taken <= Length - 1
  <2>1. first >= 1
    BY <1>2
  <2> HIDE DEF first
  <2> QED BY <1>1, <1>4, <2>1
<1>7. c[taken] # "eol" => taken = Len(c) \/ Len(line) + taken = Length - 1
  <2> SUFFICES ASSUME c[taken] # "eol" PROVE taken # first
    <3> HIDE DEF first
    <3> QED BY <1>1, <1>4
  <2> QED
    BY <1>1, <1>2, <1>6
<1> QED
  BY <1>5, <1>6, <1>7

Regroups(S) == \A s, t, u \in S : (s \o t) \o u = s \o (t \o u)

LEMMA Regrouped ==
  ASSUME NEW X
  PROVE  Regroups(Seq(X))
BY ConcatAssociative DEF Regroups

\* What readline has of the line then, and what it has not looked at.
Split(now, rest, c, taken) ==
  now = line \o SubSeq(c, 1, taken) /\ rest = SubSeq(c, taken + 1, Len(c))

UpToEol(c, taken) == taken \in 1..Len(c) /\ \A k \in 1..(taken - 1) : c[k] # "eol"

LEMMA NowIs ==
  ASSUME NEW c \in Seq(LineChars), NEW taken, UpToEol(c, taken), line \in Seq(LineChars), NoEol(line),
         NEW now, NEW rest, Split(now, rest, c, taken)
  PROVE  /\ now \in Seq(LineChars) /\ rest \in Seq(LineChars) /\ now \o rest = line \o c
         /\ Len(now) = Len(line) + taken /\ Lined!Last(now) = c[taken]
         /\ \A k \in 1..(Len(now) - 1) : now[k] # "eol"
<1> DEFINE part1 == SubSeq(c, 1, taken)
           m == Len(line)
<1>1. /\ Len(c) \in Nat /\ taken \in Nat /\ taken <= Len(c) /\ taken \in 1..Len(c) /\ m \in Nat
      /\ \A k \in 1..Len(c) : c[k] \in LineChars
      /\ \A k \in 1..(taken - 1) : c[k] # "eol"
  BY LenProperties, ElementOfSeq DEF UpToEol
<1>2. part1 \in Seq(LineChars) /\ Len(part1) = taken /\ \A k \in 1..taken : part1[k] = c[k]
  <2>1. \A k \in 1..taken : c[k] \in LineChars
    BY <1>1
  <2>2. /\ part1 \in Seq(LineChars) /\ Len(part1) = IF 1 <= taken THEN taken - 1 + 1 ELSE 0
        /\ \A k \in 1..(taken - 1 + 1) : part1[k] = c[1 + k - 1]
    BY <1>1, <2>1, SubSeqProperties
  <2> QED
    BY <1>1, <2>2
<1>3. rest \in Seq(LineChars)
  <2>1. \A k \in (taken + 1)..Len(c) : c[k] \in LineChars
    BY <1>1
  <2> QED
    BY <1>1, <2>1, SubSeqProperties DEF Split
<1>4. part1 \o rest = c
  <2>0. 1 \in 1..taken + 1 /\ taken \in 1..Len(c) /\ Len(c) \in taken..Len(c)
    BY <1>1
  <2>1. part1 \o rest = SubSeq(c, 1, Len(c))
    BY <1>1, <2>0, ConcatAdjacentSubSeq DEF Split
  <2> QED
    BY <2>1, SubSeqFull
<1> HIDE DEF part1, m
<1>5. now = line \o part1
  BY DEF part1, Split
<1>6. now \o rest = line \o c
  <2>0. part1 \in Seq(LineChars) /\ line \in Seq(LineChars)
    BY <1>2
  <2>1. (line \o part1) \o rest = line \o (part1 \o rest)
    <3> DEFINE S == Seq(LineChars)
    <3>1. Regroups(S)
      BY Regrouped
    <3>2. part1 \in S /\ line \in S /\ rest \in S
      BY <2>0, <1>3
    <3> HIDE DEF S
    <3> QED
      BY <3>1, <3>2, Zenon DEF Regroups
  <2> QED
    BY <1>4, <1>5, <2>1, Zenon
<1>7. /\ now \in Seq(LineChars) /\ Len(now) = m + taken
      /\ \A k \in 1..(m + taken) : now[k] = IF k <= m THEN line[k] ELSE part1[k - m]
  <2>1. /\ now \in Seq(LineChars) /\ Len(now) = Len(line) + Len(part1)
        /\ \A k \in 1..(Len(line) + Len(part1)) : now[k] = IF k <= Len(line) THEN line[k] ELSE part1[k - Len(line)]
    BY <1>2, <1>5, ConcatProperties
  <2> QED
    BY <1>2, <2>1 DEF m
<1>8. Lined!Last(now) = c[taken]
  <2>1. m + taken \in 1..(m + taken) /\ ~(m + taken <= m) /\ m + taken - m = taken
    BY <1>1
  <2> QED
    BY <1>1, <1>2, <1>7, <2>1 DEF Lined!Last
<1>9. ASSUME NEW k \in 1..(m + taken - 1) PROVE now[k] # "eol"
  <2>1. CASE k <= m
    BY <1>1, <1>7, <2>1 DEF NoEol, m
  <2>2. CASE ~(k <= m)
    <3>1. k - m \in 1..(taken - 1) /\ k - m \in 1..taken /\ k \in 1..(m + taken)
      BY <1>1, <2>2
    <3> QED
      BY <1>1, <1>2, <1>7, <2>2, <3>1
  <2> QED
    BY <2>1, <2>2
<1>10. Len(now) = Len(line) + taken /\ \A k \in 1..(Len(now) - 1) : now[k] # "eol"
  <2>1. Len(now) = m + taken
    BY <1>7
  <2>2. ASSUME NEW k \in 1..(Len(now) - 1) PROVE now[k] # "eol"
    <3>1. k \in 1..(m + taken - 1)
      BY <1>1, <2>1
    <3> QED
      BY <1>9, <3>1
  <2> QED
    BY <2>1, <2>2 DEF m
<1> QED
  BY <1>3, <1>6, <1>7, <1>8, <1>10

LEMMA RecordedAppend ==
  ASSUME NEW rs \in Seq(Pieces), NEW r \in Pieces
  PROVE  /\ Recorded(Append(rs, r)) = Recorded(rs) \o Lined!Whole(r)
         /\ Recorded(rs) \in Seq(LineChars) /\ Lined!Whole(r) \in Seq(LineChars)
<1> DEFINE n == Len(rs)
           w == [k \in 1..n |-> Lined!Whole(rs[k])]
           x == Lined!Whole(r)
<1>1. n \in Nat /\ \A k \in 1..n : rs[k] \in Pieces
  BY LenProperties, ElementOfSeq
<1>2. ASSUME NEW p \in Pieces PROVE Lined!Whole(p) \in Seq(LineChars)
  <2>1. p.line \in Seq(LineChars) /\ p.forgotten \in Seq(LineChars)
    BY DEF Pieces
  <2> QED
    BY <2>1, ConcatProperties DEF Lined!Whole
<1>3. w \in Seq(Seq(LineChars)) /\ Len(w) = n /\ x \in Seq(LineChars)
  <2> DEFINE L == Seq(LineChars)
  <2>1. w \in [1..n -> L] /\ x \in L
    BY <1>1, <1>2
  <2> HIDE DEF w, n, L, x
  <2>2. w \in Seq(L) /\ Len(w) = n
    BY <1>1, <2>1
  <2> QED
    BY <2>1, <2>2 DEF L
<1>4. [k \in 1..(n + 1) |-> Lined!Whole(Append(rs, r)[k])] = Append(w, x)
  <2> DEFINE u == [k \in 1..(n + 1) |-> Lined!Whole(Append(rs, r)[k])]
             v == Append(w, x)
  <2>1. \A k \in 1..(n + 1) : Append(rs, r)[k] = IF k = n + 1 THEN r ELSE rs[k]
    BY <1>1, AppendProperties
  <2>2. v \in Seq(Seq(LineChars)) /\ Len(v) = n + 1 /\ v[n + 1] = x /\ \A k \in 1..n : v[k] = w[k]
    <3> HIDE DEF w, x
    <3> QED BY <1>3, AppendProperties
  <2>3. v \in [1..(n + 1) -> Seq(LineChars)]
    <3> HIDE DEF v, n
    <3> QED BY <2>2, LenProperties
  <2>4. ASSUME NEW k \in 1..(n + 1) PROVE u[k] = v[k]
    <3>1. CASE k = n + 1
      <4> HIDE DEF v
      <4> QED BY <2>1, <2>2, <3>1
    <3>2. CASE k # n + 1
      <4>1. k \in 1..n
        BY <1>1, <3>2
      <4> HIDE DEF v
      <4> QED BY <2>1, <2>2, <3>2, <4>1
    <3> QED
      BY <3>1, <3>2
  <2> HIDE DEF v
  <2> QED
    BY <2>3, <2>4
<1>5. Recorded(rs) = Lined!FlattenSeq(w) /\ Recorded(Append(rs, r)) = Lined!FlattenSeq(Append(w, x))
  <2>1. Len(Append(rs, r)) = n + 1
    BY AppendProperties
  <2> HIDE DEF w, x
  <2>2. Recorded(Append(rs, r)) = Lined!FlattenSeq([k \in 1..(n + 1) |-> Lined!Whole(Append(rs, r)[k])])
    BY <2>1 DEF Recorded
  <2> QED
    BY <1>4, <2>2 DEF Recorded, w
<1>6. Lined!FlattenSeq(Append(w, x)) = Lined!FlattenSeq(w) \o x /\ Lined!FlattenSeq(w) \in Seq(LineChars)
  <2> HIDE DEF w, x
  <2> QED BY <1>3, FlattenAppend
<1> QED
  BY <1>3, <1>5, <1>6

LEMMA LinesInvImplies == LinesInv => Lined!RecordsInPlace
<1> SUFFICES ASSUME LinesInv PROVE Lined!RecordsInPlace
  OBVIOUS
<1>1. "eol" \notin Lined!ToSet(line)
  BY LenProperties DEF LinesInv, NoEol, Lined!ToSet
<1>2. ASSUME NEW k \in 1..Len(records)
      PROVE  Len(records[k].line) < Length
             /\ \A j \in 1..Len(records[k].line) : records[k].line[j] = "eol" <=> j = Len(records[k].line)
  BY DEF LinesInv, IsRecord
<1> QED
  BY <1>1, <1>2 DEF LinesInv, Lined!RecordsInPlace, Recorded

LEMMA LinesInitHolds == LinesAssumption /\ Lined!Init => LinesInv
<1> SUFFICES ASSUME LinesAssumption, Lined!Init PROVE LinesInv
  OBVIOUS
<1>1. lineSent = <<>> /\ line = <<>> /\ records = <<>> /\ arrived = 0 /\ fate = "running"
  BY DEF Lined!Init
<1>2. <<>> \in Seq(LineChars) /\ Len(<<>>) = 0 /\ <<>> \in Seq(Pieces)
  BY EmptySeq
<1>3. SubSeq(lineSent, 1, arrived) = <<>> /\ Recorded(records) = <<>>
  BY <1>1, SubSeqEmpty DEF Recorded, Lined!FlattenSeq
<1>4. <<>> \o <<>> = <<>>
  BY <1>2, ConcatEmptySeq
<1> QED
  <2>1. SubSeq(lineSent, 1, arrived) = Recorded(records) \o line
    BY <1>1, <1>3, <1>4, Zenon
  <2>2. NoEol(line) /\ Len(line) < Length - 1 /\ Len(line) < Length
    BY <1>1, <1>2 DEF NoEol, LinesAssumption
  <2>3. /\ lineSent \in Seq(LineChars) /\ arrived \in 0..Len(lineSent) /\ line \in Seq(LineChars)
        /\ records \in Seq(Pieces) /\ \A k \in 1..Len(records) : IsRecord(records[k])
    BY <1>1, <1>2
  <2> QED
    BY <1>1, <2>1, <2>2, <2>3 DEF LinesInv

\* One recv that returns n characters, in a state where readline waits for them.
LEMMA RecvKeeps ==
  ASSUME LinesInv, NEW n \in 1..BufferSize, Lined!Recv(n)
  PROVE  LinesInv'
<1> DEFINE c == SubSeq(lineSent, arrived + 1, arrived + n)
           taken == Lined!Taken(c)
           now == line \o SubSeq(c, 1, taken)
           rest == SubSeq(c, taken + 1, n)
           before == SubSeq(lineSent, 1, arrived)
           r == [line |-> now, forgotten |-> rest]
<1> USE LinesAssumption
<1>1. /\ lineSent \in Seq(LineChars) /\ Len(lineSent) \in Nat /\ arrived \in 0..Len(lineSent)
      /\ line \in Seq(LineChars) /\ NoEol(line) /\ records \in Seq(Pieces)
      /\ \A k \in 1..Len(records) : IsRecord(records[k])
  BY LenProperties DEF LinesInv
<1>2. /\ fate = "running" /\ peer # "failed" /\ n \in Nat /\ n # 0 /\ n <= Len(lineSent) - arrived
      /\ lineSent' = lineSent /\ peer' = peer /\ arrived' = arrived + n
  BY DEF Lined!Recv
<1>3. Len(line) < Length - 1 /\ before = Recorded(records) \o line
  BY <1>2 DEF LinesInv
<1>4. /\ before \in Seq(LineChars) /\ c \in Seq(LineChars) /\ Len(c) = n
      /\ before \o c = SubSeq(lineSent, 1, arrived + n)
  <2>1. \A k \in 1..Len(lineSent) : lineSent[k] \in LineChars
    BY <1>1, ElementOfSeq
  <2>2. \A k \in 1..arrived : lineSent[k] \in LineChars
    BY <1>1, <2>1
  <2>3. before \in Seq(LineChars)
    BY <1>1, <2>2, SubSeqProperties
  <2>4. \A k \in (arrived + 1)..(arrived + n) : lineSent[k] \in LineChars
    BY <1>1, <1>2, <2>1
  <2>5. c \in Seq(LineChars) /\ Len(c) = IF arrived + 1 <= arrived + n THEN arrived + n - (arrived + 1) + 1 ELSE 0
    BY <1>1, <1>2, <2>4, SubSeqProperties
  <2>6. Len(c) = n
    BY <1>1, <1>2, <2>5
  <2>7. before \o c = SubSeq(lineSent, 1, arrived + n)
    <3>1. 1 \in 1..(Len(lineSent) + 1) /\ arrived \in 0..Len(lineSent) /\ arrived \in (1 - 1)..Len(lineSent)
          /\ arrived + n \in arrived..Len(lineSent)
      BY <1>1, <1>2
    <3> QED
      BY <1>1, <3>1, ConcatAdjacentSubSeq
  <2> QED
    BY <2>3, <2>5, <2>6, <2>7
<1> HIDE DEF c
<1>5. /\ taken \in 1..Len(c) /\ Len(line) + taken <= Length - 1
      /\ \A k \in 1..(taken - 1) : c[k] # "eol"
      /\ c[taken] # "eol" => taken = Len(c) \/ Len(line) + taken = Length - 1
  <2>1. c # <<>>
    BY <1>2, <1>4
  <2> QED
    BY <1>1, <1>3, <1>4, <2>1, TakenIs
<1> HIDE DEF taken
<1>6. Split(now, rest, c, taken)
  BY <1>4 DEF Split
<1> HIDE DEF now, rest
<1>7. /\ now \in Seq(LineChars) /\ rest \in Seq(LineChars) /\ now \o rest = line \o c
      /\ Len(now) = Len(line) + taken /\ Lined!Last(now) = c[taken]
      /\ \A k \in 1..(Len(now) - 1) : now[k] # "eol"
  <2>1. c \in Seq(LineChars) /\ UpToEol(c, taken) /\ line \in Seq(LineChars) /\ NoEol(line)
    BY <1>1, <1>4, <1>5 DEF UpToEol
  <2> HIDE DEF before, r
  <2> QED
    BY <2>1, <1>6, NowIs, SMTT(30)
<1>8. Len(now) \in Nat /\ Len(now) # 0 /\ Len(now) < Length /\ Len(line) \in Nat /\ taken \in Nat
  <2>1. Len(now) \in Nat /\ Len(line) \in Nat /\ taken \in Nat /\ taken >= 1
    BY <1>1, <1>4, <1>5, <1>7, LenProperties
  <2>2. Len(now) = Len(line) + taken /\ Len(line) + taken <= Length - 1
    BY <1>5, <1>7
  <2> QED
    BY <2>1, <2>2
<1>9. /\ arrived' \in 0..Len(lineSent')
      /\ SubSeq(lineSent', 1, arrived') = Recorded(records) \o (line \o c) /\ Recorded(records) \in Seq(LineChars)
  <2>1. Recorded(records) \in Seq(LineChars)
    <3>1. [line |-> <<>>, forgotten |-> <<>>] \in Pieces
      BY EmptySeq DEF Pieces
    <3> QED
      BY <1>1, <3>1, RecordedAppend
  <2>2. (Recorded(records) \o line) \o c = Recorded(records) \o (line \o c)
    <3> DEFINE S == Seq(LineChars)
               a == Recorded(records)
    <3>1. Regroups(S)
      BY Regrouped
    <3>2. a \in S /\ line \in S /\ c \in S
      BY <1>1, <1>4, <2>1
    <3> HIDE DEF S, a
    <3>3. (a \o line) \o c = a \o (line \o c)
      BY <3>1, <3>2, Zenon DEF Regroups
    <3> QED
      BY <3>3 DEF a
  <2>3. SubSeq(lineSent', 1, arrived') = before \o c
    BY <1>2, <1>4
  <2>4. arrived' \in 0..Len(lineSent')
    BY <1>1, <1>2
  <2> HIDE DEF before
  <2> QED
    BY <1>3, <2>1, <2>2, <2>3, <2>4
<1>10. CASE Lined!Last(now) = "eol" /\ records' = Append(records, r) /\ line' = <<>> /\ fate' = fate
  <2>1. IsRecord(r)
    <3>1. r \in Pieces /\ r.line = now
      BY <1>7 DEF Pieces
    <3>2. \A j \in 1..Len(now) : now[j] = "eol" <=> j = Len(now)
      BY <1>7, <1>8, <1>10 DEF Lined!Last
    <3> QED
      BY <1>8, <3>1, <3>2 DEF IsRecord
  <2>2. Recorded(records') = Recorded(records) \o (line \o c)
    <3>1. r \in Pieces /\ Lined!Whole(r) = line \o c
      BY <1>7, <2>1 DEF IsRecord, Lined!Whole
    <3> HIDE DEF r
    <3> QED
      BY <1>1, <1>10, <3>1, RecordedAppend
  <2>3. records' \in Seq(Pieces) /\ \A k \in 1..Len(records') : IsRecord(records'[k])
    <3>1. r \in Pieces
      BY <2>1 DEF IsRecord
    <3> HIDE DEF r
    <3>2. /\ records' \in Seq(Pieces) /\ Len(records') = Len(records) + 1
          /\ \A k \in 1..(Len(records) + 1) : records'[k] = IF k = Len(records) + 1 THEN r ELSE records[k]
      BY <1>1, <1>10, <3>1, AppendProperties
    <3>3. Len(records) \in Nat
      BY <1>1, LenProperties
    <3>4. ASSUME NEW k \in 1..(Len(records) + 1) PROVE IsRecord(records'[k])
      <4>1. CASE k = Len(records) + 1
        BY <2>1, <3>2, <4>1
      <4>2. CASE k # Len(records) + 1
        <5>1. k \in 1..Len(records)
          BY <3>3, <4>2
        <5> QED
          BY <1>1, <3>2, <4>2, <5>1
      <4> QED
        BY <4>1, <4>2
    <3> QED
      BY <3>2, <3>4
  <2>4. line' \in Seq(LineChars) /\ NoEol(line') /\ Len(line') = 0
    BY <1>10, EmptySeq DEF NoEol
  <2>5. (Recorded(records) \o (line \o c)) \o <<>> = Recorded(records) \o (line \o c)
    <3>1. line \o c \in Seq(LineChars)
      BY <1>1, <1>4, ConcatProperties
    <3> DEFINE x == line \o c
               a == Recorded(records)
    <3>2. a \o x \in Seq(LineChars)
      <4>1. a \in Seq(LineChars) /\ x \in Seq(LineChars)
        BY <1>9, <3>1
      <4> HIDE DEF a, x
      <4> QED BY <4>1, ConcatProperties
    <3> HIDE DEF a, x
    <3>3. (a \o x) \o <<>> = a \o x
      BY <3>2, ConcatEmptySeq
    <3> QED
      BY <3>3 DEF a, x
  <2>6. SubSeq(lineSent', 1, arrived') = Recorded(records') \o line'
    BY <1>9, <1>10, <2>2, <2>5, Zenon
  <2>7. fate' = "running" /\ Len(line') < Length - 1 /\ lineSent' \in Seq(LineChars) /\ Len(line') < Length
    BY <1>1, <1>2, <1>10, <2>4
  <2> QED
    BY <1>9, <2>3, <2>4, <2>6, <2>7 DEF LinesInv
<1>11. ASSUME Lined!Last(now) # "eol", records' = records, line' = now PROVE
         /\ line' \in Seq(LineChars) /\ NoEol(line') /\ Len(line') < Length
         /\ lineSent' \in Seq(LineChars) /\ arrived' \in 0..Len(lineSent')
         /\ records' \in Seq(Pieces) /\ \A k \in 1..Len(records') : IsRecord(records'[k])
  <2>1. NoEol(now)
    BY <1>7, <1>8, <1>11 DEF NoEol, Lined!Last
  <2> QED
    BY <1>1, <1>2, <1>7, <1>8, <1>9, <1>11, <2>1
<1>12. CASE Lined!Last(now) # "eol" /\ Len(now) = Length - 1 /\ fate' = "readError"
            /\ line' = now /\ records' = records
  BY <1>11, <1>12 DEF LinesInv
<1>13. CASE Lined!Last(now) # "eol" /\ Len(now) < Length - 1 /\ line' = now
            /\ records' = records /\ fate' = fate
  <2>1. taken = Len(c)
    <3>1. Len(line) + taken # Length - 1
      BY <1>7, <1>8, <1>13
    <3> QED
      BY <1>5, <1>7, <1>13, <3>1
  <2>2. now = line \o c
    <3>1. SubSeq(c, 1, Len(c)) = c
      BY <1>4, SubSeqFull
    <3> QED
      BY <2>1, <3>1 DEF now
  <2> QED
    BY <1>2, <1>9, <1>11, <1>13, <2>2 DEF LinesInv
<1>14. \/ Lined!Last(now) = "eol" /\ records' = Append(records, r) /\ line' = <<>> /\ fate' = fate
       \/ /\ Lined!Last(now) # "eol" /\ Len(now) = Length - 1 /\ fate' = "readError"
          /\ line' = now /\ records' = records
       \/ /\ Lined!Last(now) # "eol" /\ Len(now) < Length - 1 /\ line' = now
          /\ records' = records /\ fate' = fate
  BY DEF Lined!Recv, c, taken, now, rest
<1> QED
  BY <1>10, <1>12, <1>13, <1>14

LEMMA LinesStep == LinesInv /\ Lined!Next => LinesInv'
<1> SUFFICES ASSUME LinesInv, Lined!Next PROVE LinesInv'
  OBVIOUS
<1>1. ASSUME NEW ch \in Lined!Letter, Lined!Send(ch) PROVE LinesInv'
  <2>1. /\ lineSent' \in Seq(LineChars) /\ Len(lineSent') = Len(lineSent) + 1
        /\ \A k \in 1..Len(lineSent) : lineSent'[k] = lineSent[k]
    <3>1. lineSent \in Seq(LineChars) /\ ch \in LineChars /\ lineSent' = Append(lineSent, ch)
      BY <1>1 DEF LinesInv, Lined!Send, LineChars
    <3>2. /\ Append(lineSent, ch) \in Seq(LineChars) /\ Len(Append(lineSent, ch)) = Len(lineSent) + 1
          /\ \A k \in 1..Len(lineSent) : Append(lineSent, ch)[k] = lineSent[k]
      BY <3>1, LenProperties, AppendProperties
    <3> QED
      BY <3>1, <3>2
  <2>2. Len(lineSent) \in Nat /\ arrived \in 0..Len(lineSent) /\ lineSent \in Seq(LineChars)
    BY LenProperties DEF LinesInv
  <2>3. SubSeq(lineSent', 1, arrived) = SubSeq(lineSent, 1, arrived)
    <3> DEFINE a == SubSeq(lineSent', 1, arrived)
               b == SubSeq(lineSent, 1, arrived)
    <3>1. \A k \in 1..arrived : lineSent'[k] \in LineChars /\ lineSent[k] \in LineChars
      BY <2>1, <2>2, ElementOfSeq
    <3>2. /\ a \in Seq(LineChars) /\ Len(a) = IF 1 <= arrived THEN arrived - 1 + 1 ELSE 0
          /\ \A k \in 1..(arrived - 1 + 1) : a[k] = lineSent'[1 + k - 1]
      BY <2>2, <3>1, SubSeqProperties
    <3>3. /\ b \in Seq(LineChars) /\ Len(b) = IF 1 <= arrived THEN arrived - 1 + 1 ELSE 0
          /\ \A k \in 1..(arrived - 1 + 1) : b[k] = lineSent[1 + k - 1]
      BY <2>2, <3>1, SubSeqProperties
    <3> HIDE DEF a, b
    <3>4. Len(a) = arrived /\ Len(b) = arrived
      BY <2>2, <3>2, <3>3
    <3>5. \A k \in 1..arrived : a[k] = b[k]
      BY <2>1, <2>2, <3>2, <3>3
    <3>6. a = b
      BY <3>2, <3>3, <3>4, <3>5, SeqEqual
    <3> QED
      BY <3>6 DEF a, b
  <2>4. UNCHANGED <<arrived, peer, line, records, fate>>
    BY <1>1 DEF Lined!Send
  <2>5. arrived' \in 0..Len(lineSent')
    BY <2>1, <2>2, <2>4
  <2> QED
    BY <2>1, <2>3, <2>4, <2>5 DEF LinesInv
<1>2. CASE Lined!EndOfInput \/ Lined!Breaks
  BY <1>2 DEF Lined!EndOfInput, Lined!Breaks, LinesInv
<1>3. CASE Lined!Ended
  BY <1>3 DEF Lined!Ended, LinesInv
<1> QED
  BY <1>1, <1>2, <1>3, RecvKeeps DEF Lined!Next
-----------------------------------------------------------------------------
(* The messages of chap-16.                                                *)

LEMMA DivMod ==
  ASSUME NEW n \in Nat
  PROVE  n \div 256 \in Nat /\ n % 256 \in 0..255 /\ 256 * (n \div 256) + (n % 256) = n
OBVIOUS

\* A walk over the naturals that exists is the one that CHOOSE finds.
LEMMA ShiftedIs ==
  ASSUME NEW n \in Nat
  PROVE  /\ Framed!Shifted(n)[0] = n
         /\ \A k \in 0..Word : Framed!Shifted(n)[k] \in Nat
         /\ \A k \in 1..Word : Framed!Shifted(n)[k] = Framed!Shifted(n)[k - 1] \div 256
<1> USE FramesAssumption
<1> DEFINE step == [p \in Nat \X (1..Word) |-> p[1] \div 256]
           Body(w) == [k \in 0..Word |-> IF k = 0 THEN n ELSE w[k - 1] \div 256]
<1>1. step \in [Nat \X (1..Word) -> Nat]
  <2>1. \A p \in Nat \X (1..Word) : p[1] \div 256 \in Nat
    BY DivMod
  <2> QED
    BY <2>1
<1>2. PICK v \in [0..Word -> Nat] : IsWalk(v, n, Word, step)
  <2> HIDE DEF step
  <2> QED BY <1>1, WalkExists
<1>3. ASSUME NEW k \in 1..Word PROVE v[k] = v[k - 1] \div 256
  <2>1. v[k - 1] \in Nat
    OBVIOUS
  <2>2. <<v[k - 1], k>> \in Nat \X (1..Word)
    BY <2>1
  <2>3. step[<<v[k - 1], k>>] = v[k - 1] \div 256
    BY <2>2
  <2> QED
    BY <1>2, <2>3 DEF IsWalk
<1>4. v = Body(v)
  BY <1>2, <1>3 DEF IsWalk
<1> DEFINE w == Framed!Shifted(n)
<1>5. w = CHOOSE u : u = Body(u)
  BY DEF Framed!Shifted
<1>6. w = Body(w)
  <2> HIDE DEF Body, w
  <2> QED BY <1>4, <1>5
<1> HIDE DEF w
<1>7. w[0] = n /\ \A k \in 1..Word : w[k] = w[k - 1] \div 256
  BY <1>6
<1>8. \A k \in 0..Word : w[k] \in Nat
  <2>1. ASSUME NEW k \in 1..Word, w[k - 1] \in Nat PROVE w[k] \in Nat
    BY <1>7, <2>1, DivMod
  <2> QED
    BY <1>7, <2>1, WalkStays
<1> QED
  BY <1>7, <1>8 DEF w

\* A word of bytes, the low ones last, has the value that its bytes give it one by one.
ByBytes(w, s) ==
  w[0] = 0 /\ Framed!ntohl(s) = w[Word] /\ \A k \in 1..Word : w[k] = 256 * w[k - 1] + s[k]

LEMMA ValueIs ==
  ASSUME NEW s \in [1..Word -> 0..255]
  PROVE  \E w : ByBytes(w, s)
<1> USE FramesAssumption
<1> DEFINE step == [p \in Nat \X (1..Word) |-> 256 * p[1] + s[p[2]]]
           Body(w) == [k \in 0..Word |-> IF k = 0 THEN 0 ELSE 256 * w[k - 1] + s[k]]
<1>1. step \in [Nat \X (1..Word) -> Nat]
  <2>1. \A p \in Nat \X (1..Word) : 256 * p[1] + s[p[2]] \in Nat
    <3>1. ASSUME NEW m \in Nat, NEW k \in 1..Word PROVE 256 * m + s[k] \in Nat
      <4> DEFINE x == s[k]
      <4>1. x \in 0..255
        OBVIOUS
      <4> HIDE DEF x
      <4>2. 256 * m + x \in Nat
        BY <4>1
      <4> QED
        BY <4>2 DEF x
    <3> QED
      BY <3>1
  <2> QED
    BY <2>1
<1>2. PICK v \in [0..Word -> Nat] : IsWalk(v, 0, Word, step)
  <2> HIDE DEF step
  <2> QED BY <1>1, WalkExists
<1>3. ASSUME NEW k \in 1..Word PROVE v[k] = 256 * v[k - 1] + s[k]
  <2>1. v[k - 1] \in Nat
    OBVIOUS
  <2>2. <<v[k - 1], k>> \in Nat \X (1..Word)
    BY <2>1
  <2>3. step[<<v[k - 1], k>>] = 256 * v[k - 1] + s[k]
    BY <2>2
  <2> QED
    BY <1>2, <2>3 DEF IsWalk
<1>4. v = Body(v)
  BY <1>2, <1>3 DEF IsWalk
<1> DEFINE w == CHOOSE u : u = Body(u)
<1>5. Framed!ntohl(s) = w[Word]
  BY DEF Framed!ntohl
<1>6. w = Body(w)
  <2> HIDE DEF Body
  <2> QED BY <1>4
<1> HIDE DEF w
<1>7. w[0] = 0 /\ \A k \in 1..Word : w[k] = 256 * w[k - 1] + s[k]
  BY <1>6
<1> QED
  BY <1>5, <1>7 DEF ByBytes

(* ntohl undoes htonl, for every number that fits in a word.               *)

LEMMA NetworkOrder ==
  ASSUME NEW n \in Nat, Framed!Shifted(n)[Word] = 0
  PROVE  Framed!Network(n) \in [1..Word -> 0..255] /\ Framed!ntohl(Framed!Network(n)) = n
<1> USE FramesAssumption
<1> DEFINE s == Framed!Network(n)
           h == Framed!Shifted(n)
<1>1. h[0] = n /\ h[Word] = 0 /\ \A k \in 0..Word : h[k] \in Nat
  BY ShiftedIs
<1>2. \A k \in 1..Word : h[k] = h[k - 1] \div 256
  BY ShiftedIs
<1>3. s = [k \in 1..Word |-> h[Word - k] % 256]
  BY DEF Framed!Network
<1> HIDE DEF s, h
<1>4. ASSUME NEW k \in 1..Word PROVE h[Word - k] % 256 \in 0..255 /\ 256 * h[Word - k + 1] + (h[Word - k] % 256) = h[Word - k]
  <2>1. Word - k \in 0..Word /\ Word - k + 1 \in 1..Word /\ (Word - k + 1) - 1 = Word - k
    OBVIOUS
  <2>2. h[Word - k] \in Nat /\ h[Word - k + 1] = h[Word - k] \div 256
    BY <1>1, <1>2, <2>1
  <2> QED
    BY <2>2, DivMod
<1>5. s \in [1..Word -> 0..255]
  <2>1. \A k \in 1..Word : h[Word - k] % 256 \in 0..255
    BY <1>4
  <2>2. ASSUME NEW k \in 1..Word PROVE s[k] \in 0..255
    <3>1. s[k] = h[Word - k] % 256
      BY <1>3
    <3> QED
      BY <2>1, <3>1
  <2>3. s = [k \in 1..Word |-> s[k]]
    BY <1>3
  <2> QED
    BY <2>2, <2>3
<1>b. PICK w : ByBytes(w, s)
  BY <1>5, ValueIs
<1>6. w[0] = 0 /\ Framed!ntohl(s) = w[Word] /\ \A k \in 1..Word : w[k] = 256 * w[k - 1] + s[k]
  BY <1>b DEF ByBytes
<1> DEFINE G == {k \in Nat : k <= Word => w[k] = h[Word - k]}
<1>7. 0 \in G
  BY <1>1, <1>6
<1>8. ASSUME NEW k \in Nat, k \in G PROVE k + 1 \in G
  <2> SUFFICES ASSUME k + 1 <= Word PROVE w[k + 1] = h[Word - (k + 1)]
    OBVIOUS
  <2>1. w[k] = h[Word - k] /\ k + 1 \in 1..Word /\ (k + 1) - 1 = k /\ Word - (k + 1) + 1 = Word - k
    BY <1>8
  <2>2. w[k + 1] = 256 * w[k] + s[k + 1] /\ s[k + 1] = h[Word - (k + 1)] % 256
    BY <1>3, <1>6, <2>1
  <2>3. 256 * h[Word - k] + (h[Word - (k + 1)] % 256) = h[Word - (k + 1)]
    <3> DEFINE j == k + 1
    <3>1. j \in 1..Word /\ Word - j + 1 = Word - k
      BY <2>1
    <3> HIDE DEF j
    <3>2. 256 * h[Word - j + 1] + (h[Word - j] % 256) = h[Word - j]
      BY <1>4, <3>1
    <3> QED
      BY <3>1, <3>2 DEF j
  <2> QED
    BY <2>1, <2>2, <2>3
<1>9. Nat \subseteq G
  <2> HIDE DEF G
  <2> QED BY <1>7, <1>8, Induction
<1>10. w[Word] = h[Word - Word] /\ Word - Word = 0
  BY <1>9
<1> QED
  BY <1>1, <1>5, <1>6, <1>10 DEF s

StreamBytes == 0..255 \cup Letters

LEMMA ConcatFacts ==
  ASSUME NEW X, NEW s \in Seq(X), NEW t \in Seq(X)
  PROVE  /\ s \o t \in Seq(X) /\ Len(s \o t) = Len(s) + Len(t) /\ Len(s) \in Nat /\ Len(t) \in Nat
         /\ \A k \in 1..Len(s) : (s \o t)[k] = s[k]
         /\ \A k \in 1..Len(t) : (s \o t)[Len(s) + k] = t[k]
<1>1. Len(s) \in Nat /\ Len(t) \in Nat
  BY LenProperties
<1>2. /\ s \o t \in Seq(X) /\ Len(s \o t) = Len(s) + Len(t)
      /\ \A k \in 1 .. Len(s) + Len(t) : (s \o t)[k] = IF k <= Len(s) THEN s[k] ELSE t[k - Len(s)]
  BY ConcatProperties
<1>3. ASSUME NEW k \in 1..Len(t) PROVE (s \o t)[Len(s) + k] = t[k]
  <2>1. Len(s) + k \in 1 .. Len(s) + Len(t) /\ ~(Len(s) + k <= Len(s)) /\ Len(s) + k - Len(s) = k
    BY <1>1
  <2> QED
    BY <1>2, <2>1
<1> QED
  BY <1>1, <1>2, <1>3

LEMMA HostIsWord == Framed!Host(1) \in Seq(StreamBytes) /\ Len(Framed!Host(1)) = Word
<1> USE FramesAssumption
<1> DEFINE h == Framed!Shifted(1)
           s == Framed!Host(1)
<1>1. \A k \in 0..Word : h[k] \in Nat
  BY ShiftedIs
<1>2. s = [k \in 1..Word |-> h[k - 1] % 256]
  BY DEF Framed!Host
<1> HIDE DEF h, s
<1>3. ASSUME NEW k \in 1..Word PROVE s[k] \in StreamBytes
  <2>1. h[k - 1] \in Nat /\ s[k] = h[k - 1] % 256
    BY <1>1, <1>2
  <2> QED
    BY <2>1, DivMod DEF StreamBytes
<1>4. s = [k \in 1..Word |-> s[k]]
  BY <1>2
<1>5. s \in [1..Word -> StreamBytes]
  BY <1>3, <1>4
<1> QED
  BY <1>5 DEF s

LEMMA LineIs ==
  ASSUME NEW l \in Framed!Line
  PROVE  l \in Seq(StreamBytes) /\ Len(l) \in 1 .. DataSize - 1 /\ Len(l) \in Nat
<1>1. PICK n \in 1 .. DataSize - 1 : l \in [1..n -> Letters]
  BY DEF Framed!Line
<1>2. n \in Nat /\ l \in [1..n -> StreamBytes]
  BY <1>1 DEF StreamBytes
<1>3. l \in Seq(StreamBytes) /\ Len(l) = n
  BY <1>2
<1> QED
  BY <1>1, <1>2, <1>3

\* What the header of a line and the line give at each place of its message.
LEMMA MessageIs ==
  ASSUME NEW l \in Framed!Line, NEW m, m = Framed!Message(l)
  PROVE  /\ m \in Seq(StreamBytes) /\ Len(m) = Word + Word + Len(l) /\ Len(l) \in 1 .. DataSize - 1
         /\ Framed!Network(Len(l)) \in Seq(StreamBytes) /\ Len(Framed!Network(Len(l))) = Word
         /\ Framed!ntohl(Framed!Network(Len(l))) = Len(l)
         /\ \A k \in 1..Word : m[k] = Framed!Network(Len(l))[k]
         /\ \A k \in 1..Word : m[Word + k] = Framed!Host(1)[k]
         /\ \A k \in 1..Len(l) : m[Word + Word + k] = l[k]
<1> USE FramesAssumption
<1> DEFINE a == Framed!Network(Len(l))
           b == Framed!Host(1)
<1>1. l \in Seq(StreamBytes) /\ Len(l) \in 1 .. DataSize - 1 /\ Len(l) \in Nat
  BY LineIs
<1>2. b \in Seq(StreamBytes) /\ Len(b) = Word
  BY HostIsWord
<1>3. a \in [1..Word -> 0..255] /\ Framed!ntohl(a) = Len(l)
  BY <1>1, NetworkOrder
<1>4. a \in Seq(StreamBytes) /\ Len(a) = Word
  <2> HIDE DEF a
  <2>1. a \in [1..Word -> StreamBytes]
    BY <1>3 DEF StreamBytes
  <2> QED
    BY <2>1
<1>5. m = (a \o b) \o l
  BY DEF Framed!Message
<1> HIDE DEF a, b
<1> DEFINE ab == a \o b
<1>6. /\ ab \in Seq(StreamBytes) /\ Len(ab) = Word + Word
      /\ \A k \in 1..Word : ab[k] = a[k]
      /\ \A k \in 1..Word : ab[Word + k] = b[k]
  <2>1. /\ ab \in Seq(StreamBytes) /\ Len(ab) = Len(a) + Len(b)
        /\ \A k \in 1..Len(a) : ab[k] = a[k]
        /\ \A k \in 1..Len(b) : ab[Len(a) + k] = b[k]
    BY <1>2, <1>4, ConcatFacts
  <2> HIDE DEF ab
  <2>2. Len(a) = Word /\ Len(b) = Word
    BY <1>2, <1>4
  <2> QED
    BY <2>1, <2>2
<1>7. ab \in Seq(StreamBytes) /\ Len(ab) = Word + Word
  BY <1>6
<1>m. m = ab \o l
  BY <1>5
<1> HIDE DEF ab
<1>8. /\ m \in Seq(StreamBytes) /\ Len(m) = Word + Word + Len(l)
      /\ \A k \in 1 .. Word + Word : m[k] = ab[k]
      /\ \A k \in 1..Len(l) : m[Word + Word + k] = l[k]
  <2>1. /\ ab \o l \in Seq(StreamBytes) /\ Len(ab \o l) = Len(ab) + Len(l)
        /\ \A k \in 1..Len(ab) : (ab \o l)[k] = ab[k]
        /\ \A k \in 1..Len(l) : (ab \o l)[Len(ab) + k] = l[k]
    <3>1. ab \in Seq(StreamBytes) /\ l \in Seq(StreamBytes)
      BY <1>1, <1>7
    <3> HIDE DEF StreamBytes
    <3> QED
      BY <3>1, ConcatFacts
  <2> QED
    BY <1>7, <1>m, <2>1
<1>9. ASSUME NEW k \in 1..Word PROVE m[k] = a[k] /\ m[Word + k] = b[k]
  <2>1. k \in 1 .. Word + Word /\ Word + k \in 1 .. Word + Word
    OBVIOUS
  <2>2. ab[k] = a[k] /\ ab[Word + k] = b[k]
    BY <1>6 DEF ab
  <2> QED
    BY <1>8, <2>1, <2>2
<1> QED
  BY <1>1, <1>3, <1>4, <1>8, <1>9 DEF a, b

\* What read_message has taken of the message it is in.
Before(c) ==
  CASE c.part = "length" -> <<>>
    [] c.part = "type"   -> Framed!Network(c.msg_length)
    [] c.part = "body"   -> Framed!Network(c.msg_length) \o Framed!Host(1)
Consumed(c) == Before(c) \o c.bytes
Calls == [part : {"length", "type", "body"}, bytes : Seq(StreamBytes), msg_length : Nat]

\* rest[k] is what the client has sent from its k-th message on; cut is the part of a message
\* that a killed client has left.
Chain(rest, lines, cut) ==
  /\ rest \in [1 .. Len(lines) + 1 -> Seq(StreamBytes)] /\ rest[Len(lines) + 1] = cut
  /\ \A k \in 1..Len(lines) : rest[k] = Framed!Message(lines[k]) \o rest[k + 1]
PartOf(cut, l) ==
  Len(cut) < Len(Framed!Message(l)) /\ \A k \in 1..Len(cut) : cut[k] = Framed!Message(l)[k]

\* l is the line whose message the server is in.
Current(l, cut) ==
  l \in Framed!Line /\ IF Len(received) < Len(typed) THEN l = typed[Len(received) + 1] ELSE PartOf(cut, l)

StreamIs(rest, cut) ==
  /\ Chain(rest, typed, cut) /\ (sender = "up" => cut = <<>>)
  /\ cut # <<>> => \E l \in Framed!Line : PartOf(cut, l)
  /\ rest[Len(received) + 1] = Consumed(call) \o stream
  /\ call.part # "length" => \E l : Current(l, cut) /\ call.msg_length = Len(l)

FramesTyped ==
  /\ typed \in Seq(Framed!Line) /\ stream \in Seq(StreamBytes) /\ received \in Seq(Framed!Line)
  /\ sender \in {"up", "ended", "failed"}
  /\ call \in Calls /\ Len(call.bytes) < Framed!Asked
  /\ call.part # "length" => Framed!Network(call.msg_length) \in Seq(StreamBytes)
                              /\ Len(Framed!Network(call.msg_length)) = Word
FramesInv ==
  /\ FramesTyped
  /\ Len(received) <= Len(typed) /\ \A k \in 1..Len(received) : received[k] = typed[k]
  /\ sender = "failed" => stream = <<>>
  /\ outcome = "clientClosed" => Len(received) = Len(typed) /\ sender # "up"
  /\ outcome = "readError" => sender = "failed"
  /\ sender # "failed" => \E rest, cut : StreamIs(rest, cut)

LEMMA FramesInvImplies == FramesInv => Framed!MessagesWhole
<1> SUFFICES ASSUME FramesInv PROVE Framed!MessagesWhole
  OBVIOUS
<1> DEFINE m == Len(received)
           n == Len(typed)
<1>1. /\ typed \in Seq(Framed!Line) /\ received \in Seq(Framed!Line) /\ m \in Nat /\ n \in Nat /\ m <= n
      /\ \A k \in 1..m : received[k] = typed[k] /\ received[k] \in Framed!Line
  BY LenProperties, ElementOfSeq DEF FramesInv, FramesTyped
<1>2. SubSeq(received, 1, m) = received
  BY <1>1, SubSeqFull
<1>3. SubSeq(typed, 1, m) = received
  <2> DEFINE s == SubSeq(typed, 1, m)
  <2>1. \A k \in 1..m : typed[k] \in Framed!Line
    BY <1>1
  <2>2. /\ s \in Seq(Framed!Line) /\ Len(s) = IF 1 <= m THEN m - 1 + 1 ELSE 0
        /\ \A k \in 1..(m - 1 + 1) : s[k] = typed[1 + k - 1]
    BY <1>1, <2>1, SubSeqProperties
  <2> HIDE DEF s
  <2>3. Len(s) = m /\ \A k \in 1..m : s[k] = received[k]
    BY <1>1, <2>2
  <2>4. s = received
    BY <1>1, <2>2, <2>3, SeqEqual
  <2> QED
    BY <2>4 DEF s
<1>4. Framed!IsPrefix(received, typed)
  BY <1>1, <1>2, <1>3 DEF Framed!IsPrefix
<1>5. m = n => received = typed
  BY <1>1, SeqEqual
<1>6. ASSUME NEW k \in 1..Len(received) PROVE Len(received[k]) < DataSize
  <2> DEFINE l == received[k]
  <2>1. l \in Framed!Line
    BY <1>1
  <2> HIDE DEF l
  <2>2. Len(l) \in 1 .. DataSize - 1
    BY <2>1, LineIs
  <2> QED
    BY <2>2, FramesAssumption DEF l
<1> QED
  BY <1>4, <1>5, <1>6 DEF FramesInv, Framed!MessagesWhole

LEMMA FramesInitHolds == FramesAssumption /\ Framed!Init => FramesInv
<1> SUFFICES ASSUME FramesAssumption, Framed!Init PROVE FramesInv
  OBVIOUS
<1>1. /\ typed = <<>> /\ stream = <<>> /\ sender = "up" /\ received = <<>> /\ outcome = "running"
      /\ call = [part |-> "length", bytes |-> <<>>, msg_length |-> 0]
  BY DEF Framed!Init, Framed!Reading
<1>2. <<>> \in Seq(StreamBytes) /\ <<>> \in Seq(Framed!Line) /\ Len(<<>>) = 0
  BY EmptySeq
<1>3. call.part = "length" /\ call.bytes = <<>> /\ call \in Calls
  BY <1>1, <1>2 DEF Calls
<1>4. Len(call.bytes) < Framed!Asked
  BY <1>2, <1>3, FramesAssumption DEF Framed!Asked
<1>5. Consumed(call) \o stream = <<>>
  <2>1. <<>> \o <<>> = <<>>
    BY <1>2, ConcatEmptySeq
  <2> QED
    BY <1>1, <1>3, <2>1 DEF Consumed, Before
<1>6. StreamIs([k \in 1..1 |-> <<>>], <<>>)
  <2>1. Chain([k \in 1..1 |-> <<>>], typed, <<>>)
    BY <1>1, <1>2 DEF Chain
  <2> QED
    BY <1>1, <1>2, <1>3, <1>5, <2>1 DEF StreamIs
<1> QED
  BY <1>1, <1>2, <1>3, <1>4, <1>6 DEF FramesInv, FramesTyped

\* The part of the stream that a SubSeq takes or leaves.
LEMMA PrefixIs ==
  ASSUME NEW X, NEW s \in Seq(X), NEW n \in 0..Len(s)
  PROVE  /\ SubSeq(s, 1, n) \in Seq(X) /\ SubSeq(s, n + 1, Len(s)) \in Seq(X)
         /\ Len(SubSeq(s, 1, n)) = n /\ \A k \in 1..n : SubSeq(s, 1, n)[k] = s[k]
         /\ SubSeq(s, 1, n) \o SubSeq(s, n + 1, Len(s)) = s
<1> DEFINE a == SubSeq(s, 1, n)
           b == SubSeq(s, n + 1, Len(s))
<1>1. Len(s) \in Nat /\ n \in Nat /\ n <= Len(s) /\ \A k \in 1..Len(s) : s[k] \in X
  BY LenProperties, ElementOfSeq
<1>2. /\ a \in Seq(X) /\ Len(a) = IF 1 <= n THEN n - 1 + 1 ELSE 0
      /\ \A k \in 1..(n - 1 + 1) : a[k] = s[1 + k - 1]
  <2>1. \A k \in 1..n : s[k] \in X
    BY <1>1
  <2> QED
    BY <1>1, <2>1, SubSeqProperties
<1>3. b \in Seq(X)
  <2>1. \A k \in (n + 1)..Len(s) : s[k] \in X
    BY <1>1
  <2> QED
    BY <1>1, <2>1, SubSeqProperties
<1>4. a \o b = s
  <2>1. 1 \in 1..(Len(s) + 1) /\ n \in (1 - 1)..Len(s) /\ Len(s) \in n..Len(s)
    BY <1>1
  <2>2. a \o b = SubSeq(s, 1, Len(s))
    BY <1>1, <2>1, ConcatAdjacentSubSeq
  <2> QED
    BY <2>2, SubSeqFull
<1> HIDE DEF a, b
<1>5. Len(a) = n /\ \A k \in 1..n : a[k] = s[k]
  BY <1>1, <1>2
<1> QED
  BY <1>2, <1>3, <1>4, <1>5 DEF a, b

LEMMA FramesFacts ==
  ASSUME FramesInv
  PROVE  /\ typed \in Seq(Framed!Line) /\ stream \in Seq(StreamBytes) /\ received \in Seq(Framed!Line)
         /\ Len(typed) \in Nat /\ Len(received) \in Nat /\ Len(stream) \in Nat /\ Len(received) <= Len(typed)
         /\ \A k \in 1..Len(typed) : typed[k] \in Framed!Line
         /\ call.bytes \in Seq(StreamBytes) /\ Len(call.bytes) \in Nat /\ call.msg_length \in Nat
         /\ Len(call.bytes) < Framed!Asked /\ call.part \in {"length", "type", "body"} /\ call \in Calls
         /\ Before(call) \in Seq(StreamBytes) /\ Consumed(call) \in Seq(StreamBytes)
         /\ Len(Consumed(call)) = Len(Before(call)) + Len(call.bytes)
         /\ Len(Before(call)) = CASE call.part = "length" -> 0
                                  [] call.part = "type"   -> Word
                                  [] call.part = "body"   -> Word + Word
<1> USE FramesAssumption
<1>1. /\ typed \in Seq(Framed!Line) /\ stream \in Seq(StreamBytes) /\ received \in Seq(Framed!Line)
      /\ Len(received) <= Len(typed) /\ call \in Calls /\ Len(call.bytes) < Framed!Asked
      /\ call.part # "length" => Framed!Network(call.msg_length) \in Seq(StreamBytes)
                              /\ Len(Framed!Network(call.msg_length)) = Word
  BY DEF FramesInv, FramesTyped
<1>2. Len(typed) \in Nat /\ Len(received) \in Nat /\ Len(stream) \in Nat
      /\ \A k \in 1..Len(typed) : typed[k] \in Framed!Line
  BY <1>1, LenProperties, ElementOfSeq
<1>3. call.bytes \in Seq(StreamBytes) /\ call.part \in {"length", "type", "body"} /\ call.msg_length \in Nat
  BY <1>1 DEF Calls
<1>4. Len(call.bytes) \in Nat
  BY <1>3, LenProperties
<1> DEFINE b == Before(call)
<1>5. b \in Seq(StreamBytes) /\ Len(b) = CASE call.part = "length" -> 0
                                      [] call.part = "type"   -> Word
                                      [] call.part = "body"   -> Word + Word
  <2>1. CASE call.part = "length"
    BY <2>1, EmptySeq DEF Before
  <2>2. CASE call.part = "type"
    BY <1>1, <2>2 DEF Before
  <2>3. CASE call.part = "body"
    <3> DEFINE x == Framed!Network(call.msg_length)
               y == Framed!Host(1)
    <3>1. x \in Seq(StreamBytes) /\ Len(x) = Word /\ y \in Seq(StreamBytes) /\ Len(y) = Word
      BY <1>1, <2>3, HostIsWord
    <3>2. b = x \o y
      BY <2>3 DEF Before
    <3> HIDE DEF x, y, b
    <3>3. x \o y \in Seq(StreamBytes) /\ Len(x \o y) = Word + Word
      <4>1. x \o y \in Seq(StreamBytes) /\ Len(x \o y) = Len(x) + Len(y)
        BY <3>1, ConcatFacts
      <4> QED
        BY <3>1, <4>1
    <3> QED
      BY <2>3, <3>2, <3>3
  <2> QED
    BY <1>3, <2>1, <2>2, <2>3
<1> HIDE DEF b
<1>6. b \o call.bytes \in Seq(StreamBytes) /\ Len(b \o call.bytes) = Len(b) + Len(call.bytes)
  <2> DEFINE c == call.bytes
  <2>1. c \in Seq(StreamBytes)
    BY <1>3
  <2> HIDE DEF c
  <2>2. b \o c \in Seq(StreamBytes) /\ Len(b \o c) = Len(b) + Len(c)
    BY <1>5, <2>1, ConcatFacts
  <2> QED
    BY <2>2 DEF c
<1> QED
  BY <1>1, <1>2, <1>3, <1>4, <1>5, <1>6 DEF b, Consumed

\* What the client sends behind a stream that ends with a whole message.
LEMMA ChainExtend ==
  ASSUME NEW lines \in Seq(Framed!Line), NEW rest, Chain(rest, lines, <<>>), NEW x \in Seq(StreamBytes)
  PROVE  Chain([k \in 1 .. Len(lines) + 1 |-> rest[k] \o x], lines, x)
<1> DEFINE n == Len(lines)
           more == [k \in 1 .. n + 1 |-> rest[k] \o x]
<1>1. /\ n \in Nat /\ rest \in [1 .. n + 1 -> Seq(StreamBytes)] /\ rest[n + 1] = <<>>
      /\ \A k \in 1..n : rest[k] = Framed!Message(lines[k]) \o rest[k + 1] /\ lines[k] \in Framed!Line
  BY LenProperties, ElementOfSeq DEF Chain
<1> HIDE DEF n
<1>2. ASSUME NEW k \in 1 .. n + 1 PROVE rest[k] \o x \in Seq(StreamBytes)
  <2> DEFINE r == rest[k]
  <2>1. r \in Seq(StreamBytes)
    BY <1>1
  <2> HIDE DEF r
  <2>2. r \o x \in Seq(StreamBytes)
    BY <2>1, ConcatFacts
  <2> QED
    BY <2>2 DEF r
<1>3. more \in [1 .. n + 1 -> Seq(StreamBytes)]
  BY <1>2
<1>4. more[n + 1] = x
  <2>1. n + 1 \in 1 .. n + 1 /\ <<>> \o x = x
    BY <1>1, ConcatEmptySeq
  <2> QED
    BY <1>1, <2>1
<1>5. ASSUME NEW k \in 1..n PROVE more[k] = Framed!Message(lines[k]) \o more[k + 1]
  <2> DEFINE m == Framed!Message(lines[k])
             r == rest[k + 1]
             S == Seq(StreamBytes)
  <2>1. k \in 1 .. n + 1 /\ k + 1 \in 1 .. n + 1
    BY <1>1
  <2>2. more[k] = (m \o r) \o x /\ more[k + 1] = r \o x /\ r \in S /\ x \in S
    BY <1>1, <2>1
  <2>3. m \in S
    BY <1>1, MessageIs
  <2>4. Regroups(S)
    BY Regrouped
  <2> HIDE DEF m, r, S, more
  <2>5. (m \o r) \o x = m \o (r \o x)
    BY <2>2, <2>3, <2>4, Zenon DEF Regroups
  <2> QED
    BY <2>2, <2>5 DEF m
<1> HIDE DEF more
<1>6. Chain(more, lines, x)
  BY <1>3, <1>4, <1>5 DEF Chain, n
<1> QED
  BY <1>6 DEF more, n

LEMMA ChainSend ==
  ASSUME NEW lines \in Seq(Framed!Line), NEW rest, Chain(rest, lines, <<>>), NEW l \in Framed!Line
  PROVE  Chain([k \in 1 .. Len(lines) + 2 |->
                  IF k = Len(lines) + 2 THEN <<>> ELSE rest[k] \o Framed!Message(l)], Append(lines, l), <<>>)
<1> DEFINE n == Len(lines)
           x == Framed!Message(l)
           more == [k \in 1 .. n + 1 |-> rest[k] \o x]
           all == [k \in 1 .. n + 2 |-> IF k = n + 2 THEN <<>> ELSE rest[k] \o x]
           longer == Append(lines, l)
<1>1. n \in Nat /\ x \in Seq(StreamBytes)
  BY LenProperties, MessageIs
<1>2. Chain(more, lines, x)
  <2> HIDE DEF x
  <2> QED BY <1>1, ChainExtend
<1>3. /\ more \in [1 .. n + 1 -> Seq(StreamBytes)] /\ more[n + 1] = x
      /\ \A k \in 1..n : more[k] = Framed!Message(lines[k]) \o more[k + 1]
  <2> HIDE DEF x, more
  <2> QED BY <1>2 DEF Chain
<1>4. all[n + 2] = <<>> /\ DOMAIN all = 1 .. n + 2 /\ all = [k \in 1 .. n + 2 |-> all[k]]
  BY <1>1
<1>5. ASSUME NEW k \in 1 .. n + 1 PROVE all[k] = more[k]
  <2>1. k \in 1 .. n + 2 /\ k # n + 2
    BY <1>1
  <2> HIDE DEF x
  <2> QED BY <2>1
<1>6. /\ longer \in Seq(Framed!Line) /\ Len(longer) = n + 1 /\ longer[n + 1] = l
      /\ \A k \in 1..n : longer[k] = lines[k]
  BY <1>1, AppendProperties
<1> HIDE DEF all, more, longer
<1>7. all \in [1 .. n + 2 -> Seq(StreamBytes)]
  <2>1. ASSUME NEW k \in 1 .. n + 2 PROVE all[k] \in Seq(StreamBytes)
    <3>1. CASE k = n + 2
      BY <1>4, <3>1, EmptySeq
    <3>2. CASE k # n + 2
      <4>1. k \in 1 .. n + 1
        BY <1>1, <3>2
      <4> QED
        BY <1>3, <1>5, <4>1
    <3> QED
      BY <3>1, <3>2
  <2> QED
    BY <1>4, <2>1
<1>8. ASSUME NEW k \in 1 .. n + 1 PROVE all[k] = Framed!Message(longer[k]) \o all[k + 1]
  <2>1. CASE k = n + 1
    <3>1. all[k] = x /\ all[k + 1] = <<>> /\ longer[k] = l
      <4>1. n + 1 \in 1 .. n + 1 /\ k + 1 = n + 2
        BY <1>1, <2>1
      <4> QED
        BY <1>3, <1>4, <1>5, <1>6, <2>1, <4>1
    <3>2. x \o <<>> = x
      <4> HIDE DEF x
      <4> QED BY <1>1, ConcatEmptySeq
    <3> QED
      BY <3>1, <3>2
  <2>2. CASE k # n + 1
    <3>1. k \in 1..n /\ k + 1 \in 1 .. n + 1
      BY <1>1, <2>2
    <3> QED
      BY <1>3, <1>5, <1>6, <3>1
  <2> QED
    BY <2>1, <2>2
<1>9. Chain(all, longer, <<>>)
  <2>1. Len(longer) + 1 = n + 2
    BY <1>1, <1>6
  <2> QED
    BY <1>4, <1>6, <1>7, <1>8, <2>1 DEF Chain
<1> QED
  BY <1>9 DEF all, longer

\* A server that is in a message, or about to read, is in one of the client's.
LEMMA Begins ==
  ASSUME FramesInv, NEW rest, NEW cut, StreamIs(rest, cut), stream # <<>> \/ call.part # "length"
  PROVE  \E l : Current(l, cut) /\ (call.part # "length" => call.msg_length = Len(l))
<1>1. CASE call.part # "length"
  BY <1>1 DEF StreamIs
<1>2. CASE call.part = "length" /\ Len(received) < Len(typed)
  <2>1. typed[Len(received) + 1] \in Framed!Line
    <3>1. Len(received) + 1 \in 1..Len(typed)
      BY <1>2, FramesFacts
    <3> QED
      BY <3>1, FramesFacts
  <2>2. Current(typed[Len(received) + 1], cut)
    BY <1>2, <2>1 DEF Current
  <2> QED
    BY <1>2, <2>2
<1>3. CASE call.part = "length" /\ ~(Len(received) < Len(typed))
  <2>1. Len(received) = Len(typed)
    BY <1>3, FramesFacts
  <2>2. cut = Consumed(call) \o stream
    BY <2>1 DEF StreamIs, Chain
  <2>3. cut # <<>>
    <3> DEFINE c == Consumed(call)
    <3>1. c \in Seq(StreamBytes) /\ stream \in Seq(StreamBytes) /\ stream # <<>>
      BY <1>3, FramesFacts
    <3> HIDE DEF c
    <3>2. Len(c) \in Nat /\ Len(stream) \in Nat /\ Len(stream) # 0
      BY <3>1, EmptySeq, LenProperties
    <3>3. Len(c \o stream) = Len(c) + Len(stream)
      BY <3>1, ConcatFacts
    <3>4. Len(c \o stream) # 0
      BY <3>2, <3>3
    <3> QED
      BY <2>2, <3>4, EmptySeq DEF c
  <2>4. PICK l \in Framed!Line : PartOf(cut, l)
    BY <2>3 DEF StreamIs
  <2> QED
    BY <1>3, <2>4 DEF Current
<1> QED
  BY <1>1, <1>2, <1>3

Coming == Consumed(call) \o stream

\* What has come is the beginning of that message, or all of it and what was sent behind it.
LEMMA Agrees ==
  ASSUME FramesInv, NEW rest, NEW cut, StreamIs(rest, cut), NEW l, Current(l, cut)
  PROVE  /\ l \in Framed!Line /\ Coming \in Seq(StreamBytes)
         /\ \A k \in 1..Len(Coming) : k <= Len(Framed!Message(l)) => Coming[k] = Framed!Message(l)[k]
         /\ Len(Coming) >= Len(Framed!Message(l)) => Len(received) < Len(typed)
         /\ Len(received) < Len(typed) =>
              /\ l = typed[Len(received) + 1] /\ Len(received) + 2 \in 1 .. Len(typed) + 1
              /\ Coming = Framed!Message(l) \o rest[Len(received) + 2]
              /\ rest[Len(received) + 2] \in Seq(StreamBytes)
<1> DEFINE i == Len(received) + 1
           r == rest[i + 1]
           Q == Coming
           m == Framed!Message(l)
<1>1. /\ Len(received) \in Nat /\ Len(typed) \in Nat /\ Len(received) <= Len(typed)
      /\ i \in 1 .. Len(typed) + 1 /\ i + 1 = Len(received) + 2
  BY FramesFacts
<1>2. Q = rest[i] /\ Chain(rest, typed, cut) /\ l \in Framed!Line
  BY DEF StreamIs, Current, Coming
<1> HIDE DEF Q
<1>3. Q \in Seq(StreamBytes) /\ m \in Seq(StreamBytes) /\ Len(Q) \in Nat /\ Len(m) \in Nat
  <2>1. Q \in Seq(StreamBytes)
    <3> HIDE DEF r
    <3> QED BY <1>1, <1>2 DEF Chain
  <2>2. m \in Seq(StreamBytes)
    BY <1>2, MessageIs
  <2> QED
    BY <2>1, <2>2, LenProperties
<1>f. \A k \in 1..Len(typed) : rest[k] = Framed!Message(typed[k]) \o rest[k + 1]
  BY <1>2 DEF Chain
<1> HIDE DEF m
<1>4. CASE Len(received) < Len(typed)
  <2>1. i \in 1..Len(typed) /\ i + 1 \in 1 .. Len(typed) + 1 /\ l = typed[i]
    BY <1>1, <1>4 DEF Current
  <2>2. Q = m \o r /\ r \in Seq(StreamBytes)
    BY <1>2, <1>f, <2>1 DEF Chain, m
  <2> HIDE DEF i, r
  <2>3. Len(Q) = Len(m) + Len(r) /\ \A k \in 1..Len(m) : Q[k] = m[k]
    <3>1. Len(m \o r) = Len(m) + Len(r) /\ \A k \in 1..Len(m) : (m \o r)[k] = m[k]
      BY <1>3, <2>2, ConcatFacts
    <3> QED
      BY <2>2, <3>1
  <2>4. ASSUME NEW k \in 1..Len(Q), k <= Len(m) PROVE Q[k] = m[k]
    <3>1. k \in 1..Len(m)
      BY <1>3, <2>4
    <3> QED
      BY <2>3, <3>1
  <2>5. /\ l = typed[Len(received) + 1] /\ Len(received) + 2 \in 1 .. Len(typed) + 1
        /\ Q = m \o rest[Len(received) + 2] /\ rest[Len(received) + 2] \in Seq(StreamBytes)
    BY <1>1, <2>1, <2>2 DEF i, r
  <2> QED
    BY <1>2, <1>3, <1>4, <2>4, <2>5 DEF Q, m
<1>5. CASE ~(Len(received) < Len(typed))
  <2>1. Q = cut
    BY <1>1, <1>2, <1>5 DEF Chain
  <2>2. Len(Q) < Len(m) /\ \A k \in 1..Len(Q) : Q[k] = m[k]
    BY <1>5, <2>1 DEF Current, PartOf, m
  <2>3. ~(Len(Q) >= Len(m))
    BY <1>3, <2>2
  <2> QED
    BY <1>2, <1>3, <1>5, <2>2, <2>3 DEF Q, m
<1> QED
  BY <1>4, <1>5

\* The server has more to read of the message it is in.
LEMMA InMessage ==
  ASSUME FramesInv, NEW l \in Framed!Line, call.part # "length" => call.msg_length = Len(l)
  PROVE  /\ Framed!Asked \in Nat /\ Len(Framed!Message(l)) = Word + Word + Len(l) /\ Len(l) \in 1 .. DataSize - 1
         /\ Len(Before(call)) + Framed!Asked = CASE call.part = "length" -> Word
                                                 [] call.part = "type"   -> Word + Word
                                                 [] call.part = "body"   -> Word + Word + Len(l)
         /\ Len(Before(call)) + Framed!Asked <= Len(Framed!Message(l))
         /\ Len(Consumed(call)) < Len(Framed!Message(l))
<1> USE FramesAssumption
<1> DEFINE b == Len(Before(call))
           c == Len(Consumed(call))
           x == Len(call.bytes)
           a == Framed!Asked
           n == Len(l)
           m == Len(Framed!Message(l))
<1>1. m = Word + Word + n /\ n \in 1 .. DataSize - 1
  BY MessageIs
<1>2. /\ call.part \in {"length", "type", "body"} /\ x \in Nat /\ x < a /\ c = b + x
      /\ b = CASE call.part = "length" -> 0 [] call.part = "type" -> Word [] call.part = "body" -> Word + Word
  BY FramesFacts
<1>3. a = IF call.part = "body" THEN n ELSE Word
  BY DEF Framed!Asked
<1> HIDE DEF b, c, x, a, n, m
<1>4. /\ a \in Nat /\ b + a <= m /\ c < m
      /\ b + a = CASE call.part = "length" -> Word
                   [] call.part = "type"   -> Word + Word
                   [] call.part = "body"   -> Word + Word + n
  <2>1. CASE call.part = "length"
    BY <1>1, <1>2, <1>3, <2>1
  <2>2. CASE call.part = "type"
    BY <1>1, <1>2, <1>3, <2>2
  <2>3. CASE call.part = "body"
    BY <1>1, <1>2, <1>3, <2>3
  <2> QED
    BY <1>2, <2>1, <2>2, <2>3
<1> QED
  BY <1>1, <1>4 DEF b, c, x, a, n, m

\* Everything but what the server does.
LEMMA ClientSends ==
  ASSUME FramesInv, sender = "up", NEW x \in Seq(StreamBytes), stream' = stream \o x,
         UNCHANGED <<call, received, outcome>>,
         \/ \E l \in Framed!Line : x = Framed!Message(l) /\ typed' = Append(typed, l) /\ sender' = sender
         \/ typed' = typed /\ sender' = "ended" /\ \E l \in Framed!Line : PartOf(x, l)
  PROVE  FramesInv'
<1> USE FramesAssumption
<1> DEFINE m == Len(received)
           n == Len(typed)
           c == Consumed(call)
<1>1. /\ typed \in Seq(Framed!Line) /\ stream \in Seq(StreamBytes) /\ received \in Seq(Framed!Line)
      /\ m \in Nat /\ n \in Nat /\ m <= n /\ c \in Seq(StreamBytes)
  BY FramesFacts
<1>2. PICK rest : StreamIs(rest, <<>>)
  BY DEF FramesInv, StreamIs
<1>3. rest[m + 1] = c \o stream /\ Chain(rest, typed, <<>>)
  BY <1>2 DEF StreamIs
<1>4. call.part # "length" => m < n
  <2> SUFFICES ASSUME call.part # "length" PROVE m < n
    OBVIOUS
  <2>1. PICK l : Current(l, <<>>) /\ call.msg_length = Len(l)
    BY <1>2 DEF StreamIs
  <2>2. Len(Before(call)) \in Nat /\ Len(Before(call)) # 0 /\ Len(c) = Len(Before(call)) + Len(call.bytes)
        /\ Len(call.bytes) \in Nat
    BY FramesFacts
  <2>3. Len(c \o stream) = Len(c) + Len(stream) /\ Len(stream) \in Nat
    <3> HIDE DEF c
    <3> QED BY <1>1, ConcatFacts
  <2>4. c \o stream # <<>>
    <3>1. Len(c \o stream) # 0
      BY <2>2, <2>3
    <3> QED
      BY <3>1, EmptySeq
  <2>5. m = n => rest[m + 1] = <<>>
    BY <1>3 DEF Chain
  <2> QED
    BY <1>1, <1>3, <2>4, <2>5
<1>5. c' = c /\ m' = m /\ Framed!Asked' = Framed!Asked /\ outcome' = outcome /\ call' = call /\ received' = received
  BY DEF Consumed, Before, Framed!Asked
<1>6. stream' \in Seq(StreamBytes) /\ (c \o stream) \o x = c \o stream'
  <2> DEFINE S == Seq(StreamBytes)
  <2>1. stream \o x \in S
    BY <1>1, ConcatFacts
  <2>2. Regroups(S) /\ c \in S /\ stream \in S /\ x \in S
    BY <1>1, Regrouped
  <2> HIDE DEF c, S
  <2>3. (c \o stream) \o x = c \o (stream \o x)
    BY <2>2, Zenon DEF Regroups
  <2> QED
    BY <2>1, <2>3 DEF S
<1>7. /\ Len(received)' <= Len(typed') /\ typed' \in Seq(Framed!Line) /\ Len(typed') \in Nat
      /\ \A k \in 1..n : typed'[k] = typed[k]
  <2>1. CASE typed' = typed
    BY <1>1, <1>5, <2>1
  <2>2. ASSUME NEW l \in Framed!Line, typed' = Append(typed, l)
        PROVE  /\ Len(received)' <= Len(typed') /\ typed' \in Seq(Framed!Line) /\ Len(typed') \in Nat
               /\ \A k \in 1..n : typed'[k] = typed[k]
    <3>1. Len(typed') = n + 1 /\ typed' \in Seq(Framed!Line) /\ \A k \in 1..n : typed'[k] = typed[k]
      <4>1. /\ Append(typed, l) \in Seq(Framed!Line) /\ Len(Append(typed, l)) = n + 1
            /\ \A k \in 1..n : Append(typed, l)[k] = typed[k]
        BY <1>1, AppendProperties
      <4> QED
        BY <2>2, <4>1
    <3> QED
      BY <1>1, <1>5, <3>1
  <2> QED
    BY <2>1, <2>2
<1>8. FramesTyped'
  BY <1>1, <1>5, <1>6, <1>7 DEF FramesInv, FramesTyped
<1>9. ASSUME NEW cut, call.part # "length"
      PROVE  \E l : Current(l, cut)' /\ call'.msg_length = Len(l)
  <2>1. PICK l : Current(l, <<>>) /\ call.msg_length = Len(l)
    BY <1>2, <1>9 DEF StreamIs
  <2>2. m < n /\ l = typed[m + 1] /\ l \in Framed!Line /\ m + 1 \in 1..n
    BY <1>1, <1>4, <1>9, <2>1 DEF Current
  <2>3. m' < Len(typed') /\ l = typed'[m' + 1]
    <3>1. n <= Len(typed')
      <4>1. CASE typed' = typed
        BY <1>1, <4>1
      <4>2. ASSUME NEW q \in Framed!Line, typed' = Append(typed, q) PROVE n <= Len(typed')
        BY <1>1, <4>2, AppendProperties
      <4> QED
        BY <4>1, <4>2
    <3> QED
      BY <1>1, <1>5, <1>7, <2>2, <3>1
  <2> QED
    BY <1>5, <2>1, <2>2, <2>3 DEF Current
<1> DEFINE more == [k \in 1 .. n + 1 |-> rest[k] \o x]
<1>10. more[m + 1] = c' \o stream' /\ Chain(more, typed, x)
  <2>1. m + 1 \in 1 .. n + 1
    BY <1>1
  <2>2. Chain(more, typed, x)
    BY <1>1, <1>3, ChainExtend
  <2>3. more[m + 1] = rest[m + 1] \o x
    BY <2>1
  <2> HIDE DEF more, c, m
  <2> QED
    BY <1>3, <1>5, <1>6, <2>2, <2>3
<1>11. ASSUME NEW l \in Framed!Line, x = Framed!Message(l), typed' = Append(typed, l), sender' = sender
       PROVE  FramesInv'
  <2> DEFINE all == [k \in 1 .. n + 2 |-> IF k = n + 2 THEN <<>> ELSE rest[k] \o x]
  <2>1. Chain(all, typed', <<>>)
    BY <1>1, <1>3, <1>11, ChainSend
  <2>2. all[m + 1] = more[m + 1]
    <3>1. m + 1 \in 1 .. n + 2 /\ m + 1 # n + 2 /\ m + 1 \in 1 .. n + 1
      BY <1>1
    <3> QED
      BY <3>1
  <2> HIDE DEF all, more
  <2>f. PICK f : f = all
    OBVIOUS
  <2>s. f[m' + 1] = c' \o stream' /\ Chain(f, typed', <<>>)
    BY <1>5, <1>10, <2>f, <2>1, <2>2, Zenon
  <2>c. call'.part # "length" => \E q : Current(q, <<>>)' /\ call'.msg_length = Len(q)
    BY <1>5, <1>9
  <2> HIDE DEF c, m
  <2>3. StreamIs(f, <<>>)'
    BY <2>s, <2>c, Zenon DEF StreamIs, c, m
  <2>4. sender' = "up" /\ outcome' # "clientClosed" /\ outcome' # "readError"
    BY <1>5, <1>11 DEF FramesInv
  <2>5. \A k \in 1..Len(received') : received'[k] = typed'[k]
    BY <1>1, <1>5, <1>7 DEF FramesInv
  <2> QED
    BY <1>7, <1>8, <2>3, <2>4, <2>5 DEF FramesInv
<1>12. ASSUME typed' = typed, sender' = "ended", NEW l \in Framed!Line, PartOf(x, l)
       PROVE  FramesInv'
  <2> HIDE DEF more
  <2>f. PICK f : f = more
    OBVIOUS
  <2>s. f[m' + 1] = c' \o stream' /\ Chain(f, typed', x)
    BY <1>5, <1>10, <1>12, <2>f, Zenon
  <2>c. call'.part # "length" => \E q : Current(q, x)' /\ call'.msg_length = Len(q)
    BY <1>5, <1>9
  <2>e. sender' # "up"
    BY <1>12
  <2> HIDE DEF c, m
  <2>3. StreamIs(f, x)'
    BY <1>12, <2>s, <2>c, <2>e, Zenon DEF StreamIs, c, m
  <2>4. outcome' # "clientClosed" /\ outcome' # "readError"
    BY <1>5 DEF FramesInv
  <2>5. \A k \in 1..Len(received') : received'[k] = typed'[k]
    BY <1>1, <1>5, <1>7 DEF FramesInv
  <2> QED
    BY <1>7, <1>8, <1>12, <2>3, <2>4, <2>5 DEF FramesInv
<1> QED
  BY <1>11, <1>12

\* What a read of n bytes makes of the part that readn is in, and leaves in the stream.
Reads(n, bytes, left) ==
  bytes = call.bytes \o SubSeq(stream, 1, n) /\ left = SubSeq(stream, n + 1, Len(stream))

\* bytes and left go on with the message of l where the parts before ended.
ReadAsSent(l, bytes, left) ==
  /\ bytes \in Seq(StreamBytes) /\ left \in Seq(StreamBytes) /\ Len(bytes) <= Framed!Asked
  /\ Before(call) \o bytes \in Seq(StreamBytes)
  /\ Consumed(call) \o stream = (Before(call) \o bytes) \o left
  /\ Len(Before(call) \o bytes) = Len(Before(call)) + Len(bytes)
  /\ \A k \in 1..Len(bytes) : bytes[k] = Framed!Message(l)[Len(Before(call)) + k]

LEMMA ReadGives ==
  ASSUME FramesInv, NEW rest, NEW cut, StreamIs(rest, cut), NEW l, Current(l, cut),
         call.part # "length" => call.msg_length = Len(l),
         NEW n \in 1..Len(stream), n <= Framed!Asked - Len(call.bytes),
         NEW bytes, NEW left, Reads(n, bytes, left)
  PROVE  ReadAsSent(l, bytes, left)
<1> DEFINE S == Seq(StreamBytes)
           b == Before(call)
           x == call.bytes
           s1 == SubSeq(stream, 1, n)
           a == Framed!Asked
           m == Framed!Message(l)
           Q == Consumed(call) \o stream
<1>1. b \in S /\ x \in S /\ stream \in S /\ Len(b) \in Nat /\ Len(x) \in Nat /\ n \in Nat /\ n \in 0..Len(stream)
  <2>1. b \in S /\ x \in S /\ stream \in S /\ Len(stream) \in Nat
    BY FramesFacts
  <2> QED
    BY <2>1, LenProperties
<1>2. s1 \in S /\ left \in S /\ Len(s1) = n /\ s1 \o left = stream
  BY <1>1, PrefixIs DEF Reads
<1>3. bytes = x \o s1
  BY DEF Reads
<1>4. l \in Framed!Line /\ m \in S /\ a \in Nat /\ Len(b) + a <= Len(m) /\ Len(m) \in Nat
  <2>1. l \in Framed!Line
    BY DEF Current
  <2>2. m \in S
    BY <2>1, MessageIs
  <2> QED
    BY <2>1, <2>2, InMessage, LenProperties
<1>5. Q = (b \o x) \o stream
  BY DEF Consumed
<1>6. Q \in S /\ \A k \in 1..Len(Q) : k <= Len(m) => Q[k] = m[k]
  BY Agrees DEF Coming
<1>7. n <= a - Len(x)
  OBVIOUS
<1> HIDE DEF b, x, s1, a, m, Q
<1>8. x \o s1 \in S /\ Len(x \o s1) = Len(x) + n
  BY <1>1, <1>2, ConcatFacts
<1>9. bytes \in S /\ Len(bytes) = Len(x) + n /\ Len(bytes) <= a /\ Len(bytes) \in Nat
  <2>1. bytes \in S /\ Len(bytes) = Len(x) + n
    BY <1>3, <1>8, Zenon
  <2> HIDE DEF S
  <2> QED
    BY <1>1, <1>4, <1>7, <2>1
<1>10. /\ b \o bytes \in S /\ Len(b \o bytes) = Len(b) + Len(bytes)
       /\ \A k \in 1..Len(bytes) : (b \o bytes)[Len(b) + k] = bytes[k]
  <2>1. b \in Seq(StreamBytes) /\ bytes \in Seq(StreamBytes)
    BY <1>1, <1>9
  <2> QED
    BY <2>1, ConcatFacts
<1>11. Q = (b \o bytes) \o left
  <2>r. Regroups(S)
    BY Regrouped
  <2>c. b \o x \in S
    <3>1. b \in Seq(StreamBytes) /\ x \in Seq(StreamBytes)
      BY <1>1
    <3> QED
      BY <3>1, ConcatFacts
  <2> HIDE DEF S
  <2>1. Regroups(S) /\ b \o x \in S /\ b \in S /\ x \in S /\ s1 \in S /\ left \in S
    BY <1>1, <1>2, <2>r, <2>c DEF S
  <2>2. (b \o x) \o (s1 \o left) = ((b \o x) \o s1) \o left
    BY <2>1, Zenon DEF Regroups
  <2>3. (b \o x) \o s1 = b \o (x \o s1)
    BY <2>1, Zenon DEF Regroups
  <2> QED
    BY <1>2, <1>3, <1>5, <2>2, <2>3, Zenon
<1>12. ASSUME NEW k \in 1..Len(bytes) PROVE bytes[k] = m[Len(b) + k]
  <2> DEFINE d == b \o bytes
             j == Len(b) + k
  <2>1. d \in S /\ left \in S /\ Len(d) = Len(b) + Len(bytes) /\ d[j] = bytes[k] /\ Q = d \o left
    BY <1>2, <1>10, <1>11, Zenon
  <2>2. j \in 1 .. Len(b) + Len(bytes) /\ j \in Nat
    BY <1>1, <1>9
  <2> HIDE DEF d, j
  <2>3. Len(d \o left) = Len(d) + Len(left) /\ Len(left) \in Nat /\ \A i \in 1..Len(d) : (d \o left)[i] = d[i]
    <3>1. d \in Seq(StreamBytes) /\ left \in Seq(StreamBytes)
      BY <2>1
    <3> QED
      BY <3>1, ConcatFacts
  <2>4. Q[j] = d[j] /\ j \in 1..Len(Q)
    <3>1. j \in 1..Len(d) /\ Len(d) \in Nat /\ Len(Q) = Len(d) + Len(left)
      BY <1>1, <1>9, <2>1, <2>2, <2>3
    <3>2. (d \o left)[j] = d[j]
      BY <2>3, <3>1
    <3>3. j \in 1 .. Len(d) + Len(left)
      BY <2>3, <3>1
    <3> QED
      BY <2>1, <3>1, <3>2, <3>3
  <2>5. j <= Len(m)
    BY <1>1, <1>4, <1>9, <2>2
  <2> QED
    BY <1>6, <2>1, <2>4, <2>5 DEF j
<1> QED
  BY <1>2, <1>9, <1>10, <1>11, <1>12 DEF S, b, x, s1, a, m, Q, ReadAsSent

\* read_message goes on in the same message.
LEMMA GoesOn ==
  ASSUME FramesInv, sender # "failed", NEW rest, NEW cut, StreamIs(rest, cut), NEW l, Current(l, cut),
         UNCHANGED <<typed, sender, received, outcome>>,
         call' \in Calls, Len(call'.bytes) < Framed!Asked', stream' \in Seq(StreamBytes),
         call'.part # "length" => call'.msg_length = Len(l),
         Consumed(call') \o stream' = Consumed(call) \o stream
  PROVE  FramesInv'
<1>1. l \in Framed!Line
  BY DEF Current
<1>2. Framed!Network(Len(l)) \in Seq(StreamBytes) /\ Len(Framed!Network(Len(l))) = Word
  BY <1>1, MessageIs
<1>3. FramesTyped'
  <2>1. typed' \in Seq(Framed!Line) /\ received' \in Seq(Framed!Line) /\ sender' \in {"up", "ended", "failed"}
    BY DEF FramesInv, FramesTyped
  <2>2. call'.part # "length" => /\ Framed!Network(call'.msg_length) \in Seq(StreamBytes)
                                 /\ Len(Framed!Network(call'.msg_length)) = Word
    BY <1>2
  <2> QED
    BY <2>1, <2>2 DEF FramesTyped
<1>4. Current(l, cut)'
  BY DEF Current
<1>5. StreamIs(rest, cut)'
  <2>1. rest[Len(received') + 1] = Consumed(call') \o stream'
    BY DEF StreamIs
  <2>2. Chain(rest, typed', cut) /\ (sender' = "up" => cut = <<>>)
        /\ (cut # <<>> => \E q \in Framed!Line : PartOf(cut, q))
    BY Zenon DEF StreamIs
  <2>3. call'.part # "length" => \E q : Current(q, cut)' /\ call'.msg_length = Len(q)
    BY <1>4
  <2> QED
    BY <2>1, <2>2, <2>3, Zenon DEF StreamIs
<1> QED
  BY <1>3, <1>5 DEF FramesInv

\* A part that is whole is that part of the message.
LEMMA PartIs ==
  ASSUME NEW l \in Framed!Line, NEW bytes \in Seq(StreamBytes), NEW b \in Nat,
         \A k \in 1..Len(bytes) : bytes[k] = Framed!Message(l)[b + k]
  PROVE  /\ b = 0 /\ Len(bytes) = Word => bytes = Framed!Network(Len(l))
         /\ b = Word /\ Len(bytes) = Word => bytes = Framed!Host(1)
         /\ b = Word + Word /\ Len(bytes) = Len(l) => bytes = l
<1> USE FramesAssumption
<1> DEFINE net == Framed!Network(Len(l))
           host == Framed!Host(1)
           m == Framed!Message(l)
           n == Len(l)
<1>1. /\ net \in Seq(StreamBytes) /\ Len(net) = Word /\ n \in Nat
      /\ \A k \in 1..Word : m[k] = net[k]
      /\ \A k \in 1..Word : m[Word + k] = host[k]
      /\ \A k \in 1..n : m[Word + Word + k] = l[k]
  BY MessageIs
<1>2. host \in Seq(StreamBytes) /\ Len(host) = Word /\ l \in Seq(StreamBytes) /\ Len(l) = n
  BY HostIsWord, LineIs
<1>3. \A k \in 1..Len(bytes) : bytes[k] = m[b + k]
  OBVIOUS
<1> HIDE DEF net, host, m, n
<1>4. ASSUME b = 0, Len(bytes) = Word PROVE bytes = net
  <2>1. ASSUME NEW k \in 1..Word PROVE bytes[k] = net[k]
    <3>1. 0 + k = k
      OBVIOUS
    <3> QED
      BY <1>1, <1>3, <1>4, <3>1
  <2> QED
    BY <1>1, <1>4, <2>1, SeqEqual
<1>5. ASSUME b = Word, Len(bytes) = Word PROVE bytes = host
  <2>1. ASSUME NEW k \in 1..Word PROVE bytes[k] = host[k]
    BY <1>1, <1>3, <1>5
  <2> QED
    BY <1>2, <1>5, <2>1, SeqEqual
<1>6. ASSUME b = Word + Word, Len(bytes) = n PROVE bytes = l
  <2>1. ASSUME NEW k \in 1..n PROVE bytes[k] = l[k]
    BY <1>1, <1>3, <1>6
  <2> QED
    BY <1>2, <1>6, <2>1, SeqEqual
<1> QED
  BY <1>4, <1>5, <1>6 DEF net, host, m, n

\* The whole message is there: the server returns it and stands before the next one.
Returns(l, left) ==
  /\ Consumed(call) \o stream = Framed!Message(l) \o left
  /\ stream' = left /\ received' = Append(received, l) /\ call' = Framed!Reading("length", 0)
  /\ UNCHANGED <<typed, sender, outcome>>

LEMMA Received ==
  ASSUME FramesInv, sender # "failed", outcome = "running", NEW rest, NEW cut, StreamIs(rest, cut),
         NEW l, Current(l, cut), NEW left \in Seq(StreamBytes), Returns(l, left)
  PROVE  FramesInv'
<1> USE FramesAssumption
<1> DEFINE i == Len(received)
           n == Len(typed)
           Q == Coming
           m == Framed!Message(l)
           r == rest[i + 2]
<1>1. /\ l \in Framed!Line /\ m \in Seq(StreamBytes) /\ i \in Nat /\ n \in Nat /\ i <= n
      /\ received \in Seq(Framed!Line) /\ typed \in Seq(Framed!Line)
  <2>1. l \in Framed!Line
    BY DEF Current
  <2>2. m \in Seq(StreamBytes)
    BY <2>1, MessageIs
  <2> QED
    BY <2>1, <2>2, FramesFacts
<1>2. Q = m \o left /\ m \in Seq(StreamBytes) /\ left \in Seq(StreamBytes)
  BY <1>1, Zenon DEF Returns, Coming
<1>3. /\ Len(Q) >= Len(m) => i < n
      /\ i < n => l = typed[i + 1] /\ i + 2 \in 1 .. n + 1 /\ Q = m \o r /\ r \in Seq(StreamBytes)
  BY Agrees
<1> HIDE DEF Q, r, m
<1>4. Len(Q) >= Len(m)
  <2>1. Len(m \o left) = Len(m) + Len(left) /\ Len(m) \in Nat /\ Len(left) \in Nat
    BY <1>2, ConcatFacts
  <2> QED
    BY <1>2, <2>1
<1>5. i < n /\ l = typed[i + 1] /\ i + 2 \in 1 .. n + 1 /\ Q = m \o r /\ r \in Seq(StreamBytes)
  BY <1>3, <1>4
<1>6. left = r
  BY <1>2, <1>5, ConcatSimplifications
<1>7. call' \in Calls /\ call'.part = "length" /\ Consumed(call') = <<>> /\ Len(call'.bytes) < Framed!Asked'
  <2>1. call' = [part |-> "length", bytes |-> <<>>, msg_length |-> 0]
    BY DEF Framed!Reading, Returns
  <2>2. <<>> \in Seq(StreamBytes) /\ Len(<<>>) = 0
    BY EmptySeq
  <2>3. <<>> \o <<>> = <<>>
    BY <2>2, ConcatEmptySeq
  <2>4. call'.part = "length" /\ call'.bytes = <<>> /\ call' \in Calls
    BY <2>1, <2>2 DEF Calls
  <2>5. Consumed(call') = <<>>
    BY <2>3, <2>4 DEF Consumed, Before
  <2>6. Framed!Asked' = Word
    BY <2>4 DEF Framed!Asked
  <2> QED
    BY <2>2, <2>4, <2>5, <2>6
<1>8. /\ received' \in Seq(Framed!Line) /\ Len(received') = i + 1
      /\ \A k \in 1 .. i + 1 : received'[k] = IF k = i + 1 THEN l ELSE received[k]
  <2> DEFINE longer == Append(received, l)
  <2>0. received' = longer
    BY DEF Returns
  <2>1. /\ longer \in Seq(Framed!Line) /\ Len(longer) = i + 1
        /\ \A k \in 1 .. i + 1 : longer[k] = IF k = i + 1 THEN l ELSE received[k]
    BY <1>1, AppendProperties
  <2> HIDE DEF longer
  <2> QED
    BY <2>0, <2>1
<1>u. stream' = left /\ typed' = typed /\ sender' = sender /\ outcome' = outcome
  BY DEF Returns
<1>9. FramesTyped'
  <2>1. typed' \in Seq(Framed!Line) /\ received' \in Seq(Framed!Line) /\ sender' \in {"up", "ended", "failed"}
    BY <1>1, <1>u, <1>8 DEF FramesInv, FramesTyped
  <2> QED
    BY <1>2, <1>7, <1>u, <2>1 DEF FramesTyped
<1>10. StreamIs(rest, cut)'
  <2>1. rest[Len(received') + 1] = Consumed(call') \o stream'
    <3>1. Len(received') + 1 = i + 2
      BY <1>1, <1>8
    <3>2. <<>> \o left = left
      BY <1>2, ConcatEmptySeq
    <3> QED
      BY <1>u, <1>6, <1>7, <3>1, <3>2 DEF r
  <2>2. Chain(rest, typed', cut) /\ (sender' = "up" => cut = <<>>)
        /\ (cut # <<>> => \E q \in Framed!Line : PartOf(cut, q))
    BY <1>u, Zenon DEF StreamIs
  <2> QED
    BY <1>7, <2>1, <2>2, Zenon DEF StreamIs
<1>11. Len(received') <= Len(typed') /\ \A k \in 1..Len(received') : received'[k] = typed'[k]
  <2>1. \A k \in 1..i : received[k] = typed[k]
    BY DEF FramesInv
  <2>2. ASSUME NEW k \in 1 .. i + 1 PROVE received'[k] = typed[k]
    <3>1. CASE k = i + 1
      BY <1>5, <1>8, <3>1
    <3>2. CASE k # i + 1
      <4>1. k \in 1..i
        BY <1>1, <3>2
      <4> QED
        BY <1>8, <2>1, <3>2, <4>1
    <3> QED
      BY <3>1, <3>2
  <2>3. typed' = typed /\ i + 1 <= n
    BY <1>1, <1>5, <1>u
  <2> QED
    BY <1>8, <2>2, <2>3
<1>12. sender' # "failed" /\ outcome' = "running"
  BY <1>u
<1> QED
  BY <1>9, <1>10, <1>11, <1>12 DEF FramesInv

LEMMA ReadKeeps ==
  ASSUME FramesInv, NEW n \in 1 .. Word + DataSize, Framed!Read(n)
  PROVE  FramesInv'
<1> USE FramesAssumption
<1> DEFINE bytes == call.bytes \o SubSeq(stream, 1, n)
           left == SubSeq(stream, n + 1, Len(stream))
           b == Before(call)
           Q == Consumed(call) \o stream
<1>1. /\ outcome = "running" /\ n <= Len(stream) /\ n <= Framed!Asked - Len(call.bytes)
      /\ stream' = left /\ typed' = typed /\ sender' = sender /\ n \in 1..Len(stream) /\ n \in Nat
  <2>1. Len(stream) \in Nat
    BY FramesFacts
  <2> QED
    BY <2>1 DEF Framed!Read
<1>2. /\ Framed!Whole(bytes) => Framed!Part(bytes)
      /\ ~Framed!Whole(bytes) => call' = [call EXCEPT !.bytes = bytes] /\ UNCHANGED <<received, outcome>>
  BY DEF Framed!Read
<1>3. stream # <<>> /\ sender # "failed"
  <2>1. stream # <<>>
    BY <1>1, EmptySeq
  <2> QED
    BY <2>1 DEF FramesInv
<1>4. PICK rest, cut : StreamIs(rest, cut)
  BY <1>3 DEF FramesInv
<1>5. PICK l : Current(l, cut) /\ (call.part # "length" => call.msg_length = Len(l))
  BY <1>3, <1>4, Begins
<1>6. Reads(n, bytes, left)
  BY DEF Reads
<1> HIDE DEF bytes, left, b, Q
<1>7. /\ bytes \in Seq(StreamBytes) /\ left \in Seq(StreamBytes) /\ Len(bytes) <= Framed!Asked
      /\ b \o bytes \in Seq(StreamBytes) /\ Q = (b \o bytes) \o left
      /\ Len(b \o bytes) = Len(b) + Len(bytes)
      /\ \A k \in 1..Len(bytes) : bytes[k] = Framed!Message(l)[Len(b) + k]
  <2>1. /\ StreamIs(rest, cut) /\ Current(l, cut) /\ n \in 1..Len(stream) /\ n <= Framed!Asked - Len(call.bytes)
        /\ Reads(n, bytes, left) /\ (call.part # "length" => call.msg_length = Len(l))
    BY <1>1, <1>4, <1>5, <1>6
  <2>2. PICK x, y : Reads(n, x, y) /\ x = bytes /\ y = left
    BY <2>1
  <2>3. ReadAsSent(l, x, y)
    BY <2>1, <2>2, ReadGives
  <2> QED
    <3>1. ReadAsSent(l, bytes, left)
      BY <2>2, <2>3
    <3> QED
      BY <3>1 DEF ReadAsSent, b, Q
<1>8. l \in Framed!Line /\ Len(l) \in 1 .. DataSize - 1 /\ Len(bytes) \in Nat /\ Framed!Asked \in Nat
  BY <1>5, <1>7, InMessage, LenProperties DEF Current
<1>9. /\ call \in Calls /\ call.part \in {"length", "type", "body"} /\ Len(b) \in Nat
      /\ Len(b) = CASE call.part = "length" -> 0
                    [] call.part = "type"   -> Word
                    [] call.part = "body"   -> Word + Word
  BY FramesFacts, LenProperties DEF b
<1>10. Framed!Asked = IF call.part = "body" THEN Len(l) ELSE Word
  BY <1>5 DEF Framed!Asked
<1>11. /\ Len(b) = 0 /\ Len(bytes) = Word => bytes = Framed!Network(Len(l))
       /\ Len(b) = Word /\ Len(bytes) = Word => bytes = Framed!Host(1)
       /\ Len(b) = Word + Word /\ Len(bytes) = Len(l) => bytes = l
  BY <1>7, <1>8, <1>9, PartIs
<1>12. CASE ~Framed!Whole(bytes)
  <2>1. call' = [call EXCEPT !.bytes = bytes] /\ UNCHANGED <<received, outcome>>
    BY <1>2, <1>12
  <2>2. call' \in Calls /\ call'.bytes = bytes /\ call'.part = call.part /\ call'.msg_length = call.msg_length
    BY <1>7, <1>9, <2>1 DEF Calls
  <2>3. Len(bytes) < Framed!Asked
    BY <1>7, <1>8, <1>12 DEF Framed!Whole
  <2>4. Framed!Asked' = Framed!Asked
    BY <2>2 DEF Framed!Asked
  <2>5. Consumed(call') = b \o bytes
    BY <2>2 DEF Consumed, Before, b
  <2>6. Consumed(call') \o stream' = Consumed(call) \o stream
    BY <1>1, <1>7, <2>5, Zenon DEF Q
  <2>7. stream' \in Seq(StreamBytes) /\ Len(call'.bytes) < Framed!Asked'
    BY <1>1, <1>7, <2>2, <2>3, <2>4
  <2> QED
    BY <1>1, <1>3, <1>4, <1>5, <2>1, <2>2, <2>6, <2>7, GoesOn
<1>13. ASSUME Framed!Whole(bytes), NEW p \in {"type", "body"}, call' = Framed!Reading(p, Len(l)),
              UNCHANGED <<received, outcome>>, Before([part |-> p, msg_length |-> Len(l)]) = b \o bytes
       PROVE  FramesInv'
  <2>1. call' = [part |-> p, bytes |-> <<>>, msg_length |-> Len(l)] /\ <<>> \in Seq(StreamBytes) /\ Len(<<>>) = 0
    BY <1>13, EmptySeq DEF Framed!Reading
  <2>2. call' \in Calls /\ call'.bytes = <<>> /\ call'.part = p /\ call'.msg_length = Len(l)
    BY <1>8, <2>1 DEF Calls
  <2>3. Before(call') = b \o bytes
    BY <1>13, <2>2 DEF Before
  <2>4. (b \o bytes) \o <<>> = b \o bytes
    <3> DEFINE d == b \o bytes
    <3>1. d \in Seq(StreamBytes)
      BY <1>7
    <3> HIDE DEF d
    <3>2. d \o <<>> = d
      BY <3>1, ConcatEmptySeq
    <3> QED
      BY <3>2 DEF d
  <2>5. Consumed(call') = b \o bytes
    BY <2>2, <2>3, <2>4, Zenon DEF Consumed
  <2>6. Consumed(call') \o stream' = Consumed(call) \o stream
    BY <1>1, <1>7, <2>5, Zenon DEF Q
  <2>7. Framed!Asked' = IF p = "body" THEN Len(l) ELSE Word
    BY <2>2 DEF Framed!Asked
  <2>8. stream' \in Seq(StreamBytes) /\ Len(call'.bytes) < Framed!Asked'
    BY <1>1, <1>7, <1>8, <2>1, <2>2, <2>7
  <2> QED
    BY <1>1, <1>3, <1>4, <1>5, <1>13, <2>2, <2>6, <2>8, GoesOn
<1>14. CASE Framed!Whole(bytes) /\ call.part = "length"
  <2>1. bytes = Framed!Network(Len(l))
    BY <1>9, <1>10, <1>11, <1>14 DEF Framed!Whole
  <2>2. Framed!ntohl(bytes) = Len(l)
    BY <1>8, <2>1, MessageIs
  <2>3. call' = Framed!Reading("type", Len(l)) /\ UNCHANGED <<received, outcome>>
    BY <1>2, <1>14, <2>2 DEF Framed!Part
  <2>4. Before([part |-> "type", msg_length |-> Len(l)]) = b \o bytes
    <3>1. b = <<>> /\ <<>> \o bytes = bytes
      BY <1>7, <1>14, ConcatEmptySeq DEF b, Before
    <3> QED
      BY <2>1, <3>1 DEF Before
  <2> QED
    BY <1>13, <1>14, <2>3, <2>4
<1>15. CASE Framed!Whole(bytes) /\ call.part = "type"
  <2>1. bytes = Framed!Host(1)
    BY <1>9, <1>10, <1>11, <1>15 DEF Framed!Whole
  <2>2. call.msg_length = Len(l) /\ call.msg_length <= DataSize
    BY <1>5, <1>8, <1>15
  <2>3. call' = Framed!Reading("body", Len(l)) /\ UNCHANGED <<received, outcome>>
    BY <1>2, <1>8, <1>15, <2>2 DEF Framed!Part
  <2>4. Before([part |-> "body", msg_length |-> Len(l)]) = b \o bytes
    BY <1>15, <2>1, <2>2 DEF b, Before
  <2> QED
    BY <1>13, <1>15, <2>3, <2>4
<1>16. CASE Framed!Whole(bytes) /\ call.part = "body"
  <2>1. bytes = l
    BY <1>9, <1>10, <1>11, <1>16 DEF Framed!Whole
  <2>2. received' = Append(received, l) /\ call' = Framed!Reading("length", 0) /\ outcome' = outcome
    BY <1>2, <1>16, <2>1 DEF Framed!Part
  <2>3. b \o l = Framed!Message(l)
    BY <1>5, <1>16 DEF b, Before, Framed!Message
  <2>4. Consumed(call) \o stream = Framed!Message(l) \o left
    BY <1>7, <2>1, <2>3, Zenon DEF Q
  <2>5. Returns(l, left)
    BY <1>1, <2>2, <2>4, Zenon DEF Returns
  <2> QED
    BY <1>1, <1>3, <1>4, <1>5, <1>7, <2>5, Received
<1> QED
  BY <1>9, <1>12, <1>14, <1>15, <1>16

LEMMA FramesStep == FramesAssumption /\ FramesInv /\ Framed!Next => FramesInv'
<1> SUFFICES ASSUME FramesInv, Framed!Next PROVE FramesInv'
  OBVIOUS
<1>1. ASSUME NEW l \in Framed!Line, Framed!Send(l) PROVE FramesInv'
  <2>1. Framed!Message(l) \in Seq(StreamBytes)
    BY MessageIs
  <2>2. /\ sender = "up" /\ typed' = Append(typed, l) /\ stream' = stream \o Framed!Message(l)
        /\ UNCHANGED <<sender, call, received, outcome>>
    BY <1>1 DEF Framed!Send
  <2>3. PICK x : x = Framed!Message(l)
    OBVIOUS
  <2> QED
    BY <2>1, <2>2, <2>3, ClientSends
<1>2. ASSUME NEW l \in Framed!Line, NEW n \in 0 .. 2 * Word + DataSize, Framed!Killed(l, n) PROVE FramesInv'
  <2> DEFINE m == Framed!Message(l)
             x == SubSeq(m, 1, n)
  <2>1. m \in Seq(StreamBytes) /\ Len(m) \in Nat
    BY MessageIs, LenProperties
  <2>2. /\ sender = "up" /\ n < Len(m) /\ stream' = stream \o x /\ sender' = "ended"
        /\ UNCHANGED <<typed, call, received, outcome>>
    BY <1>2 DEF Framed!Killed
  <2>3. n \in 0..Len(m)
    BY <2>1, <2>2, FramesAssumption
  <2>4. x \in Seq(StreamBytes) /\ Len(x) = n /\ \A k \in 1..n : x[k] = m[k]
    <3> HIDE DEF m
    <3> QED BY <2>1, <2>3, PrefixIs
  <2>5. PartOf(x, l)
    <3> HIDE DEF x
    <3> QED BY <2>2, <2>4 DEF PartOf, m
  <2>6. PICK y : y = x
    OBVIOUS
  <2> HIDE DEF x, m
  <2> QED
    BY <2>2, <2>4, <2>5, <2>6, ClientSends
<1>3. CASE Framed!EndOfInput
  <2>1. /\ sender = "up" /\ sender' = "ended" /\ UNCHANGED <<typed, stream, call, received, outcome>>
    BY <1>3 DEF Framed!EndOfInput
  <2>2. FramesTyped' /\ Len(received') <= Len(typed') /\ \A k \in 1..Len(received') : received'[k] = typed'[k]
    BY <2>1 DEF FramesInv, FramesTyped, Framed!Asked
  <2>3. PICK rest, cut : StreamIs(rest, cut)
    BY <2>1 DEF FramesInv
  <2>4. StreamIs(rest, cut)'
    BY <2>1, <2>3 DEF StreamIs, Current
  <2>5. outcome' # "clientClosed" /\ outcome' # "readError"
    BY <2>1 DEF FramesInv
  <2> QED
    BY <2>1, <2>2, <2>4, <2>5 DEF FramesInv
<1>4. CASE Framed!Breaks
  <2>1. /\ sender' = "failed" /\ stream' = <<>> /\ UNCHANGED <<typed, call, received, outcome>>
    BY <1>4 DEF Framed!Breaks
  <2>2. FramesTyped' /\ Len(received') <= Len(typed') /\ \A k \in 1..Len(received') : received'[k] = typed'[k]
    BY <2>1, EmptySeq DEF FramesInv, FramesTyped, Framed!Asked
  <2> QED
    BY <2>1, <2>2 DEF FramesInv
<1>5. CASE Framed!Ended
  <2>1. /\ outcome = "running" /\ stream = <<>> /\ sender # "up" /\ UNCHANGED <<typed, stream, sender, call, received>>
        /\ outcome' = IF sender = "ended" THEN "clientClosed" ELSE "readError"
    BY <1>5 DEF Framed!Ended
  <2>2. FramesTyped' /\ Len(received') <= Len(typed') /\ \A k \in 1..Len(received') : received'[k] = typed'[k]
    BY <2>1 DEF FramesInv, FramesTyped, Framed!Asked
  <2>3. sender' # "failed" => \E rest, cut : StreamIs(rest, cut)'
    <3> SUFFICES ASSUME sender # "failed" PROVE \E rest, cut : StreamIs(rest, cut)'
      BY <2>1
    <3>1. PICK rest, cut : StreamIs(rest, cut)
      BY DEF FramesInv
    <3>2. StreamIs(rest, cut)'
      BY <2>1, <3>1 DEF StreamIs, Current
    <3> QED
      BY <3>2
  <2>4. sender = "ended" => Len(received) = Len(typed)
    <3> SUFFICES ASSUME sender = "ended", Len(received) < Len(typed) PROVE FALSE
      BY FramesFacts
    <3>1. PICK rest, cut : StreamIs(rest, cut)
      BY DEF FramesInv
    <3> DEFINE i == Len(received) + 1
               l == typed[i]
               m == Framed!Message(l)
               r == rest[i + 1]
               c == Consumed(call)
    <3>2. i \in 1..Len(typed) /\ i + 1 \in 1 .. Len(typed) + 1 /\ l \in Framed!Line
      BY FramesFacts
    <3>3. Current(l, cut)
      BY <3>2 DEF Current
    <3>4. call.part # "length" => call.msg_length = Len(l)
      BY <3>1, <3>3 DEF StreamIs, Current
    <3>5. Len(c) < Len(m)
      <4> HIDE DEF l
      <4> QED BY <3>2, <3>4, InMessage
    <3>6. c \o <<>> = m \o r /\ r \in Seq(StreamBytes) /\ m \in Seq(StreamBytes) /\ c \in Seq(StreamBytes)
      <4>1. rest[i] = c \o <<>>
        BY <2>1, <3>1 DEF StreamIs
      <4>2. rest[i] = m \o r /\ r \in Seq(StreamBytes)
        BY <3>1, <3>2 DEF StreamIs, Chain
      <4>3. m \in Seq(StreamBytes)
        <5> HIDE DEF l
        <5> QED BY <3>2, MessageIs
      <4> QED
        BY <4>1, <4>2, <4>3, FramesFacts
    <3> HIDE DEF c, m, r
    <3>7. c \o <<>> = c /\ Len(m \o r) = Len(m) + Len(r) /\ Len(m) \in Nat /\ Len(r) \in Nat
      BY <3>6, ConcatEmptySeq, ConcatFacts
    <3>8. Len(c) = Len(m) + Len(r)
      BY <3>6, <3>7
    <3> QED
      BY <3>5, <3>7, <3>8
  <2>5. outcome' = "clientClosed" => Len(received') = Len(typed') /\ sender' # "up"
    BY <2>1, <2>4
  <2>6. outcome' = "readError" => sender' = "failed"
    <3>1. sender \in {"up", "ended", "failed"}
      BY DEF FramesInv, FramesTyped
    <3> QED BY <2>1, <3>1
  <2> QED
    BY <2>1, <2>2, <2>3, <2>5, <2>6 DEF FramesInv
<1> QED
  BY <1>1, <1>2, <1>3, <1>4, <1>5, ReadKeeps DEF Framed!Next
-----------------------------------------------------------------------------
(* The array of the poll dispatcher.                                       *)
Slots == Poller!Slots
Items == [fd : Nat \cup {-1}, revents : BOOLEAN]

\* Each descriptor of S is polled through one slot, and no other descriptor is.
OneSlot(set, S) ==
  /\ \A s \in Slots : set[s].fd = -1 \/ set[s].fd \in S
  /\ \A s, t \in Slots : set[s].fd # -1 /\ set[s].fd = set[t].fd => s = t
  /\ \A fd \in S : \E s \in Slots : set[s].fd = fd

\* The slots that the walk has before it from slot k on.
AheadOf(set, k) == {s \in Slots : s >= k /\ set[s].fd >= 0 /\ set[s].revents}

\* What poll reported is activated already or before the walk, and never both.
Served(reported, done, set, k) ==
  /\ done \in Seq(Nat) /\ Poller!IsInjective(done)
  /\ reported = Poller!ToSet(done) \cup {set[s].fd : s \in AheadOf(set, k)}
  /\ \A s \in AheadOf(set, k) : set[s].fd \notin Poller!ToSet(done)

\* A slot emptied under the walk keeps what poll found there, and lies behind it.
EmptiedBehind(set, k) == \A s \in Slots : set[s].fd = -1 /\ set[s].revents => s < k

PollInv ==
  /\ event_set \in [Slots -> Items] /\ walked \in Nat /\ lastFd \in Nat /\ lastFd >= 2
  /\ entries \subseteq 1..lastFd /\ turnedAway \subseteq entries
  /\ nentries \in Nat /\ nentries >= 1 /\ \A fd \in entries : fd < nentries
  /\ OneSlot(event_set, entries \ turnedAway)
  /\ EmptiedBehind(event_set, walked)
  /\ ready_number = Cardinality(AheadOf(event_set, walked))
  /\ Served(polled, activated, event_set, walked)

LEMMA PollMinIs ==
  ASSUME NEW S \in SUBSET Nat, S # {}
  PROVE  Poller!Min(S) \in S /\ \A x \in S : Poller!Min(S) <= x
<1>1. \E x \in S : \A y \in S : x <= y
  BY LeastNumber
<1> QED
  BY <1>1 DEF Poller!Min

LEMMA SameCardinality == ASSUME NEW S PROVE Poller!Cardinality(S) = Cardinality(S)
BY DEF Poller!Cardinality, Cardinality

\* map_make_space ends with room for the descriptor, and never with less room.
LEMMA RoomIs ==
  ASSUME NEW n \in Nat, n >= 1, NEW fd \in Nat
  PROVE  LET r == Poller!Room(n, fd) IN r \in Nat /\ r > fd /\ r >= n
<1> DEFINE top == fd + 1
           step == [p \in Nat \X (1..top) |-> 2 * p[1]]
           Body(w) == [k \in 0..top |-> IF k = 0 THEN n ELSE 2 * w[k - 1]]
           w == CHOOSE u : u = Body(u)
           M == {m \in {w[k] : k \in 0..top} : m > fd}
<1>1. PICK v \in [0..top -> Nat] : IsWalk(v, n, top, step)
  <2>1. step \in [Nat \X (1..top) -> Nat] /\ top \in Nat
    OBVIOUS
  <2> HIDE DEF step
  <2> QED BY <2>1, WalkExists
<1>2. ASSUME NEW k \in 1..top PROVE v[k] = 2 * v[k - 1]
  <2>1. <<v[k - 1], k>> \in Nat \X (1..top)
    BY <1>1
  <2>2. step[<<v[k - 1], k>>] = 2 * v[k - 1]
    BY <2>1
  <2> QED
    BY <1>1, <2>2 DEF IsWalk
<1>3. v = Body(v)
  BY <1>1, <1>2 DEF IsWalk
<1>4. w = Body(w)
  <2> HIDE DEF Body
  <2> QED BY <1>3
<1>5. Poller!Room(n, fd) = Poller!Min(M)
  BY DEF Poller!Room
<1> HIDE DEF w
<1>6. w[0] = n /\ \A k \in 1..top : w[k] = 2 * w[k - 1]
  BY <1>4
<1> DEFINE G == {k \in Nat : k <= top => w[k] \in Nat /\ w[k] >= n /\ w[k] >= k + 1}
<1>7. 0 \in G
  BY <1>6
<1>8. ASSUME NEW k \in Nat, k \in G PROVE k + 1 \in G
  <2> SUFFICES ASSUME k + 1 <= top PROVE w[k + 1] \in Nat /\ w[k + 1] >= n /\ w[k + 1] >= k + 1 + 1
    OBVIOUS
  <2>1. w[k] \in Nat /\ w[k] >= n /\ w[k] >= k + 1 /\ k + 1 \in 1..top /\ k + 1 - 1 = k
    BY <1>8
  <2>2. w[k + 1] = 2 * w[k]
    BY <1>6, <2>1
  <2> QED
    BY <2>1, <2>2
<1>9. Nat \subseteq G
  <2> HIDE DEF G
  <2> QED BY <1>7, <1>8, Induction
<1>10. \A k \in 0..top : w[k] \in Nat /\ w[k] >= n
  BY <1>9
<1>11. w[top] \in Nat /\ w[top] >= top + 1
  BY <1>9
<1>12. M \in SUBSET Nat /\ M # {}
  <2>1. w[top] \in M
    BY <1>11
  <2> QED
    BY <1>10, <2>1
<1>13. Poller!Min(M) \in M
  <2> HIDE DEF M
  <2> QED BY <1>12, PollMinIs
<1> QED
  BY <1>5, <1>10, <1>13

LEMMA SlotsAre == Slots \in SUBSET Nat /\ IsFiniteSet(Slots) /\ Slots = 0 .. INIT_POLL_SIZE - 1
<1>1. Slots = 0 .. INIT_POLL_SIZE - 1
  BY DEF Slots, Poller!Slots
<1>2. IsFiniteSet(0 .. INIT_POLL_SIZE - 1)
  BY PollerAssumption, FS_Interval
<1> QED
  BY <1>1, <1>2

LEMMA AheadIs == Poller!Ahead = AheadOf(event_set, walked)
BY DEF Poller!Ahead, AheadOf, Slots

LEMMA PollInvImplies == PollInv => Poller!ReadyServedOnce
<1> SUFFICES ASSUME PollInv PROVE Poller!ReadyServedOnce
  OBVIOUS
<1> DEFINE A == AheadOf(event_set, walked)
<1>1. A \subseteq Slots /\ IsFiniteSet(A)
  <2>1. A \subseteq Slots
    BY DEF AheadOf
  <2> QED
    BY <2>1, SlotsAre, FS_Subset
<1>2. Poller!Sleeping => A = {}
  <2>1. ready_number = Cardinality(A)
    BY DEF PollInv
  <2>2. ready_number = 0 => A = {}
    BY <1>1, <2>1, FS_EmptySet
  <2> QED
    BY <2>2, AheadIs DEF Poller!Sleeping
<1>3. /\ Poller!IsInjective(activated)
      /\ polled = Poller!ToSet(activated) \cup {event_set[s].fd : s \in A}
  BY DEF PollInv, Served
<1>4. Poller!ToSet(activated) \subseteq polled /\ (A = {} => Poller!ToSet(activated) = polled)
  <2> HIDE DEF A
  <2> QED BY <1>3
<1>5. ASSUME NEW fd \in 0..LastFd, fd \in entries \ turnedAway
      PROVE  Poller!Cardinality(Poller!SlotsOf(event_set, fd)) = 1
  <2>1. PICK s \in Slots : event_set[s].fd = fd
    BY <1>5 DEF PollInv, OneSlot
  <2>2. fd # -1
    BY <1>5, PollerAssumption
  <2>3. Poller!SlotsOf(event_set, fd) = {s}
    BY <2>1, <2>2 DEF PollInv, OneSlot, Poller!SlotsOf, Slots
  <2> QED
    BY <2>3, SameCardinality, FS_Singleton
<1>6. ASSUME NEW fd \in 0..LastFd, fd \notin entries \ turnedAway
      PROVE  Poller!Cardinality(Poller!SlotsOf(event_set, fd)) = 0
  <2>1. fd # -1
    BY PollerAssumption
  <2>2. Poller!SlotsOf(event_set, fd) = {}
    BY <1>6, <2>1 DEF PollInv, OneSlot, Poller!SlotsOf, Slots
  <2> QED
    BY <2>2, SameCardinality, FS_EmptySet
<1>7. \A fd \in entries : fd < nentries
  BY DEF PollInv
<1> QED
  BY <1>2, <1>3, <1>4, <1>5, <1>6, <1>7 DEF Poller!ReadyServedOnce

LEMMA AheadFinite ==
  ASSUME NEW set, NEW k
  PROVE  AheadOf(set, k) \subseteq Slots /\ IsFiniteSet(AheadOf(set, k)) /\ Cardinality(AheadOf(set, k)) \in Nat
<1>1. AheadOf(set, k) \subseteq Slots
  BY DEF AheadOf
<1> QED
  BY <1>1, SlotsAre, FS_Subset, FS_CardinalityType

LEMMA PollInitHolds == PollerAssumption /\ Poller!Init => PollInv
<1> SUFFICES ASSUME PollerAssumption, Poller!Init PROVE PollInv
  OBVIOUS
<1>1. /\ event_set = [s \in Slots |-> IF s = 0 THEN [fd |-> 1, revents |-> FALSE]
                                      ELSE IF s = 1 THEN [fd |-> 2, revents |-> FALSE]
                                      ELSE [fd |-> -1, revents |-> FALSE]]
      /\ walked = 0 /\ ready_number = 0 /\ entries = {1, 2} /\ lastFd = 2
      /\ nentries = Poller!Room(Poller!Room(INIT_MAP_SIZE, 1), 2)
      /\ polled = {} /\ activated = <<>> /\ turnedAway = {}
  BY DEF Poller!Init, Poller!Unreported, Poller!pair, Poller!listen_fd, Slots
<1>2. 0 \in Slots /\ 1 \in Slots /\ Slots \in SUBSET Nat
  BY SlotsAre, PollerAssumption
<1>3. /\ event_set \in [Slots -> Items] /\ \A s \in Slots : event_set[s].revents = FALSE
      /\ event_set[0].fd = 1 /\ event_set[1].fd = 2
      /\ \A s \in Slots : s \notin {0, 1} => event_set[s].fd = -1
  BY <1>1, <1>2 DEF Items
<1>4. OneSlot(event_set, entries \ turnedAway)
  BY <1>1, <1>2, <1>3 DEF OneSlot
<1>5. nentries \in Nat /\ nentries > 2
  <2> DEFINE r == Poller!Room(INIT_MAP_SIZE, 1)
  <2>1. r \in Nat /\ r >= 1
    BY PollerAssumption, RoomIs
  <2> HIDE DEF r
  <2>2. nentries = Poller!Room(r, 2)
    BY <1>1 DEF r
  <2> QED
    BY <2>1, <2>2, RoomIs
<1>6. AheadOf(event_set, walked) = {}
  BY <1>3 DEF AheadOf
<1>7. Served(polled, activated, event_set, walked)
  BY <1>1, <1>6, EmptySeq DEF Served, Poller!ToSet, Poller!IsInjective
<1>8. EmptiedBehind(event_set, walked)
  BY <1>3 DEF EmptiedBehind
<1>9. ready_number = Cardinality(AheadOf(event_set, walked))
  BY <1>1, <1>6, FS_EmptySet
<1>10. /\ walked \in Nat /\ lastFd \in Nat /\ lastFd >= 2 /\ entries \subseteq 1..lastFd /\ turnedAway \subseteq entries
       /\ nentries \in Nat /\ nentries >= 1 /\ \A fd \in entries : fd < nentries
  BY <1>1, <1>5
<1> QED
  BY <1>3, <1>4, <1>7, <1>8, <1>9, <1>10 DEF PollInv

\* channel_event_activate of the next channel that poll reported.
LEMMA ActivateKeeps ==
  ASSUME PollInv, NEW fd, Poller!Activate(fd)
  PROVE  /\ fd \in entries \ turnedAway /\ walked' \in Nat /\ polled' = polled
         /\ \E s \in Slots : event_set[s].fd = fd /\ s < walked'
         /\ EmptiedBehind(event_set, walked')
         /\ ready_number' = Cardinality(AheadOf(event_set, walked'))
         /\ Served(polled', activated', event_set, walked')
<1> DEFINE A == AheadOf(event_set, walked)
           s == Poller!Min(A)
           B == AheadOf(event_set, walked')
<1>1. A # {} /\ fd = event_set[s].fd /\ walked' = s + 1 /\ ready_number' = ready_number - 1 /\ polled' = polled
      /\ activated' = IF fd < nentries /\ fd \in entries THEN Append(activated, fd) ELSE activated
  BY AheadIs DEF Poller!Activate, Poller!Sleeping
<1>2. A \in SUBSET Nat /\ A \subseteq Slots /\ IsFiniteSet(A)
  BY AheadFinite, SlotsAre
<1>3. s \in A /\ \A x \in A : s <= x
  <2> HIDE DEF A
  <2> QED BY <1>1, <1>2, PollMinIs
<1> HIDE DEF s
<1>4. s \in Slots /\ s \in Nat /\ s >= walked /\ fd >= 0 /\ fd # -1 /\ walked \in Nat /\ fd \in Nat
  <2>1. s \in Slots /\ s >= walked /\ event_set[s].fd >= 0 /\ walked \in Nat
    BY <1>3 DEF AheadOf, PollInv
  <2>2. event_set[s].fd \in Nat \cup {-1}
    BY <2>1 DEF PollInv, Items
  <2> QED
    BY <1>1, <2>1, <2>2, SlotsAre
<1>5. fd \in entries \ turnedAway /\ fd < nentries
  BY <1>1, <1>4 DEF PollInv, OneSlot
<1>6. B = A \ {s}
  <2>1. ASSUME NEW x \in B PROVE x \in A \ {s}
    <3>1. x \in Slots /\ x \in Nat /\ x >= s + 1 /\ event_set[x].fd >= 0 /\ event_set[x].revents
      BY <1>1, SlotsAre DEF AheadOf
    <3>2. x >= walked /\ x # s
      BY <1>4, <3>1
    <3> QED
      BY <3>1, <3>2 DEF AheadOf
  <2>2. ASSUME NEW x \in A, x # s PROVE x \in B
    <3>1. x \in Slots /\ x \in Nat /\ s <= x /\ event_set[x].fd >= 0 /\ event_set[x].revents
      BY <1>3, SlotsAre DEF AheadOf
    <3>2. x >= walked'
      BY <1>1, <1>4, <2>2, <3>1
    <3> QED
      BY <3>1, <3>2 DEF AheadOf
  <2> HIDE DEF A, B
  <2> QED
    BY <2>1, <2>2
<1>7. ready_number' = Cardinality(B)
  <2>1. ready_number = Cardinality(A)
    BY DEF PollInv
  <2> HIDE DEF A, B
  <2>2. Cardinality(A \ {s}) = Cardinality(A) - 1
    BY <1>2, <1>3, FS_RemoveElement
  <2> QED
    BY <1>1, <1>6, <2>1, <2>2
<1>8. Served(polled', activated', event_set, walked')
  <2> DEFINE done == activated
             S == Poller!ToSet(activated)
             more == Append(activated, fd)
  <2>1. /\ done \in Seq(Nat) /\ Poller!IsInjective(done)
        /\ polled = S \cup {event_set[x].fd : x \in A}
        /\ \A x \in A : event_set[x].fd \notin S
    BY DEF PollInv, Served
  <2>2. activated' = more
    BY <1>1, <1>5
  <2>3. /\ more \in Seq(Nat) /\ Len(more) = Len(done) + 1 /\ Len(done) \in Nat
        /\ more[Len(done) + 1] = fd /\ \A k \in 1..Len(done) : more[k] = done[k]
    BY <1>4, <2>1, AppendProperties, LenProperties
  <2>4. fd \notin S /\ S = {done[k] : k \in 1..Len(done)}
    <3>1. S = {done[k] : k \in DOMAIN done} /\ DOMAIN done = 1..Len(done)
      BY <2>1, LenProperties DEF Poller!ToSet
    <3> QED
      BY <1>1, <1>3, <2>1, <3>1
  <2> HIDE DEF more
  <2>5. DOMAIN more = 1 .. Len(done) + 1 /\ DOMAIN done = 1..Len(done)
    BY <2>1, <2>3, LenProperties
  <2>6. Poller!ToSet(more) = S \cup {fd}
    <3>1. Poller!ToSet(more) = {more[k] : k \in 1 .. Len(done) + 1}
      BY <2>5 DEF Poller!ToSet
    <3>2. 1 .. Len(done) + 1 = (1..Len(done)) \cup {Len(done) + 1}
      BY <2>3
    <3> HIDE DEF S
    <3> QED
      BY <2>3, <2>4, <3>1, <3>2
  <2>7. Poller!IsInjective(more)
    <3> SUFFICES ASSUME NEW a \in 1 .. Len(done) + 1, NEW b \in 1 .. Len(done) + 1, more[a] = more[b] PROVE a = b
      BY <2>5 DEF Poller!IsInjective
    <3>1. CASE a \in 1..Len(done) /\ b \in 1..Len(done)
      <4>1. done[a] = done[b]
        BY <2>3, <3>1
      <4> QED
        BY <2>1, <2>5, <3>1, <4>1 DEF Poller!IsInjective
    <3>2. CASE a = Len(done) + 1 /\ b = Len(done) + 1
      BY <3>2
    <3>3. CASE a = Len(done) + 1 /\ b \in 1..Len(done)
      <4>1. fd = done[b] /\ done[b] \in S
        BY <2>3, <2>4, <3>3
      <4> QED
        BY <2>4, <4>1
    <3>4. CASE b = Len(done) + 1 /\ a \in 1..Len(done)
      <4>1. fd = done[a] /\ done[a] \in S
        BY <2>3, <2>4, <3>4
      <4> QED
        BY <2>4, <4>1
    <3> QED
      BY <2>3, <3>1, <3>2, <3>3, <3>4
  <2>8. ASSUME NEW x \in B PROVE event_set[x].fd \notin S \cup {fd}
    <3>1. x \in A /\ x # s /\ x \in Slots
      BY <1>2, <1>6
    <3>2. event_set[x].fd # fd
      BY <1>1, <1>4, <3>1 DEF PollInv, OneSlot
    <3> HIDE DEF A, B, S
    <3> QED
      BY <2>1, <3>1, <3>2
  <2>9. polled = (S \cup {fd}) \cup {event_set[x].fd : x \in B}
    <3> HIDE DEF A, B, S
    <3>1. {event_set[x].fd : x \in A} = {fd} \cup {event_set[x].fd : x \in B}
      BY <1>1, <1>3, <1>6
    <3> QED
      BY <2>1, <3>1
  <2> HIDE DEF S
  <2> QED
    BY <1>1, <2>2, <2>3, <2>6, <2>7, <2>8, <2>9 DEF Served
<1>9. EmptiedBehind(event_set, walked')
  <2>1. ASSUME NEW x \in Slots, x < walked PROVE x < walked'
    BY <1>1, <1>4, <2>1, SlotsAre
  <2> QED
    BY <2>1 DEF PollInv, EmptiedBehind
<1>10. event_set[s].fd = fd /\ s < walked' /\ walked' \in Nat
  BY <1>1, <1>4
<1> QED
  BY <1>1, <1>4, <1>5, <1>7, <1>8, <1>9, <1>10
\* What the walk has before it is the same in another array.
SameAhead(new, set, k) ==
  AheadOf(new, k) = AheadOf(set, k) /\ \A s \in AheadOf(set, k) : new[s].fd = set[s].fd

LEMMA ServedSame ==
  ASSUME NEW reported, NEW done, NEW new, NEW set, NEW k, Served(reported, done, set, k), SameAhead(new, set, k)
  PROVE  Served(reported, done, new, k)
<1> DEFINE A == AheadOf(set, k)
<1>1. {new[s].fd : s \in A} = {set[s].fd : s \in A}
  <2> HIDE DEF A
  <2>1. \A s \in A : new[s].fd = set[s].fd
    BY DEF SameAhead, A
  <2> QED
    BY <2>1
<1> QED
  BY <1>1 DEF Served, SameAhead

\* poll_add in a state where the descriptor is in no slot.
LEMMA AddKeeps ==
  ASSUME NEW set \in [Slots -> Items], NEW S \in SUBSET Nat, OneSlot(set, S), NEW k \in Nat, EmptiedBehind(set, k),
         NEW fd \in Nat, fd \notin S, NEW new, new = Poller!poll_add(set, fd)
  PROVE  /\ new \in [Slots -> Items] /\ EmptiedBehind(new, k) /\ SameAhead(new, set, k)
         /\ OneSlot(new, IF Poller!VacantSlots(set) = {} THEN S ELSE S \cup {fd})
<1> DEFINE V == Poller!VacantSlots(set)
           v == Poller!Min(V)
<1>1. V = {s \in Slots : set[s].fd < 0} /\ Slots \in SUBSET Nat /\ \A s \in Slots : set[s] \in Items
  BY SlotsAre DEF Poller!VacantSlots, Slots
<1>2. CASE V = {}
  BY <1>2 DEF Poller!poll_add, SameAhead
<1>3. CASE V # {}
  <2>1. v \in V
    <3> HIDE DEF V
    <3>1. V \in SUBSET Nat
      BY <1>1
    <3> QED
      BY <1>3, <3>1, PollMinIs
  <2>2. new = [set EXCEPT ![v].fd = fd]
    BY <1>3 DEF Poller!poll_add
  <2> HIDE DEF v, V
  <2>3. v \in Slots /\ v \in Nat /\ set[v] \in Items /\ set[v].fd = -1
    BY <1>1, <2>1 DEF Items
  <2>4. /\ new \in [Slots -> Items] /\ new[v].fd = fd /\ new[v].revents = set[v].revents
        /\ \A s \in Slots : s # v => new[s] = set[s]
    BY <2>2, <2>3 DEF Items
  <2>5. EmptiedBehind(new, k)
    BY <2>3, <2>4 DEF EmptiedBehind
  <2>6. v \notin AheadOf(set, k) /\ v \notin AheadOf(new, k)
    <3>1. set[v].revents => ~(v >= k)
      BY <2>3 DEF EmptiedBehind
    <3> QED
      BY <2>3, <2>4, <3>1 DEF AheadOf
  <2>7. SameAhead(new, set, k)
    BY <2>4, <2>6 DEF SameAhead, AheadOf
  <2>8. OneSlot(new, S \cup {fd})
    <3>1. \A s \in Slots : new[s].fd = -1 \/ new[s].fd \in S \cup {fd}
      BY <2>4 DEF OneSlot
    <3>2. ASSUME NEW s \in Slots, s # v PROVE new[s].fd # fd
      <4>1. new[s].fd = set[s].fd /\ (set[s].fd = -1 \/ set[s].fd \in S)
        BY <2>4, <3>2 DEF OneSlot
      <4> QED
        BY <4>1
    <3>3. ASSUME NEW s \in Slots, NEW t \in Slots, new[s].fd # -1, new[s].fd = new[t].fd PROVE s = t
      <4>1. CASE s = v \/ t = v
        BY <2>4, <3>2, <3>3, <4>1
      <4>2. CASE s # v /\ t # v
        BY <2>4, <3>3, <4>2 DEF OneSlot
      <4> QED
        BY <4>1, <4>2
    <3>4. ASSUME NEW f \in S PROVE \E s \in Slots : new[s].fd = f
      <4>1. PICK s \in Slots : set[s].fd = f
        BY <3>4 DEF OneSlot
      <4>2. s # v
        BY <2>3, <3>4, <4>1
      <4> QED
        BY <2>4, <4>1, <4>2
    <3>5. \E s \in Slots : new[s].fd = fd
      BY <2>3, <2>4
    <3> QED
      BY <3>1, <3>3, <3>4, <3>5 DEF OneSlot
  <2> QED
    BY <1>3, <2>4, <2>5, <2>7, <2>8 DEF V
<1> QED
  BY <1>2, <1>3

\* poll_del of a descriptor whose slot the walk has behind it.
LEMMA DelKeeps ==
  ASSUME NEW set \in [Slots -> Items], NEW S \in SUBSET Nat, OneSlot(set, S), NEW k \in Nat, EmptiedBehind(set, k),
         NEW fd \in S, NEW v \in Slots, set[v].fd = fd, v < k, NEW new, new = Poller!poll_del(set, fd)
  PROVE  /\ new \in [Slots -> Items] /\ EmptiedBehind(new, k) /\ SameAhead(new, set, k)
         /\ OneSlot(new, S \ {fd})
<1>1. Slots \in SUBSET Nat /\ fd # -1 /\ v \in Nat
  BY SlotsAre
<1>2. Poller!SlotsOf(set, fd) = {v}
  BY <1>1 DEF OneSlot, Poller!SlotsOf, Slots
<1>3. Poller!Min({v}) = v
  BY <1>1, PollMinIs
<1>4. new = [set EXCEPT ![v].fd = -1]
  BY <1>2, <1>3 DEF Poller!poll_del
<1>5. /\ new \in [Slots -> Items] /\ new[v].fd = -1 /\ new[v].revents = set[v].revents
      /\ \A s \in Slots : s # v => new[s] = set[s]
  BY <1>4 DEF Items
<1>6. EmptiedBehind(new, k)
  BY <1>5 DEF EmptiedBehind
<1>7. v \notin AheadOf(set, k) /\ v \notin AheadOf(new, k)
  BY <1>1 DEF AheadOf
<1>8. SameAhead(new, set, k)
  BY <1>5, <1>7 DEF SameAhead, AheadOf
<1>9. OneSlot(new, S \ {fd})
  <2>1. ASSUME NEW s \in Slots, s # v PROVE set[s].fd # fd
    BY <1>1, <2>1 DEF OneSlot
  <2>2. \A s \in Slots : new[s].fd = -1 \/ new[s].fd \in S \ {fd}
    BY <1>5, <2>1 DEF OneSlot
  <2>3. ASSUME NEW s \in Slots, NEW t \in Slots, new[s].fd # -1, new[s].fd = new[t].fd PROVE s = t
    <3>1. s # v /\ t # v
      BY <1>5, <2>3
    <3> QED
      BY <1>5, <2>3, <3>1 DEF OneSlot
  <2>4. ASSUME NEW f \in S, f # fd PROVE \E s \in Slots : new[s].fd = f
    <3>1. PICK s \in Slots : set[s].fd = f
      BY <2>4 DEF OneSlot
    <3> QED
      BY <1>5, <2>4, <3>1
  <2> QED
    BY <2>2, <2>3, <2>4 DEF OneSlot
<1> QED
  BY <1>5, <1>6, <1>8, <1>9

LEMMA PollStep == PollerAssumption /\ PollInv /\ Poller!Next => PollInv'
<1> SUFFICES ASSUME PollInv, Poller!Next PROVE PollInv'
  OBVIOUS
<1> DEFINE S == entries \ turnedAway
<1>1. /\ event_set \in [Slots -> Items] /\ walked \in Nat /\ lastFd \in Nat /\ lastFd >= 2
      /\ entries \subseteq 1..lastFd /\ turnedAway \subseteq entries /\ S \in SUBSET Nat
      /\ nentries \in Nat /\ nentries >= 1 /\ \A fd \in entries : fd < nentries
      /\ OneSlot(event_set, S) /\ EmptiedBehind(event_set, walked)
  BY DEF PollInv
<1>2. CASE Poller!Poll
  <2> DEFINE R == Poller!Reported
  <2>1. /\ event_set' = [s \in Slots |-> [event_set[s] EXCEPT !.revents = s \in R]]
        /\ walked' = 0 /\ ready_number' = Poller!Cardinality(R) /\ polled' = {event_set[s].fd : s \in R}
        /\ activated' = <<>>
        /\ UNCHANGED <<entries, nentries, lastFd, turnedAway>>
    BY <1>2 DEF Poller!Poll, Poller!kernel, Slots
  <2>2. R \subseteq Slots /\ \A s \in R : event_set[s].fd >= 0
    BY DEF Poller!Reported, Slots
  <2> HIDE DEF R
  <2>3. /\ event_set' \in [Slots -> Items]
        /\ \A s \in Slots : event_set'[s].fd = event_set[s].fd /\ (event_set'[s].revents <=> s \in R)
    <3>1. ASSUME NEW s \in Slots
          PROVE  /\ event_set'[s] \in Items
                 /\ event_set'[s].fd = event_set[s].fd /\ (event_set'[s].revents <=> s \in R)
      <4> DEFINE b == s \in R
      <4>1. event_set[s] \in Items /\ b \in BOOLEAN
        BY <1>1
      <4>2. event_set'[s] = [event_set[s] EXCEPT !.revents = b]
        BY <2>1
      <4> HIDE DEF b
      <4>3. event_set'[s] \in Items /\ event_set'[s].fd = event_set[s].fd /\ event_set'[s].revents = b
        BY <4>1, <4>2 DEF Items
      <4> QED
        BY <4>3 DEF b
    <3>2. event_set' = [s \in Slots |-> event_set'[s]]
      BY <2>1
    <3> QED
      BY <3>1, <3>2
  <2>4. AheadOf(event_set', 0) = R
    <3>1. \A s \in Slots : s >= 0
      BY SlotsAre
    <3> QED
      BY <2>2, <2>3, <3>1 DEF AheadOf
  <2>5. OneSlot(event_set', S) /\ EmptiedBehind(event_set', 0)
    <3>1. ASSUME NEW s \in Slots, event_set'[s].fd = -1 PROVE ~event_set'[s].revents
      BY <2>2, <2>3, <3>1
    <3>2. EmptiedBehind(event_set', 0)
      BY <3>1 DEF EmptiedBehind
    <3> HIDE DEF S
    <3> QED
      BY <1>1, <2>3, <3>2 DEF OneSlot
  <2>6. Served(polled', activated', event_set', 0)
    <3>1. {event_set[s].fd : s \in R} = {event_set'[s].fd : s \in R}
      BY <2>2, <2>3
    <3>2. <<>> \in Seq(Nat) /\ Poller!ToSet(<<>>) = {} /\ Poller!IsInjective(<<>>)
      BY EmptySeq DEF Poller!ToSet, Poller!IsInjective
    <3> QED
      BY <2>1, <2>4, <3>1, <3>2 DEF Served
  <2>7. ready_number' = Cardinality(AheadOf(event_set', walked'))
    BY <2>1, <2>4, SameCardinality
  <2> QED
    BY <1>1, <2>1, <2>3, <2>5, <2>6, <2>7 DEF PollInv
<1>3. ASSUME NEW fd, Poller!Activate(fd), UNCHANGED <<event_set, entries, nentries, lastFd, turnedAway>>
      PROVE  PollInv'
  BY <1>1, <1>3, ActivateKeeps DEF PollInv
<1>4. CASE Poller!Accept
  <2> DEFINE fd == lastFd + 1
  <2>1. /\ Poller!Activate(2) /\ lastFd' = fd /\ nentries' = Poller!SpaceFor(fd) /\ entries' = entries \cup {fd}
        /\ event_set' = Poller!poll_add(event_set, fd)
        /\ turnedAway' = IF Poller!VacantSlots(event_set) = {} THEN turnedAway \cup {fd} ELSE turnedAway
    BY <1>4 DEF Poller!Accept, Poller!listen_fd
  <2>2. fd \in Nat /\ fd \notin entries /\ fd \notin S /\ lastFd' >= 2 /\ fd \notin turnedAway
    BY <1>1, <2>1
  <2>3. /\ walked' \in Nat /\ EmptiedBehind(event_set, walked')
        /\ ready_number' = Cardinality(AheadOf(event_set, walked'))
        /\ Served(polled', activated', event_set, walked')
    BY <2>1, ActivateKeeps
  <2>4. nentries' \in Nat /\ nentries' > fd /\ nentries' >= nentries
    <3>1. nentries' = Poller!Room(nentries, fd)
      BY <1>1, <2>1 DEF Poller!SpaceFor
    <3> HIDE DEF fd
    <3> QED
      BY <1>1, <2>2, <3>1, RoomIs
  <2> HIDE DEF fd
  <2>5. /\ event_set' \in [Slots -> Items] /\ EmptiedBehind(event_set', walked') /\ SameAhead(event_set', event_set, walked')
        /\ OneSlot(event_set', IF Poller!VacantSlots(event_set) = {} THEN S ELSE S \cup {fd})
    <3> HIDE DEF S
    <3> QED BY <1>1, <2>1, <2>2, <2>3, AddKeeps
  <2>6. entries' \ turnedAway' = IF Poller!VacantSlots(event_set) = {} THEN S ELSE S \cup {fd}
    BY <1>1, <2>1, <2>2
  <2>7. Served(polled', activated', event_set', walked')
    BY <2>3, <2>5, ServedSame
  <2>8. ready_number' = Cardinality(AheadOf(event_set', walked'))
    BY <2>3, <2>5 DEF SameAhead
  <2>9. /\ entries' \subseteq 1..lastFd' /\ turnedAway' \subseteq entries' /\ \A f \in entries' : f < nentries'
    <3>1. ASSUME NEW f \in entries' PROVE f \in 1..lastFd' /\ f < nentries'
      <4>1. CASE f = fd
        BY <1>1, <2>1, <2>2, <2>4, <4>1
      <4>2. CASE f \in entries
        <5>1. f \in 1..lastFd /\ f < nentries
          BY <1>1, <4>2
        <5> QED
          BY <1>1, <2>1, <2>2, <2>4, <5>1 DEF fd
      <4> QED
        BY <2>1, <4>1, <4>2
    <3>2. turnedAway' \subseteq entries'
      BY <1>1, <2>1
    <3> QED
      BY <3>1, <3>2
  <2>10. lastFd' \in Nat /\ lastFd' >= 2 /\ nentries' >= 1
    BY <1>1, <2>1, <2>2, <2>4
  <2> QED
    BY <2>3, <2>4, <2>5, <2>6, <2>7, <2>8, <2>9, <2>10 DEF PollInv
<1>5. CASE Poller!AcceptFails
  BY <1>3, <1>5 DEF Poller!AcceptFails, Poller!kernel
<1>6. ASSUME NEW fd, Poller!Message(fd) PROVE PollInv'
  BY <1>3, <1>6 DEF Poller!Message
<1>7. ASSUME NEW fd, Poller!Closed(fd) PROVE PollInv'
  <2>1. /\ Poller!Activate(fd) /\ event_set' = Poller!poll_del(event_set, fd) /\ entries' = entries \ {fd}
        /\ UNCHANGED <<nentries, lastFd, turnedAway>>
    BY <1>7 DEF Poller!Closed, Poller!kernel
  <2>2. /\ fd \in S /\ walked' \in Nat /\ EmptiedBehind(event_set, walked')
        /\ ready_number' = Cardinality(AheadOf(event_set, walked'))
        /\ Served(polled', activated', event_set, walked')
    BY <2>1, ActivateKeeps
  <2>3. PICK v \in Slots : event_set[v].fd = fd /\ v < walked'
    BY <2>1, ActivateKeeps
  <2>4. /\ event_set' \in [Slots -> Items] /\ EmptiedBehind(event_set', walked')
        /\ SameAhead(event_set', event_set, walked') /\ OneSlot(event_set', S \ {fd})
    <3> HIDE DEF S
    <3> QED BY <1>1, <2>1, <2>2, <2>3, DelKeeps
  <2>5. entries' \ turnedAway' = S \ {fd} /\ entries' \subseteq 1..lastFd' /\ turnedAway' \subseteq entries'
        /\ \A f \in entries' : f < nentries'
    BY <1>1, <2>1, <2>2
  <2>6. Served(polled', activated', event_set', walked')
    BY <2>2, <2>4, ServedSame
  <2>7. ready_number' = Cardinality(AheadOf(event_set', walked'))
    BY <2>2, <2>4 DEF SameAhead
  <2> QED
    BY <1>1, <2>1, <2>2, <2>4, <2>5, <2>6, <2>7 DEF PollInv
<1>8. ASSUME UNCHANGED <<event_set, walked, ready_number, entries, nentries, lastFd, polled, activated, turnedAway>>
      PROVE  PollInv'
  BY <1>1, <1>8 DEF PollInv
<1>9. ASSUME NEW fd, Poller!Arrive(fd) \/ Poller!End(fd) PROVE PollInv'
  BY <1>8, <1>9 DEF Poller!Arrive, Poller!End, Poller!dispatcher, Poller!history
<1> QED
  BY <1>2, <1>4, <1>5, <1>6, <1>7, <1>9 DEF Poller!Next
-----------------------------------------------------------------------------
(* The edge-triggered server of chap-23.                                   *)
Elems(t)     == {t[k] : k \in 1..Len(t)}
EventFds(es) == {es[k].fd : k \in 1..Len(es)}
Fds    == Client \cup {Listener}
Events == [fd : Fds, error : BOOLEAN]

LEMMA ElemsAre == ASSUME NEW X, NEW t \in Seq(X) PROVE Edge!ToSet(t) = Elems(t) /\ Elems(t) \subseteq X
<1>1. DOMAIN t = 1..Len(t) /\ \A k \in 1..Len(t) : t[k] \in X
  BY LenProperties, ElementOfSeq
<1> QED
  BY <1>1 DEF Edge!ToSet, Elems

LEMMA ElemsAppend ==
  ASSUME NEW X, NEW t \in Seq(X), NEW x \in X
  PROVE  Append(t, x) \in Seq(X) /\ Elems(Append(t, x)) = Elems(t) \cup {x}
<1> DEFINE a == Append(t, x)
           n == Len(t)
<1>1. /\ a \in Seq(X) /\ Len(a) = n + 1 /\ n \in Nat /\ a[n + 1] = x
      /\ \A k \in 1..n : a[k] = t[k]
  BY AppendProperties, LenProperties
<1>2. 1 .. n + 1 = (1..n) \cup {n + 1}
  BY <1>1
<1> HIDE DEF a
<1>3. Elems(a) = Elems(t) \cup {x}
  BY <1>1, <1>2 DEF Elems
<1> QED
  BY <1>1, <1>3 DEF a

\* Among keeps the members that are in S, and no other.
LEMMA AmongIs ==
  ASSUME NEW X, NEW s \in Seq(X), NEW S
  PROVE  Edge!Among(s, S) \in Seq(X) /\ Elems(Edge!Among(s, S)) = Elems(s) \cap S
<1> DEFINE n == Len(s)
           T == Seq(X)
           step == [p \in T \X (1..n) |-> IF s[p[2]] \in S THEN Append(p[1], s[p[2]]) ELSE p[1]]
           After(u, k) == IF s[k] \in S THEN Append(u[k - 1], s[k]) ELSE u[k - 1]
           Body(u) == [k \in 0..n |-> IF k = 0 THEN <<>> ELSE After(u, k)]
           w == CHOOSE u : u = Body(u)
<1>1. n \in Nat /\ \A k \in 1..n : s[k] \in X
  BY LenProperties, ElementOfSeq
<1>2. step \in [T \X (1..n) -> T]
  <2>1. ASSUME NEW p \in T \X (1..n) PROVE step[p] \in T
    <3>1. p[1] \in T /\ p[2] \in 1..n /\ s[p[2]] \in X
      BY <1>1
    <3>2. Append(p[1], s[p[2]]) \in T
      BY <3>1, AppendProperties
    <3> QED
      BY <3>1, <3>2
  <2> HIDE DEF T
  <2> QED
    BY <2>1
<1>3. <<>> \in T
  BY EmptySeq
<1>4. PICK v \in [0..n -> T] : IsWalk(v, <<>>, n, step)
  <2> HIDE DEF step, T, n
  <2> QED BY <1>1, <1>2, <1>3, WalkExists
<1>5. ASSUME NEW k \in 1..n PROVE v[k] = After(v, k)
  <2>1. v[k - 1] \in T
    <3> HIDE DEF T
    <3> QED BY <1>1, <1>4
  <2>2. <<v[k - 1], k>> \in T \X (1..n)
    BY <2>1
  <2>3. step[<<v[k - 1], k>>] = IF s[k] \in S THEN Append(v[k - 1], s[k]) ELSE v[k - 1]
    <3> HIDE DEF T
    <3> QED BY <2>2
  <2> QED
    BY <1>4, <2>3 DEF IsWalk
<1>6. v = Body(v)
  <2>1. v = [k \in 0..n |-> v[k]]
    <3> HIDE DEF T
    <3> QED BY <1>4
  <2>2. v[0] = <<>>
    BY <1>4 DEF IsWalk
  <2>3. \A k \in 0..n : v[k] = IF k = 0 THEN <<>> ELSE After(v, k)
    <3> HIDE DEF After
    <3> QED BY <1>1, <1>5, <2>2
  <2> HIDE DEF After
  <2> QED
    BY <2>1, <2>3
<1>7. Edge!Among(s, S) = w[n]
  BY DEF Edge!Among
<1>8. w = Body(w)
  <2> HIDE DEF Body
  <2> QED BY <1>6
<1> HIDE DEF w
<1>9. w[0] = <<>> /\ \A k \in 1..n : w[k] = After(w, k)
  <2> HIDE DEF After
  <2> DEFINE f == [k \in 0..n |-> IF k = 0 THEN <<>> ELSE After(w, k)]
  <2>2. w = f
    BY <1>8
  <2>3. f[0] = <<>>
    BY <1>1
  <2>4. ASSUME NEW k \in 1..n PROVE f[k] = After(w, k)
    BY <1>1
  <2> HIDE DEF f
  <2> QED BY <2>2, <2>3, <2>4
<1> DEFINE G == {k \in Nat : k <= n => w[k] \in Seq(X) /\ Elems(w[k]) = {s[j] : j \in 1..k} \cap S}
<1>10. 0 \in G
  <2>1. w[0] = <<>>
    BY <1>9
  <2>2. <<>> \in Seq(X) /\ Len(<<>>) = 0
    BY EmptySeq
  <2>3. Elems(<<>>) = {}
    BY <2>2 DEF Elems
  <2>4. 1..0 = {}
    OBVIOUS
  <2> QED
    BY <2>1, <2>2, <2>3, <2>4
<1>11. ASSUME NEW k \in Nat, k \in G PROVE k + 1 \in G
  <2> DEFINE i == k + 1
  <2> SUFFICES ASSUME i <= n PROVE w[i] \in Seq(X) /\ Elems(w[i]) = {s[j] : j \in 1..i} \cap S
    OBVIOUS
  <2>1. i \in 1..n /\ i - 1 = k /\ s[i] \in X /\ w[k] \in Seq(X) /\ Elems(w[k]) = {s[j] : j \in 1..k} \cap S
    BY <1>1, <1>11
  <2>2. {s[j] : j \in 1..i} = {s[j] : j \in 1..k} \cup {s[i]}
    <3>1. 1..i = (1..k) \cup {i}
      OBVIOUS
    <3> HIDE DEF i
    <3> QED BY <3>1
  <2> HIDE DEF i
  <2>3. CASE s[i] \in S
    <3>1. w[i] = Append(w[k], s[i])
      BY <1>9, <2>1, <2>3
    <3> DEFINE t == w[k]
    <3>2. t \in Seq(X) /\ Elems(t) = {s[j] : j \in 1..k} \cap S /\ w[i] = Append(t, s[i])
      BY <2>1, <3>1
    <3> HIDE DEF t
    <3>3. Append(t, s[i]) \in Seq(X) /\ Elems(Append(t, s[i])) = Elems(t) \cup {s[i]}
      BY <2>1, <3>2, ElemsAppend
    <3> QED
      BY <2>2, <2>3, <3>2, <3>3
  <2>4. CASE s[i] \notin S
    <3>1. w[i] = w[k]
      BY <1>9, <2>1, <2>4
    <3> QED
      BY <2>1, <2>2, <2>4, <3>1
  <2> QED
    BY <2>3, <2>4
<1>12. Nat \subseteq G
  <2> HIDE DEF G
  <2> QED BY <1>10, <1>11, Induction
<1>13. n \in G
  BY <1>1, <1>12
<1>14. w[n] \in Seq(X) /\ Elems(w[n]) = {s[j] : j \in 1..n} \cap S
  BY <1>1, <1>13
<1> QED
  BY <1>7, <1>14 DEF Elems

LEMMA EventsAre ==
  ASSUME NEW es \in Seq(Events), es # <<>>
  PROVE  /\ Head(es) \in Events /\ Tail(es) \in Seq(Events) /\ Elems(Tail(es)) \subseteq Elems(es) /\ Head(es) \in Elems(es)
         /\ EventFds(es) = {Head(es).fd} \cup EventFds(Tail(es))
         /\ {e.fd : e \in Edge!ToSet(Tail(es))} = EventFds(Tail(es))
<1> DEFINE n == Len(es)
           t == Tail(es)
<1>1. /\ n \in Nat /\ n # 0 /\ Head(es) = es[1] /\ t \in Seq(Events) /\ Len(t) = n - 1
      /\ \A k \in 1 .. n - 1 : t[k] = es[k + 1]
      /\ \A k \in 1..n : es[k] \in Events
  BY HeadTailProperties, LenProperties, EmptySeq, ElementOfSeq
<1>2. \A k \in 1..n : k = 1 \/ (k - 1 \in 1 .. n - 1 /\ (k - 1) + 1 = k)
  BY <1>1
<1>3. \A k \in 1 .. n - 1 : k + 1 \in 1..n
  BY <1>1
<1> HIDE DEF t
<1>4. EventFds(es) = {es[1].fd} \cup EventFds(t)
  <2>1. ASSUME NEW x \in EventFds(es) PROVE x \in {es[1].fd} \cup EventFds(t)
    <3>1. PICK k \in 1..n : x = es[k].fd
      BY DEF EventFds
    <3>2. CASE k = 1
      BY <3>1, <3>2
    <3>3. CASE k - 1 \in 1 .. n - 1 /\ (k - 1) + 1 = k
      <4>1. t[k - 1] = es[k]
        BY <1>1, <3>3
      <4> QED
        BY <1>1, <3>1, <3>3, <4>1 DEF EventFds
    <3> QED
      BY <1>2, <3>2, <3>3
  <2>2. ASSUME NEW x \in EventFds(t) PROVE x \in EventFds(es)
    <3>1. PICK k \in 1 .. n - 1 : x = t[k].fd
      BY <1>1 DEF EventFds
    <3>2. t[k] = es[k + 1] /\ k + 1 \in 1..n
      BY <1>1, <1>3
    <3> QED
      BY <3>1, <3>2 DEF EventFds
  <2>3. es[1].fd \in EventFds(es)
    BY <1>1 DEF EventFds
  <2> QED
    BY <2>1, <2>2, <2>3
<1>5. Elems(t) \subseteq Elems(es)
  BY <1>1, <1>3 DEF Elems
<1>6. 1 \in 1..n /\ es[1] \in Elems(es) /\ es[1] \in Events
  BY <1>1 DEF Elems
<1>7. {e.fd : e \in Edge!ToSet(t)} = EventFds(t)
  <2>1. Edge!ToSet(t) = Elems(t)
    BY <1>1, ElemsAre
  <2> QED
    BY <2>1 DEF Elems, EventFds
<1> QED
  BY <1>1, <1>4, <1>5, <1>6, <1>7 DEF t
EdgeTyped ==
  /\ place \in [Client -> {"away", "backlog", "served", "closed"}]
  /\ over \in [Client -> {"open", "fin", "reset"}]
  /\ sent \in [Client -> Nat] /\ unread \in [Client -> Nat] /\ answered \in [Client -> Nat]
  /\ ready \in Seq(Fds) /\ events \in Seq(Events)
  /\ doing \in {"wait", "walk", "read", "exited"}

Watched(fd)  == fd = Listener \/ place[fd] = "served"
OnItsWay(fd) == fd \in Elems(ready) \cup missed \cup EventFds(events)

\* What is readable is in the kernel's list, in the batch, or dropped; what a client sent is
\* unread, answered, or lost to a full socket.
EdgeInv ==
  /\ EdgeTyped
  /\ doing = "wait" => events = <<>>
  /\ doing = "read" => events # <<>>
  /\ \A e \in Elems(events) : e.error => e.fd \in Client /\ over[e.fd] = "reset"
  /\ doing # "exited" => \A fd \in Fds : Watched(fd) /\ Edge!Readable(fd) => OnItsWay(fd)
  /\ \A c \in Client \ short : over[c] # "reset" => answered[c] + unread[c] = sent[c]
  /\ \A c \in Client : place[c] = "closed" /\ over[c] = "fin" => unread[c] = 0

LEMMA EdgeInvImplies == EdgeInv => Edge!HeardUnlessMissed
<1> SUFFICES ASSUME EdgeInv, doing = "wait" PROVE Edge!HeardUnlessMissed
  BY DEF Edge!HeardUnlessMissed
<1>1. EdgeTyped /\ events = <<>> /\ Edge!ToSet(ready) = Elems(ready)
  BY ElemsAre DEF EdgeInv, EdgeTyped
<1>2. EventFds(events) = {}
  <2>1. Len(<<>>) = 0
    BY EmptySeq
  <2> QED
    BY <1>1, <2>1 DEF EventFds
<1>3. ASSUME NEW fd \in {Listener} \cup {c \in Client : place[c] = "served"}, Edge!Readable(fd)
      PROVE  fd \in Edge!ToSet(ready) \cup missed
  <2>1. fd \in Fds /\ Watched(fd)
    BY DEF Fds, Watched
  <2>2. OnItsWay(fd)
    BY <1>3, <2>1 DEF EdgeInv
  <2> QED
    BY <1>1, <1>2, <2>2 DEF OnItsWay
<1>4. ASSUME NEW c \in Client \ (missed \cup short),
             \/ place[c] = "closed" /\ over[c] = "fin"
             \/ place[c] = "served" /\ over[c] = "open" /\ c \notin Edge!ToSet(ready)
      PROVE  answered[c] = sent[c]
  <2>1. c \in Client /\ unread[c] \in Nat /\ answered[c] \in Nat /\ sent[c] \in Nat /\ c # Listener
    BY <1>1, EdgeAssumption DEF EdgeTyped
  <2>2. answered[c] + unread[c] = sent[c]
    BY <1>4, <2>1 DEF EdgeInv
  <2>3. unread[c] = 0
    <3>1. CASE place[c] = "closed" /\ over[c] = "fin"
      BY <2>1, <3>1 DEF EdgeInv
    <3>2. CASE place[c] = "served" /\ over[c] = "open" /\ c \notin Edge!ToSet(ready)
      <4>1. ~Edge!Readable(c)
        BY <1>3, <1>4, <3>2
      <4> QED
        BY <2>1, <4>1 DEF Edge!Readable
    <3> QED
      BY <1>4, <3>1, <3>2
  <2> QED
    BY <2>1, <2>2, <2>3
<1> QED
  BY <1>3, <1>4 DEF Edge!HeardUnlessMissed

LEMMA EdgeInitHolds == EdgeAssumption /\ Edge!Init => EdgeInv
<1> SUFFICES ASSUME Edge!Init PROVE EdgeInv
  OBVIOUS
<1>1. /\ place = [c \in Client |-> "away"] /\ over = [c \in Client |-> "open"]
      /\ sent = [c \in Client |-> 0] /\ unread = sent /\ answered = sent
      /\ ready = <<>> /\ events = <<>> /\ doing = "wait"
  BY DEF Edge!Init
<1>2. <<>> \in Seq(Fds) /\ <<>> \in Seq(Events) /\ Len(<<>>) = 0
  BY EmptySeq
<1>3. EdgeTyped
  BY <1>1, <1>2 DEF EdgeTyped
<1>4. Elems(events) = {}
  BY <1>1, <1>2 DEF Elems
<1>5. \A fd \in Fds : ~(Watched(fd) /\ Edge!Readable(fd))
  BY <1>1 DEF Fds, Watched, Edge!Readable, Edge!Waiting
<1>6. \A c \in Client : answered[c] + unread[c] = sent[c] /\ unread[c] = 0
  BY <1>1
<1> QED
  BY <1>1, <1>3, <1>4, <1>5, <1>6 DEF EdgeInv

\* The kernel has fd in its list after something arrived for it.
LEMMA EdgeIs ==
  ASSUME ready \in Seq(Fds), NEW fd \in Fds, Edge!Edge(fd)
  PROVE  ready' \in Seq(Fds) /\ Elems(ready') = Elems(ready) \cup {fd} /\ missed' = missed \ {fd}
<1>1. Edge!ToSet(ready) = Elems(ready)
  BY ElemsAre
<1>2. Append(ready, fd) \in Seq(Fds) /\ Elems(Append(ready, fd)) = Elems(ready) \cup {fd}
  BY ElemsAppend
<1>3. missed' = missed \ {fd} /\ ready' = IF fd \in Elems(ready) THEN ready ELSE Append(ready, fd)
  BY <1>1 DEF Edge!Edge
<1>4. CASE fd \in Elems(ready)
  BY <1>3, <1>4
<1>5. CASE fd \notin Elems(ready)
  <2>1. ready' = Append(ready, fd)
    BY <1>3, <1>5
  <2> QED
    BY <1>2, <1>3, <2>1
<1> QED
  BY <1>4, <1>5

\* What clients do.
LEMMA ClientsKeep ==
  ASSUME EdgeInv, NEW c \in Client, Edge!Connect(c) \/ Edge!Send(c) \/ Edge!End(c, "fin") \/ Edge!End(c, "reset")
  PROVE  EdgeInv'
<1>1. EdgeTyped /\ c \in Fds /\ Listener \in Fds /\ c # Listener /\ Client \subseteq Fds
  BY EdgeAssumption DEF EdgeInv, Fds
<1>2. CASE Edge!Connect(c)
  <2>1. /\ place[c] = "away" /\ doing # "exited" /\ place' = [place EXCEPT ![c] = "backlog"] /\ Edge!Edge(Listener)
        /\ UNCHANGED <<sent, unread, answered, over, events, doing, short>>
    BY <1>2 DEF Edge!Connect
  <2>2. ready' \in Seq(Fds) /\ Elems(ready') = Elems(ready) \cup {Listener} /\ missed' = missed \ {Listener}
    BY <1>1, <2>1, EdgeIs DEF EdgeTyped
  <2>3. EdgeTyped' /\ place'[c] = "backlog" /\ \A d \in Client : d # c => place'[d] = place[d]
    BY <1>1, <2>1, <2>2 DEF EdgeTyped
  <2>4. ASSUME NEW fd \in Fds, Watched(fd)', Edge!Readable(fd)' PROVE OnItsWay(fd)'
    <3>1. CASE fd = Listener
      BY <2>2, <3>1 DEF OnItsWay
    <3>2. CASE fd # Listener
      <4>1. fd \in Client /\ fd # c /\ Watched(fd) /\ Edge!Readable(fd)
        BY <2>1, <2>3, <2>4, <3>2 DEF Fds, Watched, Edge!Readable
      <4>2. OnItsWay(fd)
        BY <1>1, <2>1, <4>1 DEF EdgeInv
      <4> QED
        BY <2>1, <2>2, <3>2, <4>2 DEF OnItsWay
    <3> QED
      BY <3>1, <3>2
  <2>5. \A d \in Client : place'[d] = "closed" => place[d] = "closed"
    BY <2>3
  <2> QED
    BY <2>1, <2>3, <2>4, <2>5 DEF EdgeInv
<1>3. ASSUME place' = place, UNCHANGED <<events, doing, short, answered>>, Edge!EdgeOf(c), doing # "exited",
             over' \in [Client -> {"open", "fin", "reset"}], unread' \in [Client -> Nat], sent' \in [Client -> Nat],
             \A d \in Client : d # c => over'[d] = over[d] /\ unread'[d] = unread[d] /\ sent'[d] = sent[d],
             place[c] \in {"backlog", "served"}, over[c] = "open",
             c \notin short /\ over'[c] # "reset" => answered[c] + unread'[c] = sent'[c]
      PROVE  EdgeInv'
  <2>1. /\ ready' \in Seq(Fds) /\ Elems(ready) \subseteq Elems(ready') /\ missed \ Elems(ready') \subseteq missed'
        /\ place[c] = "served" => c \in Elems(ready')
    <3>1. CASE place[c] = "served"
      <4>1. Edge!Edge(c) /\ ready \in Seq(Fds)
        BY <1>1, <1>3, <3>1 DEF Edge!EdgeOf, EdgeTyped
      <4>2. ready' \in Seq(Fds) /\ Elems(ready') = Elems(ready) \cup {c} /\ missed' = missed \ {c}
        BY <1>1, <4>1, EdgeIs
      <4> QED
        BY <4>2
    <3>2. CASE place[c] # "served"
      BY <1>1, <1>3, <3>2 DEF Edge!EdgeOf, EdgeTyped
    <3> QED
      BY <3>1, <3>2
  <2>2. EdgeTyped'
    BY <1>1, <1>3, <2>1 DEF EdgeTyped
  <2>3. ASSUME NEW fd \in Fds, Watched(fd)', Edge!Readable(fd)' PROVE OnItsWay(fd)'
    <3>1. CASE fd = c
      BY <1>1, <1>3, <2>1, <2>3, <3>1 DEF OnItsWay, Watched
    <3>2. CASE fd # c
      <4>1. Watched(fd) /\ Edge!Readable(fd)
        BY <1>3, <2>3, <3>2 DEF Fds, Watched, Edge!Readable, Edge!Waiting
      <4>2. OnItsWay(fd)
        BY <1>3, <4>1 DEF EdgeInv
      <4> QED
        BY <1>3, <2>1, <4>2 DEF OnItsWay
    <3> QED
      BY <3>1, <3>2
  <2>4. \A e \in Elems(events') : e.error => e.fd \in Client /\ over'[e.fd] = "reset"
    BY <1>3 DEF EdgeInv
  <2>5. \A d \in Client \ short' : over'[d] # "reset" => answered'[d] + unread'[d] = sent'[d]
    BY <1>3 DEF EdgeInv
  <2>6. \A d \in Client : place'[d] = "closed" /\ over'[d] = "fin" => unread'[d] = 0
    BY <1>3 DEF EdgeInv
  <2>7. (doing' = "wait" => events' = <<>>) /\ (doing' = "read" => events' # <<>>)
    BY <1>3 DEF EdgeInv
  <2> QED
    BY <2>2, <2>3, <2>4, <2>5, <2>6, <2>7 DEF EdgeInv
<1>4. CASE Edge!Send(c)
  <2>1. /\ doing # "exited" /\ place[c] \in {"backlog", "served"} /\ over[c] = "open" /\ Edge!EdgeOf(c)
        /\ sent' = [sent EXCEPT ![c] = @ + 1] /\ unread' = [unread EXCEPT ![c] = @ + 1]
        /\ UNCHANGED <<place, answered, over, events, doing, short>>
    BY <1>4 DEF Edge!Send
  <2>2. sent[c] \in Nat /\ unread[c] \in Nat /\ answered[c] \in Nat
    BY <1>1 DEF EdgeTyped
  <2>3. sent' \in [Client -> Nat] /\ unread' \in [Client -> Nat] /\ sent'[c] = sent[c] + 1 /\ unread'[c] = unread[c] + 1
        /\ \A d \in Client : d # c => unread'[d] = unread[d] /\ sent'[d] = sent[d]
    BY <1>1, <2>1, <2>2 DEF EdgeTyped
  <2>4. c \notin short => answered[c] + unread[c] = sent[c]
    BY <2>1 DEF EdgeInv
  <2>5. c \notin short => answered[c] + unread'[c] = sent'[c]
    BY <2>2, <2>3, <2>4
  <2>6. over' \in [Client -> {"open", "fin", "reset"}] /\ over' = over
    BY <1>1, <2>1 DEF EdgeTyped
  <2> QED
    BY <1>3, <2>1, <2>3, <2>5, <2>6
<1>5. ASSUME NEW how \in {"fin", "reset"}, Edge!End(c, how) PROVE EdgeInv'
  <2>1. /\ doing # "exited" /\ place[c] \in {"backlog", "served"} /\ over[c] = "open" /\ Edge!EdgeOf(c)
        /\ over' = [over EXCEPT ![c] = how] /\ unread' = IF how = "reset" THEN [unread EXCEPT ![c] = 0] ELSE unread
        /\ UNCHANGED <<place, sent, answered, events, doing, short>>
    BY <1>5 DEF Edge!End
  <2>2. /\ over' \in [Client -> {"open", "fin", "reset"}] /\ over'[c] = how /\ unread' \in [Client -> Nat]
        /\ how = "fin" => unread'[c] = unread[c]
        /\ \A d \in Client : d # c => over'[d] = over[d] /\ unread'[d] = unread[d]
    BY <1>1, <2>1 DEF EdgeTyped
  <2>3. c \notin short => answered[c] + unread[c] = sent[c]
    BY <2>1 DEF EdgeInv
  <2>4. c \notin short /\ over'[c] # "reset" => answered[c] + unread'[c] = sent'[c]
    BY <1>5, <2>1, <2>2, <2>3
  <2>5. sent' \in [Client -> Nat] /\ sent' = sent
    BY <1>1, <2>1 DEF EdgeTyped
  <2> QED
    BY <1>3, <2>1, <2>2, <2>4, <2>5
<1> QED
  BY <1>2, <1>4, <1>5

LEMMA EdgeMin ==
  ASSUME NEW a \in Nat, NEW b \in Nat
  PROVE  LET m == Edge!Min({a, b}) IN m \in Nat /\ m <= a /\ m <= b /\ m \in {a, b}
<1> DEFINE S == {a, b}
<1>1. \E x \in S : \A y \in S : x <= y
  <2>1. S \in SUBSET Nat /\ S # {}
    OBVIOUS
  <2> HIDE DEF S
  <2> QED BY <2>1, LeastNumber
<1>2. Edge!Min(S) \in S /\ \A y \in S : Edge!Min(S) <= y
  <2> HIDE DEF S
  <2> QED BY <1>1 DEF Edge!Min
<1> QED
  BY <1>2

\* epoll_wait moves the first n of the readable ones into the batch and keeps the rest.
LEMMA WaitKeeps ==
  ASSUME EdgeInv, Edge!EpollWait
  PROVE  EdgeInv'
<1> DEFINE live == Edge!Live
           m == Len(live)
           n == Edge!Min({m, MAXEVENTS})
           es == [k \in 1..n |-> [fd |-> live[k], error |-> live[k] \in Client /\ over[live[k]] = "reset"]]
           rest == SubSeq(live, n + 1, m)
<1>1. EdgeTyped /\ ready \in Seq(Fds) /\ Edge!ToSet(ready) = Elems(ready)
  BY ElemsAre DEF EdgeInv, EdgeTyped
<1>2. live \in Seq(Fds) /\ Elems(live) = {fd \in Elems(ready) : Edge!Readable(fd)}
  <2> DEFINE S == {fd \in Edge!ToSet(ready) : Edge!Readable(fd)}
  <2>1. live = Edge!Among(ready, S) /\ S \subseteq Elems(ready)
    BY <1>1 DEF Edge!Live
  <2> HIDE DEF S, live
  <2> DEFINE a == Edge!Among(ready, S)
  <2>2. a \in Seq(Fds) /\ Elems(a) = Elems(ready) \cap S
    BY <1>1, AmongIs
  <2>3. live = a
    BY <2>1
  <2> HIDE DEF a
  <2> QED
    BY <1>1, <2>1, <2>2, <2>3 DEF S
<1>3. /\ doing = "wait" /\ events' = es /\ ready' = rest /\ doing' = "walk"
      /\ UNCHANGED <<place, sent, unread, answered, over, missed, short>>
  BY DEF Edge!EpollWait
<1> HIDE DEF live
<1>4. m \in Nat /\ n \in Nat /\ n <= m /\ \A k \in 1..m : live[k] \in Fds
  BY <1>2, EdgeMin, EdgeAssumption, LenProperties, ElementOfSeq
<1> HIDE DEF n
<1>5. /\ es \in Seq(Events) /\ Len(es) = n
      /\ \A k \in 1..n : es[k].fd = live[k] /\ (es[k].error <=> live[k] \in Client /\ over[live[k]] = "reset")
  <2>1. ASSUME NEW k \in 1..n
        PROVE  /\ es[k] \in Events /\ es[k].fd = live[k]
               /\ (es[k].error <=> live[k] \in Client /\ over[live[k]] = "reset")
    <3> DEFINE b == live[k] \in Client /\ over[live[k]] = "reset"
               x == live[k]
    <3>1. es[k] = [fd |-> x, error |-> b] /\ b \in BOOLEAN /\ x \in Fds
      BY <1>4
    <3> HIDE DEF b, x, es
    <3>2. es[k] \in Events /\ es[k].fd = x /\ es[k].error = b
      BY <3>1 DEF Events
    <3> QED
      BY <3>2 DEF b, x
  <2>2. es \in [1..n -> Events]
    BY <2>1
  <2> HIDE DEF es
  <2>3. es \in Seq(Events) /\ Len(es) = n
    BY <1>4, <2>2
  <2> QED
    BY <2>1, <2>3 DEF es
<1>6. /\ rest \in Seq(Fds) /\ Len(rest) = m - n /\ \A k \in 1 .. m - n : rest[k] = live[n + k]
  <2>1. \A k \in (n + 1)..m : live[k] \in Fds
    BY <1>4
  <2>2. /\ rest \in Seq(Fds) /\ Len(rest) = IF n + 1 <= m THEN m - (n + 1) + 1 ELSE 0
        /\ \A k \in 1 .. m - (n + 1) + 1 : rest[k] = live[n + 1 + k - 1]
    BY <1>2, <1>4, <2>1, SubSeqProperties
  <2> HIDE DEF rest, m
  <2>3. m - (n + 1) + 1 = m - n /\ Len(rest) = m - n
    BY <1>4, <2>2
  <2>4. ASSUME NEW k \in 1 .. m - n PROVE rest[k] = live[n + k]
    <3>1. n + 1 + k - 1 = n + k
      BY <1>4
    <3> QED
      BY <2>2, <2>3, <3>1
  <2> QED
    BY <2>2, <2>3, <2>4
<1> HIDE DEF es, rest
<1>7. ASSUME NEW fd \in Elems(live) PROVE fd \in Elems(rest) \cup EventFds(es)
  <2>1. PICK k \in 1..m : fd = live[k]
    BY DEF Elems
  <2>2. CASE k <= n
    <3>1. k \in 1..n
      BY <1>4, <2>2
    <3> QED
      BY <1>5, <2>1, <3>1 DEF EventFds
  <2>3. CASE ~(k <= n)
    <3> DEFINE j == k - n
    <3>1. j \in 1 .. m - n /\ n + j = k
      BY <1>4, <2>3
    <3> HIDE DEF j
    <3>2. rest[j] = live[k]
      BY <1>6, <3>1
    <3> QED
      BY <1>6, <2>1, <3>1, <3>2 DEF Elems
  <2> QED
    BY <2>2, <2>3
<1>8. EdgeTyped'
  BY <1>1, <1>3, <1>5, <1>6 DEF EdgeTyped
<1>9. ASSUME NEW fd \in Fds, Watched(fd)', Edge!Readable(fd)' PROVE OnItsWay(fd)'
  <2>1. Watched(fd) /\ Edge!Readable(fd)
    BY <1>3, <1>9 DEF Watched, Edge!Readable, Edge!Waiting
  <2>2. fd \in Elems(ready) \cup missed
    <3>1. events = <<>> /\ OnItsWay(fd)
      BY <1>3, <2>1 DEF EdgeInv
    <3>2. EventFds(events) = {}
      <4>1. Len(<<>>) = 0
        BY EmptySeq
      <4> QED
        BY <3>1, <4>1 DEF EventFds
    <3> QED
      BY <3>1, <3>2 DEF OnItsWay
  <2>3. fd \in Elems(live) => fd \in Elems(rest) \cup EventFds(es)
    BY <1>7
  <2> QED
    BY <1>2, <1>3, <2>1, <2>2, <2>3 DEF OnItsWay
<1>10. \A e \in Elems(events') : e.error => e.fd \in Client /\ over'[e.fd] = "reset"
  BY <1>3, <1>5 DEF Elems
<1>11. /\ \A d \in Client \ short' : over'[d] # "reset" => answered'[d] + unread'[d] = sent'[d]
       /\ \A d \in Client : place'[d] = "closed" /\ over'[d] = "fin" => unread'[d] = 0
  BY <1>3 DEF EdgeInv
<1> QED
  BY <1>3, <1>8, <1>9, <1>10, <1>11 DEF EdgeInv

\* A client is closed and leaves the epoll set.
LEMMA CloseIs ==
  ASSUME EdgeTyped, NEW c \in Client, Edge!Close(c)
  PROVE  /\ place' \in [Client -> {"away", "backlog", "served", "closed"}] /\ place'[c] = "closed"
         /\ \A d \in Client : d # c => place'[d] = place[d]
         /\ ready' \in Seq(Fds) /\ Elems(ready') = Elems(ready) \ {c}
<1>1. ready \in Seq(Fds) /\ Edge!ToSet(ready) = Elems(ready)
  BY ElemsAre DEF EdgeTyped
<1>2. place' = [place EXCEPT ![c] = "closed"] /\ ready' = Edge!Among(ready, Elems(ready) \ {c})
  BY <1>1 DEF Edge!Close
<1>3. ready' \in Seq(Fds) /\ Elems(ready') = Elems(ready) \ {c}
  <2> DEFINE S == Elems(ready) \ {c}
             a == Edge!Among(ready, S)
  <2>1. a \in Seq(Fds) /\ Elems(a) = Elems(ready) \cap S
    BY <1>1, AmongIs
  <2>2. Elems(ready) \cap S = S
    OBVIOUS
  <2> HIDE DEF a
  <2> QED
    BY <1>2, <2>1, <2>2 DEF a
<1> QED
  BY <1>2, <1>3 DEF EdgeTyped

LEMMA WalkKeeps ==
  ASSUME EdgeInv, Edge!EpollError \/ Edge!AcceptFails \/ Edge!Serve \/ Edge!EndOfBatch
  PROVE  EdgeInv'
<1>1. EdgeTyped /\ events \in Seq(Events)
  BY DEF EdgeInv, EdgeTyped
<1>2. CASE Edge!EpollError
  <2> DEFINE c == Head(events).fd
             t == Tail(events)
  <2>1. /\ doing = "walk" /\ events # <<>> /\ Head(events).error /\ Edge!Close(c) /\ events' = t
        /\ UNCHANGED <<sent, unread, answered, over, doing, missed, short>>
    BY <1>2 DEF Edge!EpollError, Edge!Event
  <2>2. t \in Seq(Events) /\ Elems(t) \subseteq Elems(events) /\ Head(events) \in Elems(events)
        /\ EventFds(events) = {c} \cup EventFds(t)
    BY <1>1, <2>1, EventsAre
  <2>3. c \in Client /\ over[c] = "reset" /\ c # Listener
    BY <2>1, <2>2, EdgeAssumption DEF EdgeInv
  <2> HIDE DEF c, t
  <2>4. /\ place' \in [Client -> {"away", "backlog", "served", "closed"}] /\ place'[c] = "closed"
        /\ \A d \in Client : d # c => place'[d] = place[d]
        /\ ready' \in Seq(Fds) /\ Elems(ready') = Elems(ready) \ {c}
    BY <1>1, <2>1, <2>3, CloseIs
  <2>5. EdgeTyped'
    BY <1>1, <2>1, <2>2, <2>4 DEF EdgeTyped
  <2>6. ASSUME NEW fd \in Fds, Watched(fd)', Edge!Readable(fd)' PROVE OnItsWay(fd)'
    <3>1. fd # c
      BY <2>3, <2>4, <2>6 DEF Watched
    <3>2. Watched(fd) /\ Edge!Readable(fd)
      BY <2>1, <2>3, <2>4, <2>6, <3>1 DEF Fds, Watched, Edge!Readable, Edge!Waiting
    <3>3. OnItsWay(fd)
      BY <2>1, <3>2 DEF EdgeInv
    <3> QED
      BY <2>1, <2>2, <2>4, <3>1, <3>3 DEF OnItsWay
  <2>7. \A e \in Elems(events') : e.error => e.fd \in Client /\ over'[e.fd] = "reset"
    BY <2>1, <2>2 DEF EdgeInv
  <2>8. \A d \in Client \ short' : over'[d] # "reset" => answered'[d] + unread'[d] = sent'[d]
    BY <2>1 DEF EdgeInv
  <2>9. \A d \in Client : place'[d] = "closed" /\ over'[d] = "fin" => unread'[d] = 0
    BY <2>1, <2>3, <2>4 DEF EdgeInv
  <2> QED
    BY <2>1, <2>5, <2>6, <2>7, <2>8, <2>9 DEF EdgeInv
<1>3. ASSUME UNCHANGED <<place, sent, unread, answered, over, ready, events, missed, short>>,
             doing' \in {"wait", "walk", "read", "exited"}, doing # "exited",
             (doing' = "wait" => events = <<>>) /\ (doing' = "read" => events # <<>>)
      PROVE  EdgeInv'
  <2>1. EdgeTyped'
    BY <1>1, <1>3 DEF EdgeTyped
  <2>2. ASSUME NEW fd \in Fds, Watched(fd)', Edge!Readable(fd)' PROVE OnItsWay(fd)'
    <3>1. Watched(fd) /\ Edge!Readable(fd)
      BY <1>3, <2>2 DEF Watched, Edge!Readable, Edge!Waiting
    <3>2. OnItsWay(fd)
      BY <1>3, <3>1 DEF EdgeInv
    <3> QED
      BY <1>3, <3>2 DEF OnItsWay
  <2>3. /\ \A e \in Elems(events') : e.error => e.fd \in Client /\ over'[e.fd] = "reset"
        /\ \A d \in Client \ short' : over'[d] # "reset" => answered'[d] + unread'[d] = sent'[d]
        /\ \A d \in Client : place'[d] = "closed" /\ over'[d] = "fin" => unread'[d] = 0
    BY <1>3 DEF EdgeInv
  <2> QED
    BY <1>3, <2>1, <2>2, <2>3 DEF EdgeInv
<1>4. CASE Edge!AcceptFails
  BY <1>3, <1>4 DEF Edge!AcceptFails
<1>5. CASE Edge!Serve
  BY <1>3, <1>5 DEF Edge!Serve
<1>6. CASE Edge!EndOfBatch
  BY <1>3, <1>6 DEF Edge!EndOfBatch
<1> QED
  BY <1>2, <1>4, <1>5, <1>6

LEMMA AcceptKeeps ==
  ASSUME EdgeInv, NEW c \in Client, Edge!Accept(c)
  PROVE  EdgeInv'
<1> DEFINE t == Tail(events)
<1>1. EdgeTyped /\ events \in Seq(Events) /\ ready \in Seq(Fds) /\ c \in Fds /\ c # Listener
      /\ Edge!ToSet(ready) = Elems(ready) /\ Listener \in Fds
  BY ElemsAre, EdgeAssumption DEF EdgeInv, EdgeTyped, Fds
<1>2. /\ doing = "walk" /\ events # <<>> /\ Head(events).fd = Listener /\ c \in Edge!Waiting
      /\ place' = [place EXCEPT ![c] = "served"]
      /\ ready' = IF Edge!Readable(c) THEN Append(ready, c) ELSE ready
      /\ events' = t
      /\ missed' = IF Edge!Waiting # {c} /\ Listener \notin Elems(ready) THEN missed \cup {Listener} ELSE missed
      /\ UNCHANGED <<sent, unread, answered, over, doing, short>>
  BY <1>1 DEF Edge!Accept, Edge!Event
<1>3. t \in Seq(Events) /\ Elems(t) \subseteq Elems(events) /\ EventFds(events) = {Listener} \cup EventFds(t)
  BY <1>1, <1>2, EventsAre
<1> HIDE DEF t
<1>4. /\ place' \in [Client -> {"away", "backlog", "served", "closed"}] /\ place'[c] = "served" /\ place[c] = "backlog"
      /\ \A d \in Client : d # c => place'[d] = place[d]
  BY <1>1, <1>2 DEF EdgeTyped, Edge!Waiting
<1>5. ready' \in Seq(Fds) /\ Elems(ready') = Elems(ready) \cup (IF Edge!Readable(c) THEN {c} ELSE {})
  <2>1. Append(ready, c) \in Seq(Fds) /\ Elems(Append(ready, c)) = Elems(ready) \cup {c}
    BY <1>1, ElemsAppend
  <2>2. CASE Edge!Readable(c)
    <3>1. ready' = Append(ready, c)
      BY <1>2, <2>2
    <3> QED
      BY <2>1, <2>2, <3>1
  <2>3. CASE ~Edge!Readable(c)
    BY <1>1, <1>2, <2>3
  <2> QED
    BY <2>2, <2>3
<1>6. EdgeTyped'
  BY <1>1, <1>2, <1>3, <1>4, <1>5 DEF EdgeTyped
<1>7. ASSUME NEW fd \in Fds, Watched(fd)', Edge!Readable(fd)' PROVE OnItsWay(fd)'
  <2>1. CASE fd = Listener
    <3>1. Edge!Waiting' # {} /\ Edge!Waiting' = Edge!Waiting \ {c}
      BY <1>4, <1>7, <2>1 DEF Edge!Readable, Edge!Waiting
    <3>2. Edge!Waiting # {c}
      BY <3>1
    <3> QED
      BY <1>2, <1>5, <2>1, <3>2 DEF OnItsWay
  <2>2. CASE fd = c
    <3>1. Edge!Readable(c)
      BY <1>1, <1>2, <1>7, <2>2 DEF Edge!Readable
    <3> QED
      BY <1>5, <2>2, <3>1 DEF OnItsWay
  <2>3. CASE fd # Listener /\ fd # c
    <3>1. Watched(fd) /\ Edge!Readable(fd)
      BY <1>2, <1>4, <1>7, <2>3 DEF Fds, Watched, Edge!Readable
    <3>2. OnItsWay(fd)
      BY <1>2, <3>1 DEF EdgeInv
    <3> QED
      BY <1>2, <1>3, <1>5, <2>3, <3>2 DEF OnItsWay
  <2> QED
    BY <2>1, <2>2, <2>3
<1>8. \A e \in Elems(events') : e.error => e.fd \in Client /\ over'[e.fd] = "reset"
  BY <1>2, <1>3 DEF EdgeInv
<1>9. \A d \in Client \ short' : over'[d] # "reset" => answered'[d] + unread'[d] = sent'[d]
  BY <1>2 DEF EdgeInv
<1>10. \A d \in Client : place'[d] = "closed" /\ over'[d] = "fin" => unread'[d] = 0
  BY <1>2, <1>4 DEF EdgeInv
<1> QED
  BY <1>2, <1>6, <1>7, <1>8, <1>9, <1>10 DEF EdgeInv
\* The read loop, and the end of it.
LEMMA ReadLoopKeeps ==
  ASSUME EdgeInv, NEW c \in Client, NEW written \in 0..BufSize, Edge!Read(c, written)
  PROVE  EdgeInv'
<1> DEFINE n == Edge!Min({unread[c], BufSize})
<1>1. /\ EdgeTyped /\ unread[c] \in Nat /\ answered[c] \in Nat /\ sent[c] \in Nat /\ written \in Nat
      /\ place[c] \in {"away", "backlog", "served", "closed"} /\ c # Listener
  BY EdgeAssumption DEF EdgeInv, EdgeTyped
<1>2. /\ doing = "read" /\ c = Head(events).fd /\ unread[c] # 0 /\ written <= n
      /\ unread' = [unread EXCEPT ![c] = @ - n] /\ answered' = [answered EXCEPT ![c] = @ + written]
      /\ short' = (IF written < n THEN short \cup {c} ELSE short)
      /\ doing' = (IF written = 0 THEN "exited" ELSE doing)
      /\ UNCHANGED <<place, sent, over, ready, events, missed>>
  BY DEF Edge!Read, Edge!Event, Edge!NothingLeft
<1>3. n \in Nat /\ n <= unread[c]
  BY <1>1, EdgeMin, EdgeAssumption
<1> HIDE DEF n
<1>4. /\ unread' \in [Client -> Nat] /\ unread'[c] = unread[c] - n /\ unread'[c] <= unread[c]
      /\ answered' \in [Client -> Nat] /\ answered'[c] = answered[c] + written
      /\ \A d \in Client : d # c => unread'[d] = unread[d] /\ answered'[d] = answered[d]
  BY <1>1, <1>2, <1>3 DEF EdgeTyped
<1>5. EdgeTyped'
  BY <1>1, <1>2, <1>4 DEF EdgeTyped
<1>6. ASSUME NEW fd \in Fds, Watched(fd)', Edge!Readable(fd)' PROVE OnItsWay(fd)'
  <2>1. Watched(fd)
    BY <1>2, <1>6 DEF Watched
  <2>2. Edge!Readable(fd)
    <3>1. CASE fd = c
      BY <1>1, <1>2, <1>4, <1>6, <3>1 DEF Edge!Readable
    <3>2. CASE fd # c
      BY <1>2, <1>4, <1>6, <3>2 DEF Fds, Edge!Readable, Edge!Waiting
    <3> QED
      BY <3>1, <3>2
  <2>3. OnItsWay(fd)
    BY <1>2, <2>1, <2>2 DEF EdgeInv
  <2> QED
    BY <1>2, <2>3 DEF OnItsWay
<1>7. \A e \in Elems(events') : e.error => e.fd \in Client /\ over'[e.fd] = "reset"
  BY <1>2 DEF EdgeInv
<1>8. ASSUME NEW d \in Client \ short', over'[d] # "reset" PROVE answered'[d] + unread'[d] = sent'[d]
  <2>1. d \in Client \ short /\ over[d] # "reset" /\ (d = c => ~(written < n))
    BY <1>2, <1>8
  <2>2. answered[d] + unread[d] = sent[d]
    BY <2>1 DEF EdgeInv
  <2>3. CASE d = c
    BY <1>1, <1>2, <1>3, <1>4, <2>1, <2>2, <2>3
  <2>4. CASE d # c
    BY <1>2, <1>4, <2>2, <2>4
  <2> QED
    BY <2>3, <2>4
<1>9. ASSUME NEW d \in Client, place'[d] = "closed" /\ over'[d] = "fin" PROVE unread'[d] = 0
  <2>1. unread[d] = 0
    BY <1>2, <1>9 DEF EdgeInv
  <2> QED
    BY <1>2, <1>4, <2>1
<1>10. (doing' = "wait" => events' = <<>>) /\ (doing' = "read" => events' # <<>>)
  BY <1>2 DEF EdgeInv
<1> QED
  BY <1>2, <1>5, <1>6, <1>7, <1>8, <1>9, <1>10 DEF EdgeInv

LEMMA NothingMoreKeeps ==
  ASSUME EdgeInv, NEW c \in Client, Edge!NothingMore(c)
  PROVE  EdgeInv'
<1> DEFINE t == Tail(events)
<1>1. /\ EdgeTyped /\ events \in Seq(Events) /\ c # Listener /\ over[c] \in {"open", "fin", "reset"}
      /\ unread[c] \in Nat
  BY EdgeAssumption DEF EdgeInv, EdgeTyped
<1>2. /\ doing = "read" /\ c = Head(events).fd /\ unread[c] = 0 /\ events' = <<>>
      /\ Edge!DropRest({e.fd : e \in Edge!ToSet(t)})
      /\ UNCHANGED <<sent, unread, answered, over, short>>
  BY DEF Edge!NothingMore, Edge!Event, Edge!NothingLeft
<1>3. \/ over[c] = "open" /\ doing' = "wait" /\ UNCHANGED <<place, ready>>
      \/ over[c] = "fin" /\ doing' = "wait" /\ Edge!Close(c)
      \/ over[c] = "reset" /\ doing' = "exited" /\ UNCHANGED <<place, ready>>
  BY <1>1 DEF Edge!NothingMore
<1>4. events # <<>>
  BY <1>2 DEF EdgeInv
<1>5. EventFds(events) = {c} \cup EventFds(t) /\ {e.fd : e \in Edge!ToSet(t)} = EventFds(t)
  BY <1>1, <1>2, <1>4, EventsAre
<1> HIDE DEF t
<1>6. /\ place' \in [Client -> {"away", "backlog", "served", "closed"}] /\ ready' \in Seq(Fds)
      /\ \A d \in Client : d # c => place'[d] = place[d]
      /\ Elems(ready) \ {c} \subseteq Elems(ready')
      /\ over[c] = "fin" => place'[c] = "closed"
      /\ over[c] # "fin" => place'[c] = place[c]
  <2>1. CASE over[c] = "fin"
    <3>1. Edge!Close(c)
      BY <1>3, <2>1
    <3> QED
      BY <1>1, <2>1, <3>1, CloseIs
  <2>2. CASE over[c] # "fin"
    BY <1>1, <1>3, <2>2 DEF EdgeTyped
  <2> QED
    BY <2>1, <2>2
<1>7. /\ <<>> \in Seq(Events) /\ Elems(<<>>) = {} /\ doing' \in {"wait", "exited"}
  <2>1. <<>> \in Seq(Events) /\ Len(<<>>) = 0
    BY EmptySeq
  <2>2. Elems(<<>>) = {}
    BY <2>1 DEF Elems
  <2> QED
    BY <1>3, <2>1, <2>2
<1>8. EdgeTyped'
  BY <1>1, <1>2, <1>6, <1>7 DEF EdgeTyped
<1>9. (missed \cup EventFds(t)) \subseteq missed' \cup Elems(ready')
  <2>1. Edge!ToSet(ready') = Elems(ready')
    BY <1>6, ElemsAre
  <2>2. missed' = (missed \cup EventFds(t)) \ Elems(ready')
    BY <1>2, <1>5, <2>1 DEF Edge!DropRest
  <2> QED
    BY <2>2
<1>10. ASSUME doing' # "exited", NEW fd \in Fds, Watched(fd)', Edge!Readable(fd)' PROVE OnItsWay(fd)'
  <2>1. fd # c
    <3>1. over[c] # "reset"
      BY <1>3, <1>10
    <3>2. CASE over[c] = "open"
      <4>1. ~Edge!Readable(c)'
        BY <1>1, <1>2, <3>2 DEF Edge!Readable
      <4> QED
        BY <1>10, <4>1
    <3>3. CASE over[c] = "fin"
      BY <1>1, <1>6, <1>10, <3>3 DEF Watched
    <3> QED
      BY <1>1, <3>1, <3>2, <3>3
  <2>2. Watched(fd)
    BY <1>6, <1>10, <2>1 DEF Fds, Watched
  <2>3. Edge!Readable(fd)
    <3>1. CASE fd = Listener
      <4>1. Edge!Waiting' # {}
        BY <1>10, <3>1 DEF Edge!Readable
      <4>2. PICK d \in Client : place'[d] = "backlog"
        BY <4>1 DEF Edge!Waiting
      <4>3. place[d] = "backlog"
        BY <1>3, <1>6, <4>2
      <4> QED
        BY <3>1, <4>3 DEF Edge!Readable, Edge!Waiting
    <3>2. CASE fd # Listener
      BY <1>2, <1>10, <3>2 DEF Edge!Readable
    <3> QED
      BY <3>1, <3>2
  <2>4. OnItsWay(fd)
    BY <1>2, <2>2, <2>3 DEF EdgeInv
  <2>5. fd \in Elems(ready) \cup missed \cup EventFds(t)
    BY <1>5, <2>1, <2>4 DEF OnItsWay
  <2> QED
    BY <1>6, <1>9, <2>1, <2>5 DEF OnItsWay
<1>11. /\ \A e \in Elems(events') : e.error => e.fd \in Client /\ over'[e.fd] = "reset"
       /\ (doing' = "wait" => events' = <<>>) /\ (doing' = "read" => events' # <<>>)
  BY <1>2, <1>7
<1>12. \A d \in Client \ short' : over'[d] # "reset" => answered'[d] + unread'[d] = sent'[d]
  BY <1>2 DEF EdgeInv
<1>13. ASSUME NEW d \in Client, place'[d] = "closed" /\ over'[d] = "fin" PROVE unread'[d] = 0
  <2>1. CASE d = c
    BY <1>2, <2>1
  <2>2. CASE d # c
    <3>1. place[d] = "closed" /\ over[d] = "fin"
      BY <1>2, <1>6, <1>13, <2>2
    <3> QED
      BY <1>2, <3>1 DEF EdgeInv
  <2> QED
    BY <2>1, <2>2
<1> QED
  BY <1>8, <1>10, <1>11, <1>12, <1>13 DEF EdgeInv

LEMMA EdgeStep == EdgeAssumption /\ EdgeInv /\ Edge!Next => EdgeInv'
<1> SUFFICES ASSUME EdgeInv, Edge!Next PROVE EdgeInv'
  OBVIOUS
<1>1. ASSUME NEW c \in Client, Edge!Connect(c) \/ Edge!Send(c) \/ Edge!End(c, "fin") \/ Edge!End(c, "reset")
      PROVE  EdgeInv'
  BY <1>1, ClientsKeep
<1>2. ASSUME NEW c \in Client, Edge!Accept(c) PROVE EdgeInv'
  BY <1>2, AcceptKeeps
<1>3. ASSUME NEW c \in Client, Edge!NothingMore(c) PROVE EdgeInv'
  BY <1>3, NothingMoreKeeps
<1>4. ASSUME NEW c \in Client, NEW written \in 0..BufSize, Edge!Read(c, written) PROVE EdgeInv'
  BY <1>4, ReadLoopKeeps
<1>5. CASE Edge!EpollWait
  BY <1>5, WaitKeeps
<1>6. CASE Edge!EpollError \/ Edge!AcceptFails \/ Edge!Serve \/ Edge!EndOfBatch
  BY <1>6, WalkKeeps
<1> QED
  BY <1>1, <1>2, <1>3, <1>4, <1>5, <1>6 DEF Edge!Next
-----------------------------------------------------------------------------
(* The numbers of leptjson.                                                *)
Texts == Seq(Number!Character)

\* A run of digits from i on ends at j.
Stops(s, i, j) ==
  j \in Nat /\ j >= i /\ Number!Char(s, j) \notin Number!Digit /\ \A k \in i..(j - 1) : Number!Char(s, k) \in Number!Digit

LEMMA CharIs ==
  ASSUME NEW s \in Texts
  PROVE  /\ Len(s) \in Nat
         /\ \A k \in 1..Len(s) : Number!Char(s, k) = s[k] /\ s[k] \in Number!Character
         /\ \A k \in Nat : k > Len(s) => Number!Char(s, k) = "NUL" /\ "NUL" \notin Number!Digit
         /\ \A k \in Nat : Number!Char(s, k) # "NUL" => k <= Len(s)
<1>1. Len(s) \in Nat /\ \A k \in 1..Len(s) : s[k] \in Number!Character
  BY LenProperties, ElementOfSeq DEF Texts
<1> QED
  BY <1>1 DEF Number!Char, Number!Digit

LEMMA StopsOnce ==
  ASSUME NEW s, NEW i \in Nat, NEW j, NEW k, Stops(s, i, j), Stops(s, i, k)
  PROVE  j = k
<1>1. j \in Nat /\ k \in Nat /\ j >= i /\ k >= i
  BY DEF Stops
<1>2. ~(j < k)
  <2> SUFFICES ASSUME j < k PROVE FALSE
    OBVIOUS
  <2>1. j \in i..(k - 1)
    BY <1>1
  <2> QED
    BY <2>1 DEF Stops
<1>3. ~(k < j)
  <2> SUFFICES ASSUME k < j PROVE FALSE
    OBVIOUS
  <2>1. k \in i..(j - 1)
    BY <1>1
  <2> QED
    BY <2>1 DEF Stops
<1> QED
  BY <1>1, <1>2, <1>3

\* for (; ISDIGIT(*p); p++) ends behind the digits.
LEMMA DigitsIs ==
  ASSUME NEW s \in Texts, NEW p \in Nat
  PROVE  Stops(s, p, Number!Digits(s, p))
<1> DEFINE D(i) == Number!Char(s, i) \in Number!Digit
           Body(f) == [i \in Nat |-> IF D(i) THEN f[i + 1] ELSE i]
           d == CHOOSE f : f = Body(f)
<1>1. Len(s) \in Nat /\ \A k \in Nat : k > Len(s) => ~D(k)
  BY CharIs
<1>2. \A i \in Nat : \E j \in Nat : Stops(s, i, j)
  <2> SUFFICES ASSUME NEW i \in Nat PROVE \E j \in Nat : Stops(s, i, j)
    OBVIOUS
  <2> DEFINE B == {j \in Nat : j >= i /\ ~D(j)}
  <2>1. Len(s) + 1 + i \in B
    <3>1. Len(s) + 1 + i \in Nat /\ Len(s) + 1 + i >= i /\ Len(s) + 1 + i > Len(s)
      BY <1>1
    <3> QED
      BY <1>1, <3>1
  <2>2. B \in SUBSET Nat /\ B # {}
    BY <2>1
  <2>3. PICK j \in B : \A k \in B : j <= k
    <3> HIDE DEF B
    <3> QED BY <2>2, LeastNumber
  <2>4. \A k \in i..(j - 1) : D(k)
    BY <2>3
  <2>5. j \in Nat /\ j >= i /\ ~D(j)
    BY <2>3
  <2> QED
    BY <2>4, <2>5 DEF Stops
<1>3. ASSUME NEW i \in Nat, NEW j, Stops(s, i, j)
      PROVE  IF D(i) THEN j >= i + 1 /\ Stops(s, i + 1, j) ELSE j = i
  <2>1. j \in Nat /\ j >= i /\ ~D(j) /\ \A k \in i..(j - 1) : D(k)
    BY <1>3 DEF Stops
  <2>2. CASE D(i)
    <3>1. j # i
      BY <2>1, <2>2
    <3>2. j >= i + 1 /\ \A k \in (i + 1)..(j - 1) : k \in i..(j - 1)
      BY <2>1, <3>1
    <3> QED
      BY <2>1, <2>2, <3>2 DEF Stops
  <2>3. CASE ~D(i)
    <3>1. i \notin i..(j - 1)
      BY <2>1, <2>3
    <3> QED
      BY <2>1, <2>3, <3>1
  <2> QED
    BY <2>2, <2>3
<1> DEFINE F == [i \in Nat |-> CHOOSE j \in Nat : Stops(s, i, j)]
<1>4. \A i \in Nat : Stops(s, i, F[i])
  BY <1>2
<1>5. F = Body(F)
  <2> SUFFICES ASSUME NEW i \in Nat PROVE F[i] = IF D(i) THEN F[i + 1] ELSE i
    OBVIOUS
  <2> HIDE DEF F, D
  <2>1. CASE D(i)
    <3>1. Stops(s, i + 1, F[i]) /\ Stops(s, i + 1, F[i + 1]) /\ i + 1 \in Nat
      BY <1>3, <1>4, <2>1
    <3> QED
      BY <2>1, <3>1, StopsOnce
  <2>2. CASE ~D(i)
    BY <1>3, <1>4, <2>2
  <2> QED
    BY <2>1, <2>2
<1>6. d = Body(d)
  <2> HIDE DEF Body, F
  <2> QED BY <1>5
<1>7. Number!Digits(s, p) = d[p]
  BY DEF Number!Digits
<1> HIDE DEF d, F
<1>8. \A i \in Nat : d[i] = IF D(i) THEN d[i + 1] ELSE i
  BY <1>6
<1> DEFINE G == {m \in Nat : \A i \in Nat : i + m > Len(s) => d[i] = F[i]}
<1> HIDE DEF D
<1>9. 0 \in G
  <2> SUFFICES ASSUME NEW i \in Nat, i + 0 > Len(s) PROVE d[i] = F[i]
    OBVIOUS
  <2>1. ~D(i)
    BY <1>1
  <2> QED
    BY <1>3, <1>4, <1>8, <2>1
<1>10. ASSUME NEW m \in Nat, m \in G PROVE m + 1 \in G
  <2> SUFFICES ASSUME NEW i \in Nat, i + (m + 1) > Len(s) PROVE d[i] = F[i]
    OBVIOUS
  <2>1. CASE ~D(i)
    BY <1>3, <1>4, <1>8, <2>1
  <2>2. CASE D(i)
    <3>1. i + 1 \in Nat /\ (i + 1) + m > Len(s)
      BY <1>1
    <3>2. d[i + 1] = F[i + 1]
      BY <1>10, <3>1
    <3>3. Stops(s, i + 1, F[i]) /\ Stops(s, i + 1, F[i + 1])
      BY <1>3, <1>4, <2>2, <3>1
    <3>4. F[i] = F[i + 1]
      BY <3>1, <3>3, StopsOnce
    <3> QED
      BY <1>8, <2>2, <3>2, <3>4
  <2> QED
    BY <2>1, <2>2
<1>11. Nat \subseteq G
  <2> HIDE DEF G
  <2> QED BY <1>9, <1>10, Induction
<1>12. Len(s) + 1 \in G /\ p + (Len(s) + 1) > Len(s)
  <2>1. Len(s) + 1 \in Nat /\ p + (Len(s) + 1) > Len(s)
    BY <1>1
  <2> HIDE DEF G
  <2> QED BY <1>11, <2>1
<1>13. d[p] = F[p]
  BY <1>12
<1> QED
  BY <1>4, <1>7, <1>13

-----------------------------------------------------------------------------
\* A part of a text, by its places.
DigitsIn(s, i, j) == i < j /\ \A k \in i..(j - 1) : s[k] \in Number!Digit
IntAt(s, i, j)  == DigitsIn(s, i, j) /\ (s[i] = "0" => j = i + 1)
FracAt(s, i, j) == i = j \/ (i < j /\ s[i] = "." /\ DigitsIn(s, i + 1, j))
ExpAt(s, i, j)  ==
  \/ i = j
  \/ i < j /\ s[i] = "e" /\ (DigitsIn(s, i + 1, j) \/ (s[i + 1] \in {"+", "-"} /\ DigitsIn(s, i + 2, j)))

LEMMA CutIs ==
  ASSUME NEW s \in Texts, NEW i \in 1 .. Len(s) + 1, NEW j \in i .. Len(s) + 1
  PROVE  /\ Number!Cut(s, i, j) \in Texts /\ Len(Number!Cut(s, i, j)) = j - i
         /\ \A k \in 1..(j - i) : Number!Cut(s, i, j)[k] = s[i + k - 1]
<1> DEFINE c == Number!Cut(s, i, j)
<1>1. Len(s) \in Nat /\ \A k \in i..(j - 1) : s[k] \in Number!Character
  BY CharIs
<1>2. i \in Int /\ j - 1 \in Int /\ (i <= j - 1 => i \in 1..Len(s) /\ j - 1 \in 1..Len(s))
  BY <1>1
<1>3. /\ SubSeq(s, i, j - 1) \in Seq(Number!Character)
      /\ Len(SubSeq(s, i, j - 1)) = IF i <= j - 1 THEN (j - 1) - i + 1 ELSE 0
      /\ \A k \in 1..((j - 1) - i + 1) : SubSeq(s, i, j - 1)[k] = s[i + k - 1]
  BY <1>1, <1>2, SubSeqProperties
<1>4. (IF i <= j - 1 THEN (j - 1) - i + 1 ELSE 0) = j - i /\ (j - 1) - i + 1 = j - i
  BY <1>1
<1> QED
  BY <1>3, <1>4 DEF Number!Cut, Texts

LEMMA AllDigitsIs ==
  ASSUME NEW s \in Texts, NEW i \in 1 .. Len(s) + 1, NEW j \in i .. Len(s) + 1
  PROVE  Number!AllDigits(Number!Cut(s, i, j)) <=> DigitsIn(s, i, j)
<1> DEFINE c == Number!Cut(s, i, j)
<1>1. c \in Texts /\ Len(c) = j - i /\ \A k \in 1..(j - i) : c[k] = s[i + k - 1]
  BY CutIs
<1>0. Len(s) \in Nat
  BY CharIs
<1>2. DOMAIN c = 1..(j - i) /\ (c = <<>> <=> j - i = 0)
  BY <1>1, LenProperties, EmptySeq DEF Texts
<1> HIDE DEF c
<1>3. ASSUME \A k \in 1..(j - i) : c[k] \in Number!Digit, NEW k \in i..(j - 1) PROVE s[k] \in Number!Digit
  <2>1. k - i + 1 \in 1..(j - i) /\ i + (k - i + 1) - 1 = k
    BY <1>0
  <2>2. c[k - i + 1] = s[k]
    BY <1>1, <2>1
  <2> QED
    BY <1>3, <2>1, <2>2
<1>4. ASSUME \A k \in i..(j - 1) : s[k] \in Number!Digit, NEW k \in 1..(j - i) PROVE c[k] \in Number!Digit
  <2>1. i + k - 1 \in i..(j - 1)
    BY <1>0
  <2> QED
    BY <1>1, <1>4, <2>1
<1>5. j - i = 0 <=> ~(i < j)
  BY <1>0
<1> QED
  BY <1>2, <1>3, <1>4, <1>5 DEF Number!AllDigits, DigitsIn, c

\* A part of a part is a part.
LEMMA CutOfCut ==
  ASSUME NEW s \in Texts, NEW i \in 1 .. Len(s) + 1, NEW j \in i .. Len(s) + 1,
         NEW a \in 1 .. (j - i) + 1, NEW b \in a .. (j - i) + 1
  PROVE  Number!Cut(Number!Cut(s, i, j), a, b) = Number!Cut(s, i + a - 1, i + b - 1)
<1> DEFINE c == Number!Cut(s, i, j)
           x == Number!Cut(c, a, b)
           y == Number!Cut(s, i + a - 1, i + b - 1)
<1>0. Len(s) \in Nat
  BY CharIs
<1>1. c \in Texts /\ Len(c) = j - i /\ \A k \in 1..(j - i) : c[k] = s[i + k - 1]
  BY CutIs
<1> HIDE DEF c
<1>2. x \in Texts /\ Len(x) = b - a /\ \A k \in 1..(b - a) : x[k] = c[a + k - 1]
  <2>1. a \in 1 .. Len(c) + 1 /\ b \in a .. Len(c) + 1
    BY <1>0, <1>1
  <2> QED
    BY <1>1, <2>1, CutIs
<1>3. i + a - 1 \in 1 .. Len(s) + 1 /\ i + b - 1 \in (i + a - 1) .. Len(s) + 1
  BY <1>0
<1>4. /\ y \in Texts /\ Len(y) = (i + b - 1) - (i + a - 1)
      /\ \A k \in 1..((i + b - 1) - (i + a - 1)) : y[k] = s[(i + a - 1) + k - 1]
  BY <1>3, CutIs
<1>5. (i + b - 1) - (i + a - 1) = b - a
  BY <1>0
<1>6. ASSUME NEW k \in 1..(b - a) PROVE x[k] = y[k]
  <2>1. a + k - 1 \in 1..(j - i) /\ i + (a + k - 1) - 1 = (i + a - 1) + k - 1
    BY <1>0
  <2>2. x[k] = c[a + k - 1] /\ c[a + k - 1] = s[i + (a + k - 1) - 1]
    BY <1>1, <1>2, <2>1
  <2>3. y[k] = s[(i + a - 1) + k - 1]
    BY <1>4, <1>5
  <2> QED
    BY <2>1, <2>2, <2>3
<1> HIDE DEF x, y
<1>7. x = y
  BY <1>2, <1>4, <1>5, <1>6, SeqEqual DEF Texts
<1> QED
  BY <1>7 DEF x, y, c

\* The places of a text at which a part may end.
Ends(s, p) == p .. Len(s) + 1

\* One digit and those behind it.
LEMMA RunIs ==
  ASSUME NEW s \in Texts, NEW p \in 1 .. Len(s) + 1, Number!Char(s, p) \in Number!Digit
  PROVE  LET e == Number!Digits(s, p + 1)
         IN /\ e \in Ends(s, p) /\ e > p /\ DigitsIn(s, p, e)
            /\ \A j \in Ends(s, p) : DigitsIn(s, p, j) /\ Number!Char(s, j) \notin Number!Digit => j = e
<1> DEFINE e == Number!Digits(s, p + 1)
           D(k) == Number!Char(s, k) \in Number!Digit
<1>1. /\ Len(s) \in Nat /\ \A k \in 1..Len(s) : Number!Char(s, k) = s[k]
      /\ \A k \in Nat : k > Len(s) => ~D(k)
  BY CharIs
<1>2. p + 1 \in Nat /\ p \in 1..Len(s)
  <2>1. p \in Nat /\ ~(p > Len(s))
    BY <1>1
  <2> QED
    BY <1>1, <2>1
<1>3. Stops(s, p + 1, e)
  BY <1>2, DigitsIs
<1> HIDE DEF e
<1>4. e \in Nat /\ e >= p + 1 /\ ~D(e) /\ \A k \in (p + 1)..(e - 1) : D(k)
  BY <1>3 DEF Stops
<1>5. e <= Len(s) + 1
  <2> SUFFICES ASSUME e > Len(s) + 1 PROVE FALSE
    BY <1>1, <1>4
  <2>1. Len(s) + 1 \in (p + 1)..(e - 1)
    BY <1>1, <1>2, <1>4
  <2>2. ~D(Len(s) + 1)
    <3>1. Len(s) + 1 \in Nat /\ Len(s) + 1 > Len(s)
      BY <1>1
    <3> QED
      BY <1>1, <3>1
  <2> QED
    BY <1>4, <2>1, <2>2
<1>6. DigitsIn(s, p, e)
  <2> SUFFICES ASSUME NEW k \in p..(e - 1) PROVE s[k] \in Number!Digit
    BY <1>2, <1>4 DEF DigitsIn
  <2>1. k \in 1..Len(s) /\ (k = p \/ k \in (p + 1)..(e - 1))
    BY <1>1, <1>2, <1>4, <1>5
  <2>2. D(k)
    BY <1>4, <2>1
  <2> QED
    BY <1>1, <2>1, <2>2
<1>7. ASSUME NEW j \in Ends(s, p), DigitsIn(s, p, j), ~D(j) PROVE j = e
  <2>1. p < j /\ j \in Nat /\ j <= Len(s) + 1 /\ \A k \in p..(j - 1) : s[k] \in Number!Digit
    BY <1>1, <1>2, <1>7 DEF Ends, DigitsIn
  <2>2. ASSUME NEW k \in (p + 1)..(j - 1) PROVE D(k)
    <3>1. k \in 1..Len(s) /\ k \in p..(j - 1)
      BY <1>1, <1>2, <2>1
    <3> QED
      BY <1>1, <2>1, <3>1
  <2>3. Stops(s, p + 1, j)
    BY <1>2, <1>7, <2>1, <2>2 DEF Stops
  <2> QED
    BY <1>2, <1>3, <2>3, StopsOnce
<1>8. e \in Ends(s, p) /\ e > p
  BY <1>1, <1>2, <1>4, <1>5 DEF Ends
<1> QED
  BY <1>6, <1>7, <1>8 DEF e

\* The digits that must be there, or none.
LEMMA SomeIs ==
  ASSUME NEW s \in Texts, NEW p \in 1 .. Len(s) + 1
  PROVE  LET e == Number!Some(s, p)
         IN /\ e = 0 \/ (e \in Ends(s, p) /\ DigitsIn(s, p, e))
            /\ \A j \in Ends(s, p) : DigitsIn(s, p, j) /\ Number!Char(s, j) \notin Number!Digit => j = e
<1>1. /\ Len(s) \in Nat /\ \A k \in 1..Len(s) : Number!Char(s, k) = s[k]
  BY CharIs
<1>2. CASE Number!Char(s, p) \in Number!Digit
  BY <1>2, RunIs DEF Number!Some
<1>3. CASE Number!Char(s, p) \notin Number!Digit
  <2>1. Number!Some(s, p) = 0
    BY <1>3 DEF Number!Some
  <2>2. ASSUME NEW j \in Ends(s, p), DigitsIn(s, p, j) PROVE FALSE
    <3>1. p < j /\ p \in 1..Len(s) /\ p \in p..(j - 1)
      BY <1>1, <2>2 DEF Ends, DigitsIn
    <3>2. Number!Char(s, p) \in Number!Digit
      BY <1>1, <2>2, <3>1 DEF DigitsIn
    <3> QED
      BY <1>3, <3>2
  <2> QED
    BY <2>1, <2>2
<1> QED
  BY <1>2, <1>3

LEMMA IntegerIs ==
  ASSUME NEW s \in Texts, NEW p \in 1 .. Len(s) + 1
  PROVE  LET e == Number!Integer(s, p)
         IN /\ e = 0 \/ (e \in Ends(s, p) /\ IntAt(s, p, e))
            /\ \A j \in Ends(s, p) : IntAt(s, p, j) /\ Number!Char(s, j) \notin Number!Digit => j = e
<1>1. /\ Len(s) \in Nat /\ \A k \in 1..Len(s) : Number!Char(s, k) = s[k] /\ s[k] \in Number!Character
      /\ \A k \in Nat : Number!Char(s, k) # "NUL" => k <= Len(s)
  BY CharIs
<1>2. CASE Number!Char(s, p) = "0"
  <2>1. p \in 1..Len(s) /\ s[p] = "0"
    BY <1>1, <1>2
  <2>2. Number!Integer(s, p) = p + 1
    BY <1>2 DEF Number!Integer
  <2>3. IntAt(s, p, p + 1) /\ p + 1 \in Ends(s, p)
    <3>1. \A k \in p..(p + 1 - 1) : k = p
      BY <2>1
    <3>2. "0" \in Number!Digit
      BY DEF Number!Digit
    <3> QED
      BY <1>1, <2>1, <3>1, <3>2 DEF IntAt, DigitsIn, Ends
  <2>4. \A j \in Ends(s, p) : IntAt(s, p, j) => j = p + 1
    BY <2>1 DEF IntAt
  <2> QED
    BY <2>2, <2>3, <2>4
<1>3. CASE Number!Char(s, p) = "1"
  <2>1. p \in 1..Len(s) /\ s[p] = "1" /\ Number!Char(s, p) \in Number!Digit
    BY <1>1, <1>3 DEF Number!Digit
  <2>2. Number!Integer(s, p) = Number!Digits(s, p + 1)
    BY <1>3 DEF Number!Integer
  <2> QED
    BY <2>1, <2>2, RunIs DEF IntAt
<1>4. CASE Number!Char(s, p) \notin Number!Digit
  <2>1. Number!Integer(s, p) = 0
    BY <1>4 DEF Number!Integer, Number!Digit
  <2>2. ASSUME NEW j \in Ends(s, p), DigitsIn(s, p, j) PROVE FALSE
    <3>1. p < j /\ p \in 1..Len(s) /\ p \in p..(j - 1)
      BY <1>1, <2>2 DEF Ends, DigitsIn
    <3>2. Number!Char(s, p) \in Number!Digit
      BY <1>1, <2>2, <3>1 DEF DigitsIn
    <3> QED
      BY <1>4, <3>2
  <2> QED
    BY <2>1, <2>2 DEF IntAt
<1> QED
  BY <1>2, <1>3, <1>4 DEF Number!Digit

LEMMA FractionIs ==
  ASSUME NEW s \in Texts, NEW p \in 1 .. Len(s) + 1
  PROVE  LET e == Number!Fraction(s, p)
         IN /\ e = 0 \/ (e \in Ends(s, p) /\ FracAt(s, p, e))
            /\ \A j \in Ends(s, p) :
                 FracAt(s, p, j) /\ Number!Char(s, j) \notin Number!Digit \cup {"."} => j = e
<1>1. /\ Len(s) \in Nat /\ \A k \in 1..Len(s) : Number!Char(s, k) = s[k]
      /\ \A k \in Nat : Number!Char(s, k) # "NUL" => k <= Len(s)
  BY CharIs
<1>2. CASE Number!Char(s, p) = "."
  <2>1. p \in 1..Len(s) /\ s[p] = "." /\ p + 1 \in 1 .. Len(s) + 1
    BY <1>1, <1>2
  <2>2. Number!Fraction(s, p) = Number!Some(s, p + 1)
    BY <1>2 DEF Number!Fraction
  <2> DEFINE e == Number!Some(s, p + 1)
  <2>3. /\ e = 0 \/ (e \in Ends(s, p + 1) /\ DigitsIn(s, p + 1, e))
        /\ \A j \in Ends(s, p + 1) : DigitsIn(s, p + 1, j) /\ Number!Char(s, j) \notin Number!Digit => j = e
    BY <2>1, SomeIs
  <2> HIDE DEF e
  <2>4. e = 0 \/ (e \in Ends(s, p) /\ FracAt(s, p, e))
    BY <1>1, <2>1, <2>3 DEF Ends, FracAt
  <2>5. ASSUME NEW j \in Ends(s, p), FracAt(s, p, j), Number!Char(s, j) \notin Number!Digit \cup {"."} PROVE j = e
    <3>1. j # p
      BY <1>2, <2>5
    <3>2. p < j /\ DigitsIn(s, p + 1, j)
      BY <2>5, <3>1 DEF FracAt
    <3>3. j \in Ends(s, p + 1)
      BY <1>1, <2>1, <3>2 DEF Ends
    <3> QED
      BY <2>3, <2>5, <3>2, <3>3
  <2> QED
    BY <2>2, <2>4, <2>5 DEF e
<1>3. CASE Number!Char(s, p) # "."
  <2>1. Number!Fraction(s, p) = p
    BY <1>3 DEF Number!Fraction
  <2>2. p \in Ends(s, p) /\ FracAt(s, p, p)
    BY <1>1 DEF Ends, FracAt
  <2>3. ASSUME NEW j \in Ends(s, p), FracAt(s, p, j), j # p PROVE FALSE
    <3>1. p < j /\ s[p] = "." /\ p \in 1..Len(s)
      BY <1>1, <2>3 DEF FracAt, Ends
    <3> QED
      BY <1>1, <1>3, <3>1
  <2> QED
    BY <2>1, <2>2, <2>3
<1> QED
  BY <1>2, <1>3

LEMMA ExponentIs ==
  ASSUME NEW s \in Texts, NEW p \in 1 .. Len(s) + 1
  PROVE  LET e == Number!Exponent(s, p)
         IN /\ e = 0 \/ (e \in Ends(s, p) /\ ExpAt(s, p, e))
            /\ ExpAt(s, p, Len(s) + 1) => e = Len(s) + 1
<1>1. /\ Len(s) \in Nat /\ \A k \in 1..Len(s) : Number!Char(s, k) = s[k]
      /\ \A k \in Nat : Number!Char(s, k) # "NUL" => k <= Len(s)
      /\ \A k \in Nat : k > Len(s) => Number!Char(s, k) = "NUL" /\ "NUL" \notin Number!Digit
  BY CharIs
<1> DEFINE last == Len(s) + 1
<1>2. CASE Number!Char(s, p) = "e"
  <2>1. p \in 1..Len(s) /\ s[p] = "e" /\ p + 1 \in 1..last
    BY <1>1, <1>2
  <2> DEFINE q == Number!Skip(s, p + 1, {"+", "-"})
             e == Number!Some(s, q)
  <2>2. Number!Exponent(s, p) = e
    BY <1>2 DEF Number!Exponent
  <2>3. /\ q \in 1..last
        /\ q = p + 1 \/ (q = p + 2 /\ s[p + 1] \in {"+", "-"})
        /\ (p + 1 <= Len(s) /\ s[p + 1] \in {"+", "-"}) => q = p + 2
        /\ (p + 1 <= Len(s) /\ s[p + 1] \notin {"+", "-"}) => q = p + 1
    <3>1. CASE Number!Char(s, p + 1) \in {"+", "-"}
      <4>1. p + 1 \in 1..Len(s) /\ q = p + 1 + 1
        BY <1>1, <2>1, <3>1 DEF Number!Skip
      <4> QED
        BY <1>1, <2>1, <3>1, <4>1
    <3>2. CASE Number!Char(s, p + 1) \notin {"+", "-"}
      <4>1. q = p + 1
        BY <3>2 DEF Number!Skip
      <4>2. p + 1 <= Len(s) => p + 1 \in 1..Len(s)
        BY <1>1, <2>1
      <4> QED
        BY <1>1, <2>1, <3>2, <4>1, <4>2
    <3> QED
      BY <3>1, <3>2
  <2> HIDE DEF q
  <2>4. /\ e = 0 \/ (e \in Ends(s, q) /\ DigitsIn(s, q, e))
        /\ \A j \in Ends(s, q) : DigitsIn(s, q, j) /\ Number!Char(s, j) \notin Number!Digit => j = e
    BY <2>3, SomeIs
  <2> HIDE DEF e
  <2>5. e = 0 \/ (e \in Ends(s, p) /\ ExpAt(s, p, e))
    BY <1>1, <2>1, <2>3, <2>4 DEF Ends, ExpAt
  <2>6. ASSUME ExpAt(s, p, last) PROVE e = last
    <3>1. Number!Char(s, last) \notin Number!Digit /\ last \in Nat
      <4>1. last \in Nat /\ last > Len(s)
        BY <1>1
      <4> QED
        BY <1>1, <4>1
    <3>2. p # last
      BY <1>1, <2>1
    <3>3. DigitsIn(s, q, last)
      <4>1. CASE DigitsIn(s, p + 1, last)
        <5>1. p + 1 \in (p + 1)..(last - 1) /\ p + 1 <= Len(s)
          BY <1>1, <2>1, <4>1 DEF DigitsIn
        <5>2. s[p + 1] \in Number!Digit
          BY <4>1, <5>1 DEF DigitsIn
        <5>3. q = p + 1
          BY <2>3, <5>1, <5>2 DEF Number!Digit
        <5> QED
          BY <4>1, <5>3
      <4>2. CASE s[p + 1] \in {"+", "-"} /\ DigitsIn(s, p + 2, last)
        <5>1. p + 1 <= Len(s)
          BY <1>1, <2>1, <4>2 DEF DigitsIn
        <5> QED
          BY <2>3, <4>2, <5>1
      <4> QED
        BY <2>6, <3>2, <4>1, <4>2 DEF ExpAt
    <3>4. last \in Ends(s, q)
      BY <1>1, <2>3 DEF Ends
    <3> QED
      BY <2>4, <3>1, <3>3, <3>4
  <2> QED
    BY <2>2, <2>5, <2>6
<1>3. CASE Number!Char(s, p) # "e"
  <2>1. Number!Exponent(s, p) = p
    BY <1>3 DEF Number!Exponent
  <2>2. p \in Ends(s, p) /\ ExpAt(s, p, p)
    BY <1>1 DEF Ends, ExpAt
  <2>3. ASSUME ExpAt(s, p, last), p # last PROVE FALSE
    <3>1. s[p] = "e" /\ p \in 1..Len(s)
      BY <1>1, <2>3 DEF ExpAt
    <3> QED
      BY <1>1, <1>3, <3>1
  <2> QED
    BY <2>1, <2>2, <2>3
<1> QED
  BY <1>2, <1>3

LEMMA TailIs ==
  ASSUME NEW s \in Texts, NEW i \in 1 .. Len(s) + 1, NEW j \in i .. Len(s) + 1, i < j
  PROVE  Tail(Number!Cut(s, i, j)) = Number!Cut(s, i + 1, j) /\ Number!Cut(s, i, j)[1] = s[i]
<1> DEFINE c == Number!Cut(s, i, j)
           x == Number!Cut(s, i + 1, j)
           t == Tail(c)
<1>0. Len(s) \in Nat /\ i + 1 \in 1 .. Len(s) + 1 /\ j \in (i + 1) .. Len(s) + 1
  BY CharIs
<1>1. c \in Texts /\ Len(c) = j - i /\ \A k \in 1..(j - i) : c[k] = s[i + k - 1]
  BY CutIs
<1>2. x \in Texts /\ Len(x) = j - (i + 1) /\ \A k \in 1..(j - (i + 1)) : x[k] = s[(i + 1) + k - 1]
  BY <1>0, CutIs
<1> HIDE DEF c, x
<1>3. c # <<>>
  <2>1. Len(c) # 0
    BY <1>0, <1>1
  <2> QED
    BY <2>1, EmptySeq
<1>4. t \in Texts /\ Len(t) = Len(c) - 1 /\ \A k \in 1 .. Len(c) - 1 : t[k] = c[k + 1]
  BY <1>1, <1>3, HeadTailProperties DEF Texts
<1> HIDE DEF t
<1>5. ASSUME NEW k \in 1..Len(t) PROVE t[k] = x[k]
  <2>1. k \in 1 .. Len(c) - 1 /\ k + 1 \in 1..(j - i) /\ k \in 1..(j - (i + 1)) /\ i + (k + 1) - 1 = (i + 1) + k - 1
    BY <1>0, <1>1, <1>4
  <2>2. t[k] = c[k + 1] /\ c[k + 1] = s[i + (k + 1) - 1] /\ x[k] = s[(i + 1) + k - 1]
    BY <1>1, <1>2, <1>4, <2>1
  <2> QED
    BY <2>1, <2>2
<1>6. Len(t) = Len(x)
  BY <1>0, <1>1, <1>2, <1>4
<1>7. t = x
  BY <1>2, <1>4, <1>5, <1>6, SeqEqual DEF Texts
<1>8. c[1] = s[i]
  <2>1. 1 \in 1..(j - i) /\ i + 1 - 1 = i
    BY <1>0
  <2> QED
    BY <1>1, <2>1
<1> QED
  BY <1>7, <1>8 DEF t, c, x

\* The parts of the grammar, by places.
LEMMA IntIs ==
  ASSUME NEW s \in Texts, NEW i \in 1 .. Len(s) + 1, NEW j \in i .. Len(s) + 1
  PROVE  Number!IsInt(Number!Cut(s, i, j)) <=> IntAt(s, i, j)
<1> DEFINE c == Number!Cut(s, i, j)
<1>0. Len(s) \in Nat
  BY CharIs
<1>1. Number!AllDigits(c) <=> DigitsIn(s, i, j)
  BY AllDigitsIs
<1>2. Len(c) = j - i /\ (i < j => c[1] = s[i])
  BY CutIs, TailIs
<1> HIDE DEF c
<1>3. j - i = 1 <=> j = i + 1
  BY <1>0
<1>4. Number!IsInt(c) <=> Number!AllDigits(c) /\ (c[1] = "0" => Len(c) = 1)
  BY DEF Number!IsInt
<1>5. DigitsIn(s, i, j) => i < j
  BY DEF DigitsIn
<1> QED
  BY <1>1, <1>2, <1>3, <1>4, <1>5 DEF IntAt, c

LEMMA EmptyCut ==
  ASSUME NEW s \in Texts, NEW i \in 1 .. Len(s) + 1, NEW j \in i .. Len(s) + 1
  PROVE  Number!Cut(s, i, j) = <<>> <=> i = j
<1>1. Number!Cut(s, i, j) \in Texts /\ Len(Number!Cut(s, i, j)) = j - i /\ Len(s) \in Nat
  BY CutIs, CharIs
<1> DEFINE c == Number!Cut(s, i, j)
<1> HIDE DEF c
<1>2. c = <<>> <=> Len(c) = 0
  BY <1>1, EmptySeq DEF Texts, c
<1>3. j - i = 0 <=> i = j
  BY <1>1
<1> QED
  BY <1>1, <1>2, <1>3 DEF c

LEMMA FracIs ==
  ASSUME NEW s \in Texts, NEW i \in 1 .. Len(s) + 1, NEW j \in i .. Len(s) + 1
  PROVE  Number!IsFrac(Number!Cut(s, i, j)) <=> FracAt(s, i, j)
<1> DEFINE c == Number!Cut(s, i, j)
<1>0. Len(s) \in Nat /\ (i = j \/ i < j)
  BY CharIs
<1>1. c = <<>> <=> i = j
  BY EmptyCut
<1>2. CASE i = j
  BY <1>1, <1>2 DEF FracAt, Number!IsFrac
<1>3. CASE i < j
  <2>1. i + 1 \in 1 .. Len(s) + 1 /\ j \in (i + 1) .. Len(s) + 1 /\ i # j
    BY <1>0, <1>3
  <2>2. Tail(c) = Number!Cut(s, i + 1, j) /\ c[1] = s[i]
    BY <1>3, TailIs
  <2>3. Number!AllDigits(Tail(c)) <=> DigitsIn(s, i + 1, j)
    BY <2>1, <2>2, AllDigitsIs
  <2> HIDE DEF c
  <2>4. Number!IsFrac(c) <=> c = <<>> \/ (c[1] = "." /\ Number!AllDigits(Tail(c)))
    BY DEF Number!IsFrac
  <2> QED
    BY <1>1, <1>3, <2>1, <2>2, <2>3, <2>4 DEF FracAt, c
<1> QED
  BY <1>0, <1>2, <1>3

LEMMA ExpIs ==
  ASSUME NEW s \in Texts, NEW i \in 1 .. Len(s) + 1, NEW j \in i .. Len(s) + 1
  PROVE  Number!IsExp(Number!Cut(s, i, j)) <=> ExpAt(s, i, j)
<1> DEFINE c == Number!Cut(s, i, j)
           Signed == Len(c) >= 3 /\ c[2] \in {"+", "-"} /\ Number!AllDigits(SubSeq(c, 3, Len(c)))
<1>0. Len(s) \in Nat /\ (i = j \/ i < j)
  BY CharIs
<1>1. c = <<>> <=> i = j
  BY EmptyCut
<1>2. CASE i = j
  BY <1>1, <1>2 DEF ExpAt, Number!IsExp
<1>3. CASE i < j
  <2>1. i + 1 \in 1 .. Len(s) + 1 /\ j \in (i + 1) .. Len(s) + 1 /\ i # j
    BY <1>0, <1>3
  <2>2. Tail(c) = Number!Cut(s, i + 1, j) /\ c[1] = s[i]
    BY <1>3, TailIs
  <2>3. Number!AllDigits(Tail(c)) <=> DigitsIn(s, i + 1, j)
    BY <2>1, <2>2, AllDigitsIs
  <2>4. c \in Texts /\ Len(c) = j - i /\ \A k \in 1..(j - i) : c[k] = s[i + k - 1]
    BY CutIs
  <2>5. Signed <=> (s[i + 1] \in {"+", "-"} /\ DigitsIn(s, i + 2, j))
    <3>1. CASE j - i >= 3
      <4>1. /\ 3 \in 1 .. (j - i) + 1 /\ (j - i) + 1 \in 3 .. (j - i) + 1 /\ i + 2 \in 1 .. Len(s) + 1
            /\ j \in (i + 2) .. Len(s) + 1 /\ i + 3 - 1 = i + 2 /\ i + ((j - i) + 1) - 1 = j
            /\ (j - i) + 1 - 1 = j - i /\ 2 \in 1..(j - i) /\ i + 2 - 1 = i + 1
        BY <1>0, <3>1
      <4>2. Number!Cut(c, 3, (j - i) + 1) = Number!Cut(s, i + 3 - 1, i + ((j - i) + 1) - 1)
        BY <4>1, CutOfCut
      <4>3. Number!Cut(c, 3, (j - i) + 1) = SubSeq(c, 3, j - i)
        BY <4>1 DEF Number!Cut
      <4> HIDE DEF c
      <4>4. SubSeq(c, 3, Len(c)) = Number!Cut(s, i + 2, j)
        BY <2>4, <4>1, <4>2, <4>3
      <4>5. Number!AllDigits(SubSeq(c, 3, Len(c))) <=> DigitsIn(s, i + 2, j)
        BY <4>1, <4>4, AllDigitsIs
      <4>6. c[2] = s[i + 1]
        BY <2>4, <4>1
      <4> QED
        BY <2>4, <3>1, <4>5, <4>6
    <3>2. CASE ~(j - i >= 3)
      <4>1. ~DigitsIn(s, i + 2, j)
        BY <1>0, <3>2 DEF DigitsIn
      <4>2. ~(Len(c) >= 3)
        BY <2>4, <3>2
      <4> QED
        BY <4>1, <4>2
    <3> QED
      BY <3>1, <3>2
  <2>6. Number!IsExp(c) <=> c = <<>> \/ (c[1] = "e" /\ (Number!AllDigits(Tail(c)) \/ Signed))
    BY DEF Number!IsExp
  <2> HIDE DEF c, Signed
  <2> QED
    BY <1>1, <1>3, <2>1, <2>2, <2>3, <2>5, <2>6 DEF ExpAt, c
<1> QED
  BY <1>0, <1>2, <1>3

\* A number has its parts at these places.
PartsAt(s, i, j, k) ==
  /\ i \in {1, 2} /\ i \in 1 .. Len(s) + 1 /\ j \in i .. Len(s) + 1 /\ k \in j .. Len(s) + 1
  /\ i = 2 => s[1] = "-"
  /\ IntAt(s, i, j) /\ FracAt(s, j, k) /\ ExpAt(s, k, Len(s) + 1)

LEMMA IsNumberIs ==
  ASSUME NEW s \in Texts
  PROVE  Number!IsNumber(s) <=> \E i, j, k : PartsAt(s, i, j, k)
<1> DEFINE n == Len(s)
           A(i, j, k) == /\ i <= j /\ j <= k
                         /\ i = 2 => s[1] = "-"
                         /\ Number!IsInt(Number!Cut(s, i, j)) /\ Number!IsFrac(Number!Cut(s, j, k))
                         /\ Number!IsExp(Number!Cut(s, k, n + 1))
<1>0. n \in Nat
  BY CharIs
<1>1. ASSUME NEW i \in {1, 2}, NEW j \in 1 .. n + 1, NEW k \in 1 .. n + 1, i <= j, j <= k
      PROVE  A(i, j, k) <=> PartsAt(s, i, j, k)
  <2>1. i \in 1 .. n + 1 /\ j \in i .. n + 1 /\ k \in j .. n + 1 /\ n + 1 \in k .. n + 1
    BY <1>0, <1>1
  <2>2. /\ Number!IsInt(Number!Cut(s, i, j)) <=> IntAt(s, i, j)
        /\ Number!IsFrac(Number!Cut(s, j, k)) <=> FracAt(s, j, k)
        /\ Number!IsExp(Number!Cut(s, k, n + 1)) <=> ExpAt(s, k, n + 1)
    BY <2>1, IntIs, FracIs, ExpIs
  <2> QED
    BY <1>1, <2>1, <2>2 DEF PartsAt
<1>2. \A i, j, k : PartsAt(s, i, j, k) =>
        i \in {1, 2} /\ j \in 1 .. n + 1 /\ k \in 1 .. n + 1 /\ i <= j /\ j <= k
  BY <1>0 DEF PartsAt
<1>3. Number!IsNumber(s) <=> \E i \in {1, 2}, j, k \in 1 .. n + 1 : A(i, j, k)
  BY DEF Number!IsNumber
<1>4. \A i, j, k : A(i, j, k) => i <= j /\ j <= k
  OBVIOUS
<1> HIDE DEF A
<1> QED
  BY <1>1, <1>2, <1>3, <1>4

LEMMA ParsesIs ==
  ASSUME NEW s \in Texts
  PROVE  Number!ParseNumber(s) = Len(s) + 1 <=> \E i, j, k : PartsAt(s, i, j, k)
<1> DEFINE n == Len(s)
           p == Number!Skip(s, 1, {"-"})
           i == Number!Integer(s, p)
           f == IF i = 0 THEN 0 ELSE Number!Fraction(s, i)
<1>1. /\ n \in Nat /\ \A k \in 1..n : Number!Char(s, k) = s[k]
      /\ \A k \in Nat : Number!Char(s, k) # "NUL" => k <= n
      /\ \A k \in Nat : k > n => Number!Char(s, k) = "NUL"
  BY CharIs
<1>2. /\ p \in {1, 2} /\ p \in 1 .. n + 1 /\ (p = 2 => s[1] = "-" /\ 1 <= n)
      /\ (1 <= n /\ s[1] = "-" => p = 2)
  <2>1. CASE Number!Char(s, 1) \in {"-"}
    <3>1. 1 \in 1..n /\ p = 1 + 1
      BY <1>1, <2>1 DEF Number!Skip
    <3> QED
      BY <1>1, <2>1, <3>1
  <2>2. CASE Number!Char(s, 1) \notin {"-"}
    <3>1. p = 1
      BY <2>2 DEF Number!Skip
    <3>2. 1 <= n => 1 \in 1..n
      BY <1>1
    <3> QED
      BY <1>1, <2>2, <3>1, <3>2
  <2> QED
    BY <2>1, <2>2
<1> HIDE DEF p
<1>3. /\ i = 0 \/ (i \in Ends(s, p) /\ IntAt(s, p, i))
      /\ \A j \in Ends(s, p) : IntAt(s, p, j) /\ Number!Char(s, j) \notin Number!Digit => j = i
  BY <1>2, IntegerIs
<1>4. Number!ParseNumber(s) = IF f = 0 THEN 0 ELSE Number!Exponent(s, f)
  BY DEF Number!ParseNumber, p
<1> HIDE DEF i
<1>5. ASSUME i # 0
      PROVE  /\ i \in 1 .. n + 1 /\ f = Number!Fraction(s, i)
             /\ f = 0 \/ (f \in Ends(s, i) /\ FracAt(s, i, f))
             /\ \A j \in Ends(s, i) :
                  FracAt(s, i, j) /\ Number!Char(s, j) \notin Number!Digit \cup {"."} => j = f
  <2>1. i \in 1 .. n + 1
    BY <1>1, <1>2, <1>3, <1>5 DEF Ends
  <2> QED
    BY <1>5, <2>1, FractionIs
<1> HIDE DEF f
<1>6. ASSUME i # 0, f # 0
      PROVE  /\ f \in 1 .. n + 1
             /\ Number!Exponent(s, f) = 0 \/ ExpAt(s, f, Number!Exponent(s, f))
             /\ ExpAt(s, f, n + 1) => Number!Exponent(s, f) = n + 1
  <2>1. f \in 1 .. n + 1
    BY <1>1, <1>5, <1>6 DEF Ends
  <2> QED
    BY <2>1, ExponentIs
<1>7. ASSUME Number!ParseNumber(s) = n + 1 PROVE \E x, y, z : PartsAt(s, x, y, z)
  <2>1. f # 0 /\ Number!Exponent(s, f) = n + 1
    BY <1>1, <1>4, <1>7
  <2>2. i # 0
    BY <2>1 DEF f
  <2>3. ExpAt(s, f, n + 1)
    BY <1>1, <1>6, <2>1, <2>2
  <2>4. i \in p .. n + 1 /\ f \in i .. n + 1
    BY <1>3, <1>5, <2>1, <2>2 DEF Ends
  <2>5. PartsAt(s, p, i, f)
    BY <1>2, <1>3, <1>5, <2>1, <2>2, <2>3, <2>4 DEF PartsAt
  <2> QED
    BY <2>5
<1>8. ASSUME NEW x, NEW y, NEW z, PartsAt(s, x, y, z) PROVE Number!ParseNumber(s) = n + 1
  <2>1. /\ x \in {1, 2} /\ y \in x .. n + 1 /\ z \in y .. n + 1 /\ x < y /\ x <= n
        /\ (x = 2 => s[1] = "-") /\ IntAt(s, x, y) /\ FracAt(s, y, z) /\ ExpAt(s, z, n + 1)
        /\ s[x] \in Number!Digit
    BY <1>1, <1>8 DEF PartsAt, IntAt, DigitsIn
  <2>2. x = p
    <3>1. CASE x = 1
      <4>1. 1 <= n /\ s[1] # "-"
        BY <2>1, <3>1 DEF Number!Digit
      <4> QED
        BY <1>2, <3>1, <4>1
    <3>2. CASE x = 2
      <4>1. 1 <= n /\ s[1] = "-"
        BY <1>1, <2>1, <3>2
      <4> QED
        BY <1>2, <3>2, <4>1
    <3> QED
      BY <2>1, <3>1, <3>2
  <2>3. Number!Char(s, z) \in {"e", "NUL"}
    <3>1. CASE z = n + 1
      <4>1. z \in Nat /\ z > n
        BY <1>1, <3>1
      <4> QED
        BY <1>1, <4>1
    <3>2. CASE z # n + 1
      <4>1. s[z] = "e" /\ z \in 1..n
        BY <1>1, <2>1, <3>2 DEF ExpAt
      <4> QED
        BY <1>1, <4>1
    <3> QED
      BY <3>1, <3>2
  <2>4. Number!Char(s, y) \notin Number!Digit
    <3>1. CASE z = y
      BY <2>3, <3>1 DEF Number!Digit
    <3>2. CASE z # y
      <4>1. s[y] = "." /\ y \in 1..n
        BY <1>1, <2>1, <3>2 DEF FracAt
      <4> QED
        BY <1>1, <4>1 DEF Number!Digit
    <3> QED
      BY <3>1, <3>2
  <2>5. y = i /\ i # 0
    <3>1. y \in Ends(s, p) /\ y # 0
      BY <1>1, <2>1, <2>2 DEF Ends
    <3> QED
      BY <1>3, <2>1, <2>2, <2>4, <3>1
  <2>6. z = f /\ f # 0
    <3>1. z \in Ends(s, i) /\ z # 0
      BY <1>1, <2>1, <2>5 DEF Ends
    <3>2. Number!Char(s, z) \notin Number!Digit \cup {"."}
      BY <2>3 DEF Number!Digit
    <3> QED
      BY <1>5, <2>1, <2>5, <3>1, <3>2
  <2> QED
    BY <1>4, <1>6, <2>1, <2>5, <2>6
<1> QED
  BY <1>7, <1>8

\* strtod takes the digits and the point of a number.
LEMMA MantissaIs ==
  ASSUME NEW s \in Texts, NEW i \in 1 .. Len(s) + 1, NEW j \in i .. Len(s) + 1, NEW k \in j .. Len(s) + 1,
         IntAt(s, i, j), FracAt(s, j, k)
  PROVE  Number!IsMantissa(Number!Cut(s, i, k))
<1> DEFINE c == Number!Cut(s, i, k)
<1>0. Len(s) \in Nat /\ k \in i .. Len(s) + 1 /\ i < j
  BY CharIs DEF IntAt, DigitsIn
<1>1. c \in Texts /\ Len(c) = k - i /\ \A a \in 1..(k - i) : c[a] = s[i + a - 1]
  BY <1>0, CutIs
<1>2. DOMAIN c = 1..(k - i)
  BY <1>1, LenProperties DEF Texts
<1> HIDE DEF c
<1>3. ASSUME NEW x \in i..(k - 1) PROVE s[x] \in Number!Digit \/ (s[x] = "." /\ x = j)
  <2>1. CASE x < j
    <3>1. x \in i..(j - 1)
      BY <1>0, <2>1
    <3> QED
      BY <3>1 DEF IntAt, DigitsIn
  <2>2. CASE ~(x < j)
    <3>1. j < k /\ s[j] = "." /\ DigitsIn(s, j + 1, k)
      BY <1>0, <2>2 DEF FracAt
    <3>2. x = j \/ x \in (j + 1)..(k - 1)
      BY <1>0, <2>2
    <3> QED
      BY <3>1, <3>2 DEF DigitsIn
  <2> QED
    BY <2>1, <2>2
<1>4. ASSUME NEW a \in 1..(k - i) PROVE c[a] = s[i + a - 1] /\ i + a - 1 \in i..(k - 1)
  BY <1>0, <1>1
<1>5. 1 \in 1..(k - i) /\ c[1] \in Number!Digit
  <2>1. 1 \in 1..(k - i) /\ i + 1 - 1 = i /\ i \in i..(j - 1)
    BY <1>0
  <2> QED
    BY <1>1, <2>1 DEF IntAt, DigitsIn
<1>6. ASSUME NEW a \in 1..(k - i), NEW b \in 1..(k - i)
      PROVE  c[a] \in Number!Digit \/ (c[a] = "." /\ (c[b] = "." => b = a))
  <2>1. /\ c[a] \in Number!Digit \/ (c[a] = "." /\ i + a - 1 = j)
        /\ c[b] \in Number!Digit \/ (c[b] = "." /\ i + b - 1 = j)
    BY <1>3, <1>4
  <2>2. "." \notin Number!Digit
    BY DEF Number!Digit
  <2>3. i + a - 1 = j /\ i + b - 1 = j => b = a
    BY <1>0
  <2> QED
    BY <2>1, <2>2, <2>3
<1> QED
  BY <1>2, <1>5, <1>6 DEF Number!IsMantissa, c

LEMMA UnsignedIs ==
  ASSUME NEW s \in Texts, NEW i, NEW j, NEW k, PartsAt(s, i, j, k)
  PROVE  Number!IsUnsigned(Number!Cut(s, i, Len(s) + 1))
<1> DEFINE n == Len(s)
           t == Number!Cut(s, i, n + 1)
           m == k - i + 1
<1>0. /\ n \in Nat /\ i \in 1 .. n + 1 /\ j \in i .. n + 1 /\ k \in j .. n + 1 /\ k \in i .. n + 1
      /\ k \in 1 .. n + 1 /\ n + 1 \in k .. n + 1 /\ n + 1 \in i .. n + 1
  BY CharIs DEF PartsAt
<1>1. t \in Texts /\ Len(t) = n + 1 - i
  <2>1. t \in Texts /\ Len(t) = (n + 1) - i
    <3>1. i \in 1 .. Len(s) + 1 /\ Len(s) + 1 \in i .. Len(s) + 1
      BY <1>0
    <3> QED
      BY <3>1, CutIs
  <2> HIDE DEF t
  <2> QED
    BY <2>1, <1>0
<1>2. /\ m \in 1 .. (n + 1 - i) + 1 /\ 1 \in 1 .. (n + 1 - i) + 1 /\ m \in 1 .. (n + 1 - i) + 1
      /\ (n + 1 - i) + 1 \in m .. (n + 1 - i) + 1 /\ i + 1 - 1 = i /\ i + m - 1 = k
      /\ i + ((n + 1 - i) + 1) - 1 = n + 1
  BY <1>0
<1>3. Number!Cut(t, 1, m) = Number!Cut(s, i + 1 - 1, i + m - 1)
  BY <1>0, <1>2, CutOfCut
<1>4. Number!Cut(t, m, (n + 1 - i) + 1) = Number!Cut(s, i + m - 1, i + ((n + 1 - i) + 1) - 1)
  BY <1>0, <1>2, CutOfCut
<1> HIDE DEF t, m
<1>5. Number!Cut(t, 1, m) = Number!Cut(s, i, k) /\ Number!Cut(t, m, Len(t) + 1) = Number!Cut(s, k, n + 1)
  BY <1>1, <1>2, <1>3, <1>4
<1>6. Number!IsMantissa(Number!Cut(s, i, k))
  BY <1>0, MantissaIs DEF PartsAt
<1>7. Number!IsExp(Number!Cut(s, k, n + 1))
  BY <1>0, ExpIs DEF PartsAt
<1>8. m \in 1 .. Len(t) + 1
  BY <1>1, <1>2
<1>9. Number!IsUnsigned(t)
  BY <1>5, <1>6, <1>7, <1>8 DEF Number!IsUnsigned
<1> QED
  BY <1>9 DEF t

LEMMA DoubleIs ==
  ASSUME NEW s \in Texts, Number!IsNumber(s)
  PROVE  Number!IsDouble(s)
<1>1. PICK i, j, k : PartsAt(s, i, j, k)
  BY IsNumberIs
<1>2. Number!IsUnsigned(Number!Cut(s, i, Len(s) + 1))
  BY <1>1, UnsignedIs
<1>3. Len(s) \in Nat /\ Len(s) # 0 /\ i \in {1, 2} /\ (i = 2 => s[1] = "-")
  BY <1>1, CharIs DEF PartsAt, IntAt, DigitsIn
<1>4. s # <<>>
  BY <1>3, EmptySeq
<1>5. Number!Cut(s, 1, Len(s) + 1) = s
  <2>1. Len(s) + 1 - 1 = Len(s)
    BY <1>3
  <2> QED
    BY <2>1, SubSeqFull DEF Number!Cut, Texts
<1>6. CASE i = 1
  <2>1. Number!IsUnsigned(s)
    BY <1>2, <1>5, <1>6
  <2> QED
    BY <1>4, <2>1 DEF Number!IsDouble
<1>7. CASE i = 2
  <2>1. 1 \in 1 .. Len(s) + 1 /\ Len(s) + 1 \in 1 .. Len(s) + 1 /\ 1 < Len(s) + 1 /\ 1 + 1 = 2
    BY <1>3
  <2>2. Tail(s) = Number!Cut(s, 2, Len(s) + 1)
    BY <1>5, <2>1, TailIs
  <2>3. Number!IsUnsigned(Tail(s))
    BY <1>2, <1>7, <2>2
  <2> QED
    BY <1>3, <1>4, <1>7, <2>3 DEF Number!IsDouble
<1> QED
  BY <1>3, <1>6, <1>7

NumberInv == number \in Texts

LEMMA NumberInvImplies == NumberInv => Number!NumberReadOnce
<1> SUFFICES ASSUME number \in Texts PROVE Number!NumberReadOnce
  BY DEF NumberInv
<1> DEFINE n == Len(number)
           ends == {m \in 0..n : m > 0 => Number!IsDouble(SubSeq(number, 1, m))}
<1>0. n \in Nat
  BY CharIs
<1>1. Number!ParseNumber(number) = n + 1 <=> Number!IsNumber(number)
  BY IsNumberIs, ParsesIs
<1>2. ASSUME Number!IsNumber(number) PROVE Number!Strtod(number) = n
  <2>1. Number!IsDouble(SubSeq(number, 1, n))
    <3>1. SubSeq(number, 1, n) = number
      BY SubSeqFull DEF Texts
    <3> QED
      BY <1>2, <3>1, DoubleIs
  <2>2. n \in ends /\ ends \subseteq 0..n
    BY <1>0, <2>1
  <2>3. Number!Strtod(number) = CHOOSE m \in ends : \A k \in ends : k <= m
    BY DEF Number!Strtod
  <2> HIDE DEF ends
  <2>4. \A m \in ends : (\A k \in ends : k <= m) => m = n
    BY <1>0, <2>2
  <2>5. \A k \in ends : k <= n
    BY <1>0, <2>2
  <2> QED
    BY <2>2, <2>3, <2>4, <2>5
<1> QED
  BY <1>1, <1>2 DEF Number!NumberReadOnce

LEMMA NumberInitHolds == Number!Init => NumberInv
BY EmptySeq DEF Number!Init, NumberInv, Texts

LEMMA NumberStep == NumberInv /\ Number!Next => NumberInv'
BY AppendProperties DEF Number!Next, NumberInv, Texts
-----------------------------------------------------------------------------
(* The programs together.                                                  *)
ProgramsInv == PollInv /\ FramesInv /\ LinesInv /\ EdgeInv /\ CalcInv /\ NumberInv

LEMMA ProgramsInitHolds == ProgramsInit => ProgramsInv
BY PollInitHolds, FramesInitHolds, LinesInitHolds, EdgeInitHolds, CalcInitHolds,
   NumberInitHolds, PollerAssumption, FramesAssumption, LinesAssumption, EdgeAssumption,
   CalculatorAssumption
   DEF ProgramsInit, ProgramsInv

\* What a program keeps, a step of another leaves alone.
LEMMA PollUntouched == PollInv /\ UNCHANGED arrayVars => PollInv'
BY DEF PollInv, arrayVars, OneSlot, EmptiedBehind, AheadOf, Served

LEMMA FramesUntouched == FramesInv /\ UNCHANGED frameVars => FramesInv'
BY DEF FramesInv, FramesTyped, StreamIs, Current, frameVars, Framed!Asked

LEMMA LinesUntouched == LinesInv /\ UNCHANGED lineVars => LinesInv'
BY DEF LinesInv, lineVars

LEMMA EdgeUntouched == EdgeInv /\ UNCHANGED edgeVars => EdgeInv'
BY DEF EdgeInv, EdgeTyped, Watched, OnItsWay, edgeVars, Edge!Readable, Edge!Waiting

LEMMA CalcUntouched == CalcInv /\ UNCHANGED calcVars => CalcInv'
BY DEF CalcInv, calcVars, Calc!Shows

LEMMA NumberUntouched == NumberInv /\ UNCHANGED number => NumberInv'
BY DEF NumberInv

LEMMA ProgramsStep == ProgramsInv /\ [ProgramsNext]_programVars => ProgramsInv'
<1> SUFFICES ASSUME ProgramsInv, [ProgramsNext]_programVars PROVE ProgramsInv'
  OBVIOUS
<1>1. PollInv /\ FramesInv /\ LinesInv /\ EdgeInv /\ CalcInv /\ NumberInv
  BY DEF ProgramsInv
<1>2. PollInv'
  <2>1. Poller!Next \/ UNCHANGED arrayVars
    BY DEF ProgramsNext, InArray, InFrames, InLines, InEdge, InKeys, InNumber, programVars
  <2> QED
    BY <1>1, <2>1, PollStep, PollUntouched, PollerAssumption
<1>3. FramesInv'
  <2>1. Framed!Next \/ UNCHANGED frameVars
    BY DEF ProgramsNext, InArray, InFrames, InLines, InEdge, InKeys, InNumber, programVars
  <2> QED
    BY <1>1, <2>1, FramesStep, FramesUntouched, FramesAssumption
<1>4. LinesInv'
  <2>1. Lined!Next \/ UNCHANGED lineVars
    BY DEF ProgramsNext, InArray, InFrames, InLines, InEdge, InKeys, InNumber, programVars
  <2> QED
    BY <1>1, <2>1, LinesStep, LinesUntouched
<1>5. EdgeInv'
  <2>1. Edge!Next \/ UNCHANGED edgeVars
    BY DEF ProgramsNext, InArray, InFrames, InLines, InEdge, InKeys, InNumber, programVars
  <2> QED
    BY <1>1, <2>1, EdgeStep, EdgeUntouched, EdgeAssumption
<1>6. CalcInv'
  <2>1. Calc!Next \/ UNCHANGED calcVars
    BY DEF ProgramsNext, InArray, InFrames, InLines, InEdge, InKeys, InNumber, programVars
  <2> QED
    BY <1>1, <2>1, CalcStep, CalcUntouched
<1>7. NumberInv'
  <2>1. Number!Next \/ UNCHANGED number
    BY DEF ProgramsNext, InArray, InFrames, InLines, InEdge, InKeys, InNumber, programVars
  <2> QED
    BY <1>1, <2>1, NumberStep, NumberUntouched
<1> QED
  BY <1>2, <1>3, <1>4, <1>5, <1>6, <1>7 DEF ProgramsInv

\* The six invariants hold in every state of the programs.
THEOREM ProgramsInvariant == ProgramsSpec => []ProgramsInv
<1>1. ProgramsInit => ProgramsInv
  BY ProgramsInitHolds
<1>2. ProgramsInv /\ [ProgramsNext]_programVars => ProgramsInv'
  BY ProgramsStep
<1> QED
  BY <1>1, <1>2, PTL DEF ProgramsSpec

(* poll_dispatch: each descriptor that poll reported is activated exactly  *)
(* once before the next poll, whatever the callbacks add to the array or   *)
(* take from it during the walk, and a channel is polled through one slot. *)
THEOREM ReadyIsServedOnce == ProgramsSpec => []Poller!ReadyServedOnce
<1>1. ProgramsInv => Poller!ReadyServedOnce
  BY PollInvImplies DEF ProgramsInv
<1> QED
  BY <1>1, ProgramsInvariant, PTL

(* epoll-server-multi: when the loop waits, a client or the listener with  *)
(* something to read is in the kernel's list, unless an event was dropped; *)
(* a client served to the end has its answer to every byte.                *)
THEOREM EdgeIsHeard == ProgramsSpec => []Edge!HeardUnlessMissed
<1>1. ProgramsInv => Edge!HeardUnlessMissed
  BY EdgeInvImplies DEF ProgramsInv
<1> QED
  BY <1>1, ProgramsInvariant, PTL

(* read_message: what the server takes for messages is what the client     *)
(* sent, one for one and in order, wherever the stream is cut into reads.  *)
THEOREM MessagesAreWhole == ProgramsSpec => []Framed!MessagesWhole
<1>1. ProgramsInv => Framed!MessagesWhole
  BY FramesInvImplies DEF ProgramsInv
<1> QED
  BY <1>1, ProgramsInvariant, PTL

(* readline: the records and what readline forgets make up what arrived,   *)
(* and no record is longer than its buffer.                                *)
THEOREM RecordsStayInPlace == ProgramsSpec => []Lined!RecordsInPlace
<1>1. ProgramsInv => Lined!RecordsInPlace
  BY LinesInvImplies DEF ProgramsInv
<1> QED
  BY <1>1, ProgramsInvariant, PTL

(* Calculator: the display tells the operand of the next key, a typed text *)
(* as it is and a result in six digits (calculator.c:22), of which the     *)
(* operand itself keeps all; typed text has one reading; and a number that *)
(* was typed is an operand of an operation, but for an = that repeats the  *)
(* previous operation (calculator.c:130-134).                              *)
THEOREM WorksWithTheDisplay == ProgramsSpec => []Calc!WorksWithWhatIsSeen
<1>1. ProgramsInv => Calc!WorksWithWhatIsSeen
  BY CalcInvImplies DEF ProgramsInv
<1> QED
  BY <1>1, ProgramsInvariant, PTL

(* leptjson: what LEPT_parse_number takes for a number is one, of any      *)
(* length, and strtod then reads exactly the text it was given.            *)
THEOREM NumbersAreRead == ProgramsSpec => []Number!NumberReadOnce
<1>1. ProgramsInv => Number!NumberReadOnce
  BY NumberInvImplies DEF ProgramsInv
<1> QED
  BY <1>1, ProgramsInvariant, PTL

(* Every program serves what it is sent right: the six theorems above in  *)
(* the one property that the run checks.                                   *)
THEOREM ProgramsServeRight == ProgramsSpec => []ServedRight
<1>1. ProgramsInv => ServedRight
  BY PollInvImplies, EdgeInvImplies, FramesInvImplies, LinesInvImplies, CalcInvImplies,
     NumberInvImplies DEF ProgramsInv, ServedRight
<1> QED
  BY <1>1, ProgramsInvariant, PTL
=============================================================================
