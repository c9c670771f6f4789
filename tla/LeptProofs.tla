----------------------------- MODULE LeptProofs -----------------------------
(***************************************************************************)
(* Proofs about Lept, for texts of any length and nesting: the parser      *)
(* keeps its stack, and frees everything it allocated on every error.      *)
(* And about LeptValue: every block of the heap keeps one owner.           *)
(***************************************************************************)
EXTENDS MCLept, SetInduction

\* A sequence, whatever its elements are.
IsSeq(s) == s \in Seq({s[i] : i \in DOMAIN s})

LEMMA SeqDomain == ASSUME NEW s, IsSeq(s) PROVE Len(s) \in Nat /\ DOMAIN s = 1..Len(s)
BY DEF IsSeq

LEMMA SeqOf == ASSUME NEW S, NEW s \in Seq(S) PROVE IsSeq(s)
<1> DEFINE T == {s[i] : i \in DOMAIN s}
<1>1. Len(s) \in Nat /\ DOMAIN s = 1..Len(s)
  OBVIOUS
<1>2. s = [i \in 1..Len(s) |-> s[i]]
  OBVIOUS
<1>3. \A i \in 1..Len(s) : s[i] \in T
  BY <1>1
<1>4. [i \in 1..Len(s) |-> s[i]] \in Seq(T)
  <2> HIDE DEF T
  <2> QED BY <1>1, <1>3
<1> QED BY <1>2, <1>4 DEF IsSeq

LEMMA SeqIn == ASSUME NEW s, IsSeq(s), NEW S, \A i \in 1..Len(s) : s[i] \in S PROVE s \in Seq(S)
<1>1. Len(s) \in Nat /\ DOMAIN s = 1..Len(s) /\ s = [i \in 1..Len(s) |-> s[i]]
  BY DEF IsSeq
<1>2. [i \in 1..Len(s) |-> s[i]] \in Seq(S)
  BY <1>1
<1> QED BY <1>1, <1>2

LEMMA SeqConcat ==
  ASSUME NEW s, NEW t, IsSeq(s), IsSeq(t)
  PROVE  /\ IsSeq(s \o t) /\ Len(s \o t) = Len(s) + Len(t)
         /\ \A i \in 1..Len(s) : (s \o t)[i] = s[i]
         /\ \A i \in 1..Len(t) : (s \o t)[Len(s) + i] = t[i]
<1> DEFINE S == {s[i] : i \in DOMAIN s} \cup {t[i] : i \in DOMAIN t}
<1>1. s \in Seq(S) /\ t \in Seq(S)
  <2>1. \A i \in 1..Len(s) : s[i] \in S
    BY SeqDomain
  <2>2. \A i \in 1..Len(t) : t[i] \in S
    BY SeqDomain
  <2> HIDE DEF S
  <2> QED BY <2>1, <2>2, SeqIn
<1> HIDE DEF S
<1>2. s \o t \in Seq(S)
  BY <1>1
<1>3. IsSeq(s \o t)
  BY <1>2, SeqOf
<1> QED BY <1>1, <1>3

LEMMA SeqOne == ASSUME NEW p PROVE IsSeq(<<p>>) /\ Len(<<p>>) = 1 /\ <<p>>[1] = p
<1>1. <<p>> \in Seq({p})
  OBVIOUS
<1> QED BY <1>1, SeqOf

LEMMA SeqCut ==
  ASSUME NEW s, IsSeq(s), NEW m \in Nat, m <= Len(s)
  PROVE  /\ IsSeq(SubSeq(s, 1, m)) /\ Len(SubSeq(s, 1, m)) = m
         /\ \A i \in 1..m : SubSeq(s, 1, m)[i] = s[i]
         /\ IsSeq(SubSeq(s, m + 1, Len(s))) /\ Len(SubSeq(s, m + 1, Len(s))) = Len(s) - m
         /\ \A i \in 1..Len(s)-m : SubSeq(s, m + 1, Len(s))[i] = s[m + i]
<1> DEFINE S == {s[i] : i \in DOMAIN s}
<1>1. s \in Seq(S) /\ Len(s) \in Nat
  BY DEF IsSeq
<1> HIDE DEF S
<1>2. SubSeq(s, 1, m) \in Seq(S) /\ SubSeq(s, m + 1, Len(s)) \in Seq(S)
  BY <1>1
<1>3. IsSeq(SubSeq(s, 1, m)) /\ IsSeq(SubSeq(s, m + 1, Len(s)))
  BY <1>2, SeqOf
<1>4. Len(SubSeq(s, 1, m)) = m /\ \A i \in 1..m : SubSeq(s, 1, m)[i] = s[i]
  BY <1>1
<1>5. /\ Len(SubSeq(s, m + 1, Len(s))) = Len(s) - m
      /\ \A i \in 1..Len(s)-m : SubSeq(s, m + 1, Len(s))[i] = s[m + i]
  BY <1>1
<1> QED BY <1>3, <1>4, <1>5

LEMMA SeqLast ==
  ASSUME NEW s, IsSeq(s), s # <<>>, NEW c
  PROVE  LET t == [s EXCEPT ![Len(s)] = c]
         IN /\ Len(s) \in Nat \ {0} /\ IsSeq(t) /\ Len(t) = Len(s) /\ t[Len(s)] = c
            /\ \A i \in 1..Len(s)-1 : t[i] = s[i]
<1> DEFINE t == [s EXCEPT ![Len(s)] = c]
           S == {s[i] : i \in DOMAIN s} \cup {c}
<1>1. Len(s) \in Nat \ {0} /\ DOMAIN s = 1..Len(s)
  BY DEF IsSeq
<1>2. s \in Seq(S)
  <2>1. \A i \in 1..Len(s) : s[i] \in S
    BY <1>1
  <2> HIDE DEF S
  <2> QED BY <2>1, SeqIn
<1>3. c \in S
  OBVIOUS
<1> HIDE DEF S
<1>4. t \in Seq(S) /\ Len(t) = Len(s)
  BY <1>1, <1>2, <1>3
<1>5. t[Len(s)] = c /\ \A i \in 1..Len(s)-1 : t[i] = s[i]
  BY <1>1
<1> HIDE DEF t
<1>6. IsSeq(t)
  BY <1>4, SeqOf
<1> QED BY <1>1, <1>4, <1>5, <1>6 DEF t

-----------------------------------------------------------------------------
(* What a sequence of pieces owns.                                         *)
LEMMA OwnedConcat ==
  ASSUME NEW s, NEW t, IsSeq(s), IsSeq(t)
  PROVE  /\ Owned(s \o t) = Owned(s) \cup Owned(t)
         /\ Apart(s) /\ Apart(t) /\ Owned(s) \cap Owned(t) = {} => Apart(s \o t)
<1> DEFINE u == s \o t
<1>1. /\ IsSeq(u) /\ Len(u) = Len(s) + Len(t)
      /\ \A i \in 1..Len(s) : u[i] = s[i]
      /\ \A i \in 1..Len(t) : u[Len(s) + i] = t[i]
  BY SeqConcat
<1>2. /\ Len(s) \in Nat /\ DOMAIN s = 1..Len(s)
      /\ Len(t) \in Nat /\ DOMAIN t = 1..Len(t)
      /\ DOMAIN u = 1..Len(u)
  BY <1>1, SeqDomain
<1> HIDE DEF u
<1>3. \A i \in DOMAIN u : \/ i \in DOMAIN s /\ u[i] = s[i]
                          \/ i - Len(s) \in DOMAIN t /\ u[i] = t[i - Len(s)]
  <2> SUFFICES ASSUME NEW i \in 1..Len(u), ~(i \in 1..Len(s))
               PROVE  i - Len(s) \in 1..Len(t) /\ u[i] = t[i - Len(s)]
    BY <1>1, <1>2
  <2>1. i - Len(s) \in 1..Len(t) /\ i = Len(s) + (i - Len(s))
    BY <1>1, <1>2
  <2> QED BY <2>1, <1>1
<1>4. (\A i \in DOMAIN s : i \in DOMAIN u) /\ (\A i \in DOMAIN t : Len(s) + i \in DOMAIN u)
  BY <1>1, <1>2
<1>5. Owned(u) = Owned(s) \cup Owned(t)
  <2>1. Owned(u) \subseteq Owned(s) \cup Owned(t)
    BY <1>3 DEF Owned
  <2>2. Owned(s) \subseteq Owned(u)
    BY <1>1, <1>2, <1>4 DEF Owned
  <2>3. Owned(t) \subseteq Owned(u)
    BY <1>1, <1>2, <1>4 DEF Owned
  <2> QED BY <2>1, <2>2, <2>3
<1>6. Apart(s) /\ Apart(t) /\ Owned(s) \cap Owned(t) = {} => Apart(u)
  <2> SUFFICES ASSUME Apart(s), Apart(t), Owned(s) \cap Owned(t) = {},
                      NEW i \in DOMAIN u, NEW j \in DOMAIN u, i # j
               PROVE  u[i].owns \cap u[j].owns = {}
    BY DEF Apart
  <2>1. CASE i \in DOMAIN s /\ u[i] = s[i] /\ j \in DOMAIN s /\ u[j] = s[j]
    BY <2>1 DEF Apart
  <2>2. CASE i \in DOMAIN s /\ u[i] = s[i] /\ j - Len(s) \in DOMAIN t /\ u[j] = t[j - Len(s)]
    BY <2>2 DEF Owned
  <2>3. CASE j \in DOMAIN s /\ u[j] = s[j] /\ i - Len(s) \in DOMAIN t /\ u[i] = t[i - Len(s)]
    BY <2>3 DEF Owned
  <2>4. CASE /\ i - Len(s) \in DOMAIN t /\ u[i] = t[i - Len(s)]
             /\ j - Len(s) \in DOMAIN t /\ u[j] = t[j - Len(s)]
    <3>1. i - Len(s) # j - Len(s)
      BY <1>1, <1>2
    <3> QED BY <2>4, <3>1 DEF Apart
  <2> QED BY <1>3, <2>1, <2>2, <2>3, <2>4
<1> QED BY <1>5, <1>6 DEF u

LEMMA OwnedOne == ASSUME NEW p PROVE Owned(<<p>>) = p.owns /\ Apart(<<p>>)
BY SeqOne, SeqDomain DEF Owned, Apart

LEMMA OwnedCut ==
  ASSUME NEW s, IsSeq(s), NEW m \in Nat, m <= Len(s)
  PROVE  LET a == SubSeq(s, 1, m)
             b == SubSeq(s, m + 1, Len(s))
         IN /\ Owned(s) = Owned(a) \cup Owned(b)
            /\ Apart(s) => Apart(a) /\ Owned(a) \cap Owned(b) = {}
<1> DEFINE a == SubSeq(s, 1, m)
           b == SubSeq(s, m + 1, Len(s))
<1>1. /\ IsSeq(a) /\ Len(a) = m /\ \A i \in 1..m : a[i] = s[i]
      /\ IsSeq(b) /\ Len(b) = Len(s) - m /\ \A i \in 1..Len(s)-m : b[i] = s[m + i]
  BY SeqCut
<1>2. /\ Len(s) \in Nat /\ DOMAIN s = 1..Len(s)
      /\ DOMAIN a = 1..m /\ DOMAIN b = 1..Len(s)-m
  BY <1>1, SeqDomain
<1> HIDE DEF a, b
<1>3. \A i \in DOMAIN a : i \in DOMAIN s /\ a[i] = s[i]
  BY <1>1, <1>2
<1>4. \A i \in DOMAIN b : m + i \in DOMAIN s /\ b[i] = s[m + i]
  BY <1>1, <1>2
<1>5. \A i \in DOMAIN s : i \in DOMAIN a \/ (i - m \in DOMAIN b /\ b[i - m] = s[i])
  <2> SUFFICES ASSUME NEW i \in 1..Len(s), ~(i \in 1..m)
               PROVE  i - m \in 1..Len(s)-m /\ b[i - m] = s[i]
    BY <1>2
  <2>1. i - m \in 1..Len(s)-m /\ m + (i - m) = i
    BY <1>2
  <2> QED BY <2>1, <1>1
<1>6. Owned(s) = Owned(a) \cup Owned(b)
  <2>1. Owned(s) \subseteq Owned(a) \cup Owned(b)
    BY <1>3, <1>5 DEF Owned
  <2>2. Owned(a) \subseteq Owned(s)
    BY <1>3 DEF Owned
  <2>3. Owned(b) \subseteq Owned(s)
    BY <1>4 DEF Owned
  <2> QED BY <2>1, <2>2, <2>3
<1>7. ASSUME Apart(s) PROVE Apart(a) /\ Owned(a) \cap Owned(b) = {}
  <2>1. Apart(a)
    BY <1>3, <1>7 DEF Apart
  <2>2. \A i \in DOMAIN a, j \in DOMAIN b : a[i].owns \cap b[j].owns = {}
    <3> SUFFICES ASSUME NEW i \in DOMAIN a, NEW j \in DOMAIN b
                 PROVE  s[i].owns \cap s[m + j].owns = {}
      BY <1>3, <1>4
    <3>1. i # m + j
      BY <1>2
    <3> QED BY <1>3, <1>4, <1>7, <3>1 DEF Apart
  <2> QED BY <2>1, <2>2 DEF Owned
<1> QED BY <1>6, <1>7 DEF a, b

\* Pieces that own nothing.
LEMMA OwnsNothing ==
  ASSUME NEW s, \A i \in DOMAIN s : s[i].owns = {}
  PROVE  Owned(s) = {} /\ Apart(s)
BY DEF Owned, Apart

-----------------------------------------------------------------------------
(* The calls under way.                                                    *)
Frame(c) ==
  /\ c = [fn |-> c.fn, size |-> c.size, key |-> c.key, base |-> c.base]
  /\ c.size \in Nat /\ c.base \in Nat
  /\ c.fn \in {"array", "object"}
  /\ c.fn = "array" => c.key.owns = {}
Frames(cs) == IsSeq(cs) /\ (\A i \in 1..Len(cs) : Frame(cs[i])) /\ Nested(cs)
Without(cs) == SubSeq(cs, 1, Len(cs) - 1)

LEMMA LastIsAppend ==
  ASSUME NEW cs, IsSeq(cs), cs # <<>>, NEW c
  PROVE  [cs EXCEPT ![Len(cs)] = c] = Without(cs) \o <<c>>
<1> DEFINE t == [cs EXCEPT ![Len(cs)] = c]
           o == Without(cs)
           u == o \o <<c>>
<1>1. /\ Len(cs) \in Nat \ {0} /\ IsSeq(t) /\ Len(t) = Len(cs) /\ t[Len(cs)] = c
      /\ \A i \in 1..Len(cs)-1 : t[i] = cs[i]
  BY SeqLast
<1>2. IsSeq(o) /\ Len(o) = Len(cs) - 1 /\ \A i \in 1..Len(cs)-1 : o[i] = cs[i]
  <2>1. Len(cs) - 1 \in Nat /\ Len(cs) - 1 <= Len(cs)
    BY <1>1
  <2> QED BY <2>1, SeqCut DEF Without
<1> HIDE DEF t, o
<1>3. /\ IsSeq(u) /\ Len(u) = Len(o) + 1
      /\ \A i \in 1..Len(o) : u[i] = o[i]
      /\ u[Len(o) + 1] = c
  BY <1>2, SeqConcat, SeqOne
<1> HIDE DEF u
<1>4. \A i \in 1..Len(cs) : t[i] = u[i]
  BY <1>1, <1>2, <1>3
<1>5. t = [i \in 1..Len(cs) |-> t[i]] /\ u = [i \in 1..Len(cs) |-> u[i]]
  <2>1. Len(u) = Len(cs)
    BY <1>1, <1>2, <1>3
  <2> QED BY <2>1, <1>1, <1>3 DEF IsSeq
<1>6. t = u
  BY <1>4, <1>5
<1> QED BY <1>6 DEF t, u, o

LEMMA SeqEmpty == IsSeq(<<>>) /\ Len(<<>>) = 0 /\ Owned(<<>>) = {} /\ Apart(<<>>)
<1>1. <<>> \in Seq({})
  OBVIOUS
<1>2. IsSeq(<<>>)
  BY <1>1, SeqOf
<1> QED BY <1>2, OwnsNothing

LEMMA EmptyIsLen == ASSUME NEW s, IsSeq(s) PROVE s = <<>> <=> Len(s) = 0
BY DEF IsSeq

LEMMA KeysSeq ==
  ASSUME NEW cs, IsSeq(cs)
  PROVE  /\ IsSeq(Keys(cs)) /\ Len(Keys(cs)) = Len(cs)
         /\ \A i \in 1..Len(cs) : Keys(cs)[i] = cs[i].key
<1> DEFINE K == {cs[i].key : i \in DOMAIN cs}
<1>1. Len(cs) \in Nat /\ DOMAIN cs = 1..Len(cs)
  BY SeqDomain
<1>2. Keys(cs) = [i \in 1..Len(cs) |-> cs[i].key]
  BY <1>1 DEF Keys
<1>3. \A i \in 1..Len(cs) : cs[i].key \in K
  BY <1>1
<1> HIDE DEF K
<1>4. Keys(cs) \in Seq(K) /\ Len(Keys(cs)) = Len(cs)
  BY <1>1, <1>2, <1>3
<1> QED BY <1>2, <1>4, SeqOf

\* The calls without the innermost.
LEMMA FramesWithout ==
  ASSUME NEW cs, Frames(cs), cs # <<>>
  PROVE  LET o == Without(cs)
             last == cs[Len(cs)]
         IN /\ Frames(o) /\ Frame(last) /\ Claimed(o) = last.base /\ Claimed(cs) = Mine(last)
            /\ Owned(Keys(cs)) = Owned(Keys(o)) \cup last.key.owns
            /\ Apart(Keys(cs)) => Apart(Keys(o)) /\ Owned(Keys(o)) \cap last.key.owns = {}
<1> DEFINE n == Len(cs)
           o == Without(cs)
           k == Keys(cs)
<1>1. n \in Nat \ {0} /\ IsSeq(cs)
  BY SeqDomain, EmptyIsLen DEF Frames
<1>2. n - 1 \in Nat /\ n - 1 <= n
  BY <1>1
<1>3. IsSeq(o) /\ Len(o) = n - 1 /\ \A i \in 1..n-1 : o[i] = cs[i]
  BY <1>1, <1>2, SeqCut DEF Without
<1>4. Frame(cs[n]) /\ Claimed(cs) = Mine(cs[n])
  BY <1>1 DEF Frames, Claimed
<1>5. Frames(o)
  <2>1. \A i \in 1..n-1 : Frame(o[i])
    BY <1>1, <1>3 DEF Frames
  <2>2. Nested(o)
    BY <1>1, <1>3, EmptyIsLen DEF Frames, Nested
  <2> QED BY <1>3, <2>1, <2>2 DEF Frames
<1>6. Claimed(o) = cs[n].base
  <2>1. CASE n = 1
    <3>1. o = <<>>
      BY <1>3, <2>1, EmptyIsLen
    <3> QED BY <2>1, <3>1 DEF Claimed, Frames, Nested
  <2>2. CASE n # 1
    <3>1. o # <<>> /\ o[Len(o)] = cs[n - 1] /\ n - 1 \in 1..n-1
      BY <1>1, <1>3, <2>2, EmptyIsLen
    <3>2. Mine(cs[n - 1]) = cs[n - 1 + 1].base
      BY <3>1 DEF Frames, Nested
    <3> QED BY <1>1, <3>1, <3>2 DEF Claimed
  <2> QED BY <2>1, <2>2
<1>7. /\ Owned(k) = Owned(Keys(o)) \cup cs[n].key.owns
      /\ Apart(k) => Apart(Keys(o)) /\ Owned(Keys(o)) \cap cs[n].key.owns = {}
  <2>1. IsSeq(k) /\ Len(k) = n /\ \A i \in 1..n : k[i] = cs[i].key
    BY <1>1, KeysSeq
  <2>2. IsSeq(Keys(o)) /\ Len(Keys(o)) = n - 1 /\ \A i \in 1..n-1 : Keys(o)[i] = cs[i].key
    BY <1>3, KeysSeq
  <2>3. DOMAIN k = 1..n /\ DOMAIN Keys(o) = 1..n-1
    BY <2>1, <2>2, SeqDomain
  <2> HIDE DEF k, o, n
  <2>4. 1..n = (1..n-1) \cup {n} /\ n \notin 1..n-1
    BY <1>1
  <2> QED BY <2>1, <2>2, <2>3, <2>4 DEF Owned, Apart
<1> QED BY <1>4, <1>5, <1>6, <1>7

\* The calls with one more.
LEMMA FramesWith ==
  ASSUME NEW cs, Frames(cs), NEW c, Frame(c), c.base = Claimed(cs)
  PROVE  LET t == cs \o <<c>>
         IN /\ Frames(t) /\ t # <<>> /\ t[Len(t)] = c /\ Claimed(t) = Mine(c)
            /\ Owned(Keys(t)) = Owned(Keys(cs)) \cup c.key.owns
            /\ Apart(Keys(cs)) /\ Owned(Keys(cs)) \cap c.key.owns = {} => Apart(Keys(t))
<1> DEFINE n == Len(cs)
           t == cs \o <<c>>
<1>1. IsSeq(cs) /\ n \in Nat
  BY SeqDomain DEF Frames
<1>2. IsSeq(t) /\ Len(t) = n + 1 /\ (\A i \in 1..n : t[i] = cs[i]) /\ t[n + 1] = c
  BY <1>1, SeqConcat, SeqOne
<1>3. t # <<>>
  BY <1>1, <1>2, EmptyIsLen
<1> HIDE DEF t
<1>4. Frames(t)
  <2>1. \A i \in 1..n+1 : Frame(t[i])
    <3> SUFFICES ASSUME NEW i \in 1..n+1 PROVE Frame(t[i])
      OBVIOUS
    <3>1. i \in 1..n \/ i = n + 1
      BY <1>1
    <3> QED BY <3>1, <1>2 DEF Frames
  <2>2. t[1].base = 0
    <3>1. CASE n = 0
      BY <1>1, <1>2, <3>1, EmptyIsLen DEF Claimed
    <3>2. CASE n # 0
      BY <1>1, <1>2, <3>2, EmptyIsLen DEF Frames, Nested
    <3> QED BY <3>1, <3>2
  <2>3. \A i \in 1..n : Mine(t[i]) = t[i + 1].base
    <3> SUFFICES ASSUME NEW i \in 1..n PROVE Mine(t[i]) = t[i + 1].base
      OBVIOUS
    <3>1. CASE i = n
      <4>1. cs # <<>>
        BY <1>1, <3>1, EmptyIsLen
      <4> QED BY <1>2, <3>1, <4>1 DEF Claimed
    <3>2. CASE i # n
      <4>1. i \in 1..n-1 /\ i + 1 \in 1..n
        BY <1>1, <3>2
      <4> QED BY <1>2, <4>1 DEF Frames, Nested
    <3> QED BY <3>1, <3>2
  <2> QED BY <1>1, <1>2, <2>1, <2>2, <2>3 DEF Frames, Nested
<1>5. /\ Owned(Keys(t)) = Owned(Keys(cs)) \cup c.key.owns
      /\ Apart(Keys(cs)) /\ Owned(Keys(cs)) \cap c.key.owns = {} => Apart(Keys(t))
  <2>1. IsSeq(Keys(cs)) /\ Len(Keys(cs)) = n /\ \A i \in 1..n : Keys(cs)[i] = cs[i].key
    BY <1>1, KeysSeq
  <2>2. IsSeq(Keys(t)) /\ Len(Keys(t)) = n + 1 /\ \A i \in 1..n+1 : Keys(t)[i] = t[i].key
    BY <1>2, KeysSeq
  <2>3. DOMAIN Keys(cs) = 1..n /\ DOMAIN Keys(t) = 1..n+1
    BY <2>1, <2>2, SeqDomain
  <2>4. 1..n+1 = (1..n) \cup {n + 1} /\ n + 1 \notin 1..n
    BY <1>1
  <2>5. (\A i \in 1..n : Keys(t)[i] = Keys(cs)[i]) /\ Keys(t)[n + 1] = c.key
    BY <1>2, <2>1, <2>2, <2>4
  <2> HIDE DEF n
  <2> QED BY <2>3, <2>4, <2>5 DEF Owned, Apart
<1> QED BY <1>2, <1>3, <1>4, <1>5 DEF t, Claimed

-----------------------------------------------------------------------------
(* The inductive invariant.  What a state of the parser says of the        *)
(* innermost call:                                                         *)
InnermostIs ==
  /\ at \in {"root", "done"} => calls = <<>>
  /\ at \in {"first", "firstkey", "key", "keystring", "colon", "more"} => calls # <<>>
  /\ at \in {"first", "firstkey"} => Innermost.size = 0
  /\ at \in {"first", "firstkey", "key", "keystring", "more"} => Innermost.key.owns = {}
  /\ at \in {"key", "firstkey", "keystring"} => Innermost.fn = "object"
\* What the characters of a string own, and the value before it is returned.
NothingYet ==
  /\ InString => \A i \in head+1..Len(stack) : stack[i].owns = {}
  /\ at \notin {"root", "done"} => v.owns = {}
  /\ at # "done" => ret # "ROOT_NOT_SINGULAR"
Sequences_ ==
  /\ Frames(calls) /\ IsSeq(stack) /\ head \in Nat /\ live \subseteq Block
IInv == Sequences_ /\ InnermostIs /\ NothingYet /\ Balanced /\ OwnedOnce

LEMMA NullOwnsNothing == Null.owns = {}
BY DEF Null, Piece

LEMMA FreshIsNew ==
  ASSUME live \subseteq Block, live # Block
  PROVE  Fresh \in Block /\ Fresh \notin live
BY DEF Fresh

LEMMA CallFrame ==
  ASSUME NEW call, Frame(call), NEW n \in Nat, NEW key, call.fn = "array" => key.owns = {}
  PROVE  LET c == Call(call.fn, n, key, call.base)
         IN Frame(c) /\ c.fn = call.fn /\ c.size = n /\ c.key = key /\ c.base = call.base
BY DEF Frame, Call

\* A call returns `value', which owns what the stack and the keys do not.
LEMMA ReturnedKeeps ==
  ASSUME NEW cs, NEW st, NEW value,
         Frames(cs), IsSeq(st), Len(st) = Claimed(cs),
         OwnersApart(cs, st, value.owns),
         live' = Owned(st) \cup Owned(Keys(cs)) \cup value.owns, live' \subseteq Block,
         v.owns = {}, head' \in Nat, ret' # "ROOT_NOT_SINGULAR",
         Returned(value, cs, st)
  PROVE  IInv'
<1>1. CASE cs = <<>>
  <2>1. /\ at' = "root" /\ v' = value /\ calls' = cs /\ stack' = st
    BY <1>1 DEF Returned
  <2>2. st = <<>>
    BY <1>1, EmptyIsLen DEF Claimed
  <2>3. Sequences_' /\ InnermostIs' /\ NothingYet'
    BY <1>1, <2>1 DEF Sequences_, InnermostIs, NothingYet, InString
  <2>4. Balanced'
    BY <1>1, <2>1, <2>2, SeqEmpty DEF Balanced, InString, Claimed, Nested
  <2>5. OwnedOnce'
    BY <2>1 DEF OwnedOnce
  <2> QED BY <2>3, <2>4, <2>5 DEF IInv
<1>2. CASE cs # <<>>
  <2> DEFINE call == cs[Len(cs)]
             o == Without(cs)
             item == IF call.fn = "array" THEN value ELSE Member(call.key, value)
             c == Call(call.fn, call.size + 1, Null, call.base)
  <2>1. /\ at' = "more" /\ calls' = [cs EXCEPT ![Len(cs)] = c]
        /\ stack' = st \o <<item>> /\ v' = v
    BY <1>2 DEF Returned, Push
  <2>2. /\ Frames(o) /\ Frame(call) /\ Claimed(o) = call.base /\ Claimed(cs) = Mine(call)
        /\ Owned(Keys(cs)) = Owned(Keys(o)) \cup call.key.owns
        /\ Apart(Keys(o)) /\ Owned(Keys(o)) \cap call.key.owns = {}
    <3>1. Apart(Keys(cs))
      BY DEF OwnersApart
    <3> QED BY ONLY <1>2, <3>1, Frames(cs), FramesWithout
  <2>3. /\ Frame(c) /\ c.key.owns = {} /\ c.base = Claimed(o) /\ Mine(c) = Mine(call) + 1
    <3> HIDE DEF call, o
    <3>1. call.size + 1 \in Nat
      BY <2>2 DEF Frame
    <3>2. /\ Frame(c) /\ c.size = call.size + 1 /\ c.key = Null /\ c.base = call.base
      BY <2>2, <3>1, NullOwnsNothing, CallFrame
    <3> HIDE DEF c
    <3> QED BY <2>2, <3>2, NullOwnsNothing DEF Mine, Frame
  <2>4. calls' = o \o <<c>>
    BY <1>2, <2>1, LastIsAppend DEF Frames
  <2>5. item.owns = value.owns \cup call.key.owns
    BY <2>2 DEF Member, Piece, Frame
  <2> HIDE DEF item, c, o, call
  <2>6. /\ Frames(calls') /\ calls' # <<>> /\ calls'[Len(calls')] = c /\ Claimed(calls') = Mine(c)
        /\ Owned(Keys(calls')) = Owned(Keys(o)) /\ Apart(Keys(calls'))
    BY <2>2, <2>3, <2>4, FramesWith
  <2>7. /\ IsSeq(stack') /\ Len(stack') = Claimed(calls')
        /\ Owned(stack') = Owned(st) \cup item.owns /\ Apart(stack')
    <3>1. IsSeq(stack') /\ Len(stack') = Len(st) + 1
      BY <2>1, SeqConcat, SeqOne
    <3>2. Owned(st) \cap item.owns = {} /\ Apart(st)
      BY <2>2, <2>5 DEF OwnersApart
    <3>3. Owned(stack') = Owned(st) \cup item.owns /\ Apart(stack')
      BY <2>1, <3>2, SeqOne, OwnedOne, OwnedConcat
    <3> QED BY <2>2, <2>3, <2>6, <3>1, <3>3
  <2>8. Sequences_' /\ InnermostIs' /\ NothingYet'
    BY <2>1, <2>3, <2>6, <2>7 DEF Sequences_, InnermostIs, NothingYet, InString, Innermost
  <2>9. Balanced'
    BY <2>1, <2>6, <2>7 DEF Balanced, InString, Frames
  <2>10. OwnedOnce'
    BY <2>1, <2>2, <2>5, <2>6, <2>7 DEF OwnedOnce, OwnersApart
  <2> QED BY <2>8, <2>9, <2>10 DEF IInv
<1> QED BY <1>1, <1>2

\* Nothing that the invariant speaks of changes.
LEMMA SameKeeps ==
  ASSUME IInv, UNCHANGED <<at, calls, head, stack, live, v, ret>> PROVE IInv'
BY DEF IInv, Sequences_, InnermostIs, NothingYet, Balanced, OwnedOnce, InString, Innermost

\* The parser looks for something else, outside a string.
LEMMA LooksKeeps ==
  ASSUME IInv, UNCHANGED <<calls, head, stack, live, v, ret>>, ~InString, at \notin {"root", "done"},
         \/ at' \in {"value", "unwind"}
         \/ at' = "key" /\ at = "more" /\ Innermost.fn = "object"
  PROVE  IInv'
<1>1. Sequences_'
  BY DEF IInv, Sequences_
<1>2. InnermostIs'
  BY DEF IInv, InnermostIs, Innermost
<1>3. NothingYet'
  BY DEF IInv, NothingYet, InString
<1>4. Balanced'
  BY DEF IInv, Balanced, InString
<1>5. OwnedOnce'
  BY DEF IInv, OwnedOnce
<1> QED BY <1>1, <1>2, <1>3, <1>4, <1>5 DEF IInv

LEMMA FailKeeps ==
  ASSUME IInv, NEW code, code # "ROOT_NOT_SINGULAR", Fail(code, stack),
         ~InString, at \notin {"root", "done"}
  PROVE  IInv'
<1>1. Sequences_' /\ InnermostIs'
  BY DEF IInv, Sequences_, InnermostIs, Fail
<1>2. NothingYet' /\ Balanced'
  BY DEF IInv, NothingYet, Balanced, InString, Fail
<1>3. OwnedOnce'
  BY DEF IInv, OwnedOnce, NothingYet, Fail
<1> QED BY <1>1, <1>2, <1>3 DEF IInv

LEMMA OpensStringKeeps ==
  ASSUME IInv, OpenString \/ OpenKey PROVE IInv'
<1>1. /\ at \in {"value", "first", "key", "firstkey"} /\ at' \in {"string", "keystring"}
      /\ at' = "keystring" => at \in {"key", "firstkey"}
      /\ head' = Len(stack) /\ UNCHANGED <<calls, stack, live, v, ret>>
  BY DEF OpenString, OpenKey, AtValue, AtKey
<1>2. Len(stack) \in Nat
  BY SeqDomain DEF IInv, Sequences_
<1>3. Sequences_'
  BY <1>1, <1>2 DEF IInv, Sequences_
<1>4. InnermostIs'
  BY <1>1 DEF IInv, InnermostIs, Innermost
<1>5. NothingYet'
  BY <1>1, <1>2 DEF IInv, NothingYet, InString
<1>6. Balanced'
  BY <1>1, <1>2 DEF IInv, Balanced, InString
<1>7. OwnedOnce'
  BY <1>1 DEF IInv, OwnedOnce
<1> QED BY <1>3, <1>4, <1>5, <1>6, <1>7 DEF IInv

\* A call begins: its pieces come on top of those that are there.
LEMMA OpenKeeps ==
  ASSUME IInv, OpenArray \/ OpenObject PROVE IInv'
<1> DEFINE fn == IF at' = "first" THEN "array" ELSE "object"
           c == Call(fn, 0, Null, Len(stack))
<1>1. /\ at \in {"value", "first"} /\ at' \in {"first", "firstkey"}
      /\ calls' = calls \o <<c>> /\ UNCHANGED <<head, stack, live, v, ret>>
  BY DEF OpenArray, OpenObject, Open, AtValue
<1>2. /\ Frame(c) /\ c.base = Len(stack) /\ Mine(c) = Len(stack) /\ c.size = 0
      /\ c.key.owns = {} /\ c.fn = fn
  <2>1. Len(stack) \in Nat
    BY SeqDomain DEF IInv, Sequences_
  <2> QED BY <2>1, NullOwnsNothing DEF Frame, Call, Mine
<1> HIDE DEF c
<1>3. Len(stack) = Claimed(calls) /\ Frames(calls) /\ IsSeq(stack)
  BY <1>1 DEF IInv, Balanced, Sequences_, InString
<1>5. /\ Frames(calls') /\ calls' # <<>> /\ calls'[Len(calls')] = c /\ Claimed(calls') = Mine(c)
      /\ Owned(Keys(calls')) = Owned(Keys(calls))
      /\ Apart(Keys(calls)) => Apart(Keys(calls'))
  <2> DEFINE t == calls \o <<c>>
  <2>1. c.base = Claimed(calls) /\ Owned(Keys(calls)) \cap c.key.owns = {}
    BY <1>2, <1>3
  <2>2. /\ Frames(t) /\ t # <<>> /\ t[Len(t)] = c /\ Claimed(t) = Mine(c)
        /\ Owned(Keys(t)) = Owned(Keys(calls)) \cup c.key.owns
        /\ Apart(Keys(calls)) => Apart(Keys(t))
    BY <1>2, <1>3, <2>1, FramesWith
  <2> HIDE DEF t
  <2>3. calls' = t
    BY <1>1 DEF t
  <2> QED BY <1>2, <2>2, <2>3
<1>6. Sequences_'
  BY <1>1, <1>5 DEF IInv, Sequences_
<1>7. InnermostIs'
  BY <1>1, <1>2, <1>5 DEF InnermostIs, Innermost
<1>8. NothingYet'
  BY <1>1 DEF IInv, NothingYet, InString
<1>9. Balanced'
  BY <1>1, <1>2, <1>3, <1>5 DEF Balanced, InString, Frames
<1>10. OwnedOnce'
  BY <1>1, <1>5 DEF IInv, OwnedOnce, OwnersApart
<1> QED BY <1>6, <1>7, <1>8, <1>9, <1>10 DEF IInv

-----------------------------------------------------------------------------
(* Strings.                                                                *)
LEMMA CharsOwnNothing ==
  ASSUME NEW t
  PROVE  IsSeq(Chars(t)) /\ (\A i \in DOMAIN Chars(t) : Chars(t)[i].owns = {})
<1>1. IsSeq(Bytes(t))
  <2>1. CASE t = "u"
    <3>1. <<"u1", "u2", "u3">> \in Seq({"u1", "u2", "u3"})
      OBVIOUS
    <3> QED BY <2>1, <3>1, SeqOf DEF Bytes
  <2>2. CASE t # "u"
    BY <2>2, SeqOne DEF Bytes
  <2> QED BY <2>1, <2>2
<1> DEFINE S == {Chars(t)[i] : i \in DOMAIN Chars(t)}
<1>2. DOMAIN Bytes(t) = 1..Len(Bytes(t)) /\ Len(Bytes(t)) \in Nat
  BY <1>1, SeqDomain
<1>3. Chars(t) = [i \in 1..Len(Bytes(t)) |-> Piece(<<Bytes(t)[i]>>, {}, 1)]
  BY <1>2 DEF Chars
<1>4. \A i \in 1..Len(Bytes(t)) : Piece(<<Bytes(t)[i]>>, {}, 1) \in S
  BY <1>3
<1> HIDE DEF S
<1>5. Chars(t) \in Seq(S)
  BY <1>2, <1>3, <1>4
<1>6. \A i \in DOMAIN Chars(t) : Chars(t)[i].owns = {}
  BY <1>3 DEF Piece
<1> QED BY <1>5, <1>6, SeqOf

LEMMA StringCharKeeps ==
  ASSUME IInv, NEW t, StringChar(t) PROVE IInv'
<1>1. /\ InString /\ stack' = stack \o Chars(t) /\ UNCHANGED <<at, calls, head, live, v, ret>>
  BY DEF StringChar, Push
<1>2. IsSeq(stack) /\ head \in Nat /\ head <= Len(stack) /\ head = Claimed(calls)
  BY <1>1 DEF IInv, Sequences_, Balanced
<1>3. /\ IsSeq(stack') /\ Len(stack') = Len(stack) + Len(Chars(t))
      /\ \A i \in 1..Len(stack) : stack'[i] = stack[i]
      /\ \A i \in 1..Len(Chars(t)) : stack'[Len(stack) + i] = Chars(t)[i]
      /\ Owned(stack') = Owned(stack) /\ (Apart(stack) => Apart(stack'))
  <2> DEFINE c == Chars(t)
  <2>1. IsSeq(c) /\ Owned(c) = {} /\ Apart(c)
    BY CharsOwnNothing, OwnsNothing
  <2> HIDE DEF c
  <2>2. /\ IsSeq(stack \o c) /\ Len(stack \o c) = Len(stack) + Len(c)
        /\ \A i \in 1..Len(stack) : (stack \o c)[i] = stack[i]
        /\ \A i \in 1..Len(c) : (stack \o c)[Len(stack) + i] = c[i]
    BY <1>2, <2>1, SeqConcat
  <2>3. Owned(stack \o c) = Owned(stack) /\ (Apart(stack) => Apart(stack \o c))
    BY <1>2, <2>1, OwnedConcat
  <2>4. stack' = stack \o c
    BY <1>1 DEF c
  <2> QED BY <2>2, <2>3, <2>4 DEF c
<1>4. /\ Len(Chars(t)) \in Nat /\ DOMAIN Chars(t) = 1..Len(Chars(t))
      /\ Len(stack) \in Nat
  BY <1>2, CharsOwnNothing, SeqDomain
<1>5. Sequences_' /\ InnermostIs'
  BY <1>1, <1>3 DEF IInv, Sequences_, InnermostIs, Innermost
<1>6. NothingYet'
  <2>1. \A i \in head+1..Len(stack') : stack'[i].owns = {}
    <3> SUFFICES ASSUME NEW i \in head+1..Len(stack') PROVE stack'[i].owns = {}
      OBVIOUS
    <3>1. CASE i <= Len(stack)
      <4>1. i \in head+1..Len(stack) /\ i \in 1..Len(stack)
        BY <1>2, <1>3, <1>4, <3>1
      <4> QED BY <1>1, <1>3, <4>1 DEF IInv, NothingYet
    <3>2. CASE ~(i <= Len(stack))
      <4>1. i - Len(stack) \in 1..Len(Chars(t)) /\ i = Len(stack) + (i - Len(stack))
        BY <1>2, <1>3, <1>4, <3>2
      <4>2. stack'[i] = Chars(t)[i - Len(stack)]
        BY <1>3, <4>1
      <4> QED BY <1>4, <4>1, <4>2, CharsOwnNothing
    <3> QED BY <3>1, <3>2
  <2> QED BY <1>1, <2>1 DEF IInv, NothingYet, InString
<1>7. Balanced'
  BY <1>1, <1>2, <1>3, <1>4 DEF IInv, Balanced, InString
<1>8. OwnedOnce'
  BY <1>1, <1>3 DEF IInv, OwnedOnce, OwnersApart
<1> QED BY <1>5, <1>6, <1>7, <1>8 DEF IInv

\* What a string took from the stack, and what it leaves.
LEMMA StringCut ==
  ASSUME IInv, InString
  PROVE  LET below == SubSeq(stack, 1, head)
         IN /\ head \in Nat /\ Len(stack) \in Nat /\ head <= Len(stack) /\ head = Claimed(calls)
            /\ IsSeq(below) /\ Len(below) = head
            /\ Owned(below) = Owned(stack) /\ (Apart(stack) => Apart(below))
            /\ Owned(SubSeq(stack, head + 1, Len(stack))) = {}
<1> DEFINE chars == SubSeq(stack, head + 1, Len(stack))
<1>1. /\ IsSeq(stack) /\ head \in Nat /\ head <= Len(stack) /\ head = Claimed(calls)
      /\ Len(stack) \in Nat
  BY SeqDomain DEF IInv, Sequences_, Balanced
<1>2. /\ IsSeq(SubSeq(stack, 1, head)) /\ Len(SubSeq(stack, 1, head)) = head
      /\ IsSeq(chars) /\ Len(chars) = Len(stack) - head
      /\ \A i \in 1..Len(stack)-head : chars[i] = stack[head + i]
  BY <1>1, SeqCut
<1>3. \A i \in DOMAIN chars : chars[i].owns = {}
  <2> HIDE DEF chars
  <2>1. DOMAIN chars = 1..Len(stack)-head
    BY <1>2, SeqDomain
  <2>2. \A i \in 1..Len(stack)-head : head + i \in head+1..Len(stack)
    BY <1>1
  <2> QED BY <1>2, <2>1, <2>2 DEF IInv, NothingYet
<1>4. Owned(chars) = {}
  BY <1>3, OwnsNothing
<1>5. /\ Owned(stack) = Owned(SubSeq(stack, 1, head)) \cup Owned(chars)
      /\ Apart(stack) => Apart(SubSeq(stack, 1, head))
  BY <1>1, OwnedCut
<1> QED BY <1>1, <1>2, <1>4, <1>5

LEMMA StringErrorKeeps ==
  ASSUME IInv, NEW t, StringError(t) PROVE IInv'
<1>1. /\ InString /\ at' = "unwind" /\ stack' = SubSeq(stack, 1, head)
      /\ UNCHANGED <<calls, head, live, v>> /\ ret' # "ROOT_NOT_SINGULAR"
  BY DEF StringError, Fail
<1>2. /\ head \in Nat /\ head = Claimed(calls)
      /\ IsSeq(stack') /\ Len(stack') = head
      /\ Owned(stack') = Owned(stack) /\ (Apart(stack) => Apart(stack'))
  BY <1>1, StringCut
<1>3. Sequences_' /\ InnermostIs'
  BY <1>1, <1>2 DEF IInv, Sequences_, InnermostIs
<1>4. NothingYet'
  BY <1>1 DEF IInv, NothingYet, InString
<1>5. Balanced'
  BY <1>1, <1>2 DEF IInv, Balanced, InString
<1>6. OwnedOnce'
  BY <1>1, <1>2 DEF IInv, NothingYet, InString, OwnedOnce, OwnersApart
<1> QED BY <1>3, <1>4, <1>5, <1>6 DEF IInv

\* The characters that a closing mark takes from the stack.
LEMMA StringTaken ==
  ASSUME IInv, InString
  PROVE  LET len == Len(stack) - head
         IN /\ Frames(calls)
            /\ IsSeq(Below(len)) /\ Len(Below(len)) = head /\ head \in Nat /\ head = Claimed(calls)
            /\ Owned(Below(len)) = Owned(stack) /\ Apart(Below(len))
            /\ Owned(Popped(len)) = {}
<1>1. /\ head \in Nat /\ Len(stack) \in Nat /\ head <= Len(stack) /\ head = Claimed(calls)
      /\ IsSeq(SubSeq(stack, 1, head)) /\ Len(SubSeq(stack, 1, head)) = head
      /\ Owned(SubSeq(stack, 1, head)) = Owned(stack)
      /\ Apart(stack) => Apart(SubSeq(stack, 1, head))
      /\ Owned(SubSeq(stack, head + 1, Len(stack))) = {}
  BY StringCut
<1>2. Len(stack) - (Len(stack) - head) = head
  BY <1>1
<1>3. /\ Below(Len(stack) - head) = SubSeq(stack, 1, head)
      /\ Popped(Len(stack) - head) = SubSeq(stack, head + 1, Len(stack))
  BY <1>2 DEF Below, Popped
<1>4. Apart(stack) /\ Frames(calls)
  BY DEF IInv, Sequences_, OwnedOnce, OwnersApart
<1> QED BY <1>1, <1>3, <1>4

LEMMA CloseStringKeeps ==
  ASSUME IInv, CloseString PROVE IInv'
<1> DEFINE len == Len(stack) - head
           st == Below(len)
           value == String(Popped(len), {Fresh})
<1>1. /\ at = "string" /\ live # Block /\ live' = live \cup {Fresh}
      /\ Returned(value, calls, st) /\ UNCHANGED <<head, ret>>
  BY DEF CloseString, Malloc
<1>2. /\ Frames(calls) /\ IsSeq(st) /\ Len(st) = Claimed(calls) /\ head \in Nat
      /\ Owned(st) = Owned(stack) /\ Apart(st) /\ Owned(Popped(len)) = {}
  BY <1>1, StringTaken DEF InString
<1>3. value.owns = {Fresh}
  BY <1>2 DEF String, Compound, Piece
<1>4. Fresh \in Block /\ Fresh \notin live
  BY <1>1, FreshIsNew DEF IInv, Sequences_
<1>5. /\ v.owns = {} /\ ret # "ROOT_NOT_SINGULAR" /\ live \subseteq Block
      /\ live = Owned(stack) \cup Owned(Keys(calls))
      /\ Apart(Keys(calls)) /\ Owned(stack) \cap Owned(Keys(calls)) = {}
  BY <1>1 DEF IInv, Sequences_, NothingYet, OwnedOnce, OwnersApart
<1> HIDE DEF st, value, len
<1>6. /\ OwnersApart(calls, st, value.owns)
      /\ live' = Owned(st) \cup Owned(Keys(calls)) \cup value.owns /\ live' \subseteq Block
  BY <1>1, <1>2, <1>3, <1>4, <1>5 DEF OwnersApart
<1> QED BY <1>1, <1>2, <1>5, <1>6, ReturnedKeeps

LEMMA CloseKeyKeeps ==
  ASSUME IInv, CloseKey PROVE IInv'
<1> DEFINE len == Len(stack) - head
           st == Below(len)
           key == String(Popped(len), {Fresh})
           o == Without(calls)
           in == calls[Len(calls)]
           c == Call(in.fn, in.size, key, in.base)
<1>1. /\ at = "keystring" /\ live # Block /\ live' = live \cup {Fresh}
      /\ calls' = [calls EXCEPT ![Len(calls)] = c] /\ stack' = st /\ at' = "colon"
      /\ UNCHANGED <<head, v, ret>>
  BY DEF CloseKey, Malloc, Innermost
<1>2. /\ Frames(calls) /\ IsSeq(st) /\ Len(st) = Claimed(calls) /\ head \in Nat
      /\ Owned(st) = Owned(stack) /\ Apart(st) /\ Owned(Popped(len)) = {}
  BY <1>1, StringTaken DEF InString
<1>3. key.owns = {Fresh}
  BY <1>2 DEF String, Compound, Piece
<1>4. Fresh \in Block /\ Fresh \notin live
  BY <1>1, FreshIsNew DEF IInv, Sequences_
<1>5. /\ v.owns = {} /\ ret # "ROOT_NOT_SINGULAR" /\ live \subseteq Block
      /\ live = Owned(stack) \cup Owned(Keys(calls))
      /\ Apart(Keys(calls)) /\ Owned(stack) \cap Owned(Keys(calls)) = {}
      /\ calls # <<>> /\ in.key.owns = {} /\ in.fn = "object"
  BY <1>1 DEF IInv, Sequences_, NothingYet, OwnedOnce, OwnersApart, InnermostIs, Innermost
<1> HIDE DEF st, key, len
<1>6. /\ Frames(o) /\ Frame(in) /\ Claimed(o) = in.base /\ Claimed(calls) = Mine(in)
      /\ Owned(Keys(calls)) = Owned(Keys(o)) \cup in.key.owns
      /\ Apart(Keys(calls)) => Apart(Keys(o))
  BY <1>2, <1>5, FramesWithout
<1>7. Frame(c) /\ c.key = key /\ c.base = in.base /\ Mine(c) = Mine(in)
  <2> HIDE DEF in
  <2>1. in.size \in Nat
    BY <1>6 DEF Frame
  <2>2. in.fn = "array" => key.owns = {}
    BY <1>5
  <2>3. Frame(in)
    BY <1>6
  <2>4. Frame(c) /\ c.size = in.size /\ c.key = key /\ c.base = in.base
    BY <2>1, <2>2, <2>3, in.fn \in {"array", "object"} DEF Frame, Call
  <2> HIDE DEF c
  <2> QED BY <2>4 DEF Mine
<1>8. calls' = o \o <<c>>
  BY <1>1, <1>2, <1>5, LastIsAppend DEF Frames
<1> HIDE DEF o, c, in
<1>9. Owned(Keys(o)) \cap c.key.owns = {}
  BY <1>3, <1>4, <1>5, <1>6, <1>7
<1>10. /\ Frames(calls') /\ calls' # <<>> /\ Claimed(calls') = Mine(c)
       /\ Owned(Keys(calls')) = Owned(Keys(o)) \cup {Fresh} /\ Apart(Keys(calls'))
  BY <1>3, <1>5, <1>6, <1>7, <1>8, <1>9, FramesWith
<1>11. Sequences_' /\ InnermostIs' /\ NothingYet'
  BY <1>1, <1>2, <1>4, <1>5, <1>10 DEF Sequences_, InnermostIs, NothingYet, InString
<1>12. Balanced'
  BY <1>1, <1>2, <1>6, <1>7, <1>10 DEF Balanced, InString, Frames
<1>13. OwnedOnce'
  BY <1>1, <1>2, <1>4, <1>5, <1>6, <1>10 DEF OwnedOnce, OwnersApart
<1> QED BY <1>11, <1>12, <1>13 DEF IInv

-----------------------------------------------------------------------------
(* A call gives back what it pushed, to build its value or to free it.     *)
LEMMA CallTaken ==
  ASSUME IInv, calls # <<>>, ~InString
  PROVE  LET n == Innermost.size
         IN /\ Frames(Outer) /\ IsSeq(Below(n)) /\ Len(Below(n)) = Claimed(Outer)
            /\ Owned(stack) = Owned(Below(n)) \cup Owned(Popped(n))
            /\ Apart(Below(n)) /\ Owned(Below(n)) \cap Owned(Popped(n)) = {}
            /\ Owned(Keys(calls)) = Owned(Keys(Outer)) \cup Innermost.key.owns
            /\ Apart(Keys(Outer)) /\ Owned(Keys(Outer)) \cap Innermost.key.owns = {}
            /\ n = 0 => Below(n) = stack
<1> DEFINE in == calls[Len(calls)]
           o == Without(calls)
<1>1. Frames(calls) /\ IsSeq(stack) /\ Len(stack) = Claimed(calls)
      /\ Apart(stack) /\ Apart(Keys(calls))
  BY DEF IInv, Sequences_, Balanced, OwnedOnce, OwnersApart
<1>2. /\ Frames(o) /\ Frame(in) /\ Claimed(o) = in.base /\ Claimed(calls) = Mine(in)
      /\ Owned(Keys(calls)) = Owned(Keys(o)) \cup in.key.owns
      /\ Apart(Keys(calls)) => Apart(Keys(o)) /\ Owned(Keys(o)) \cap in.key.owns = {}
  BY <1>1, FramesWithout
<1> HIDE DEF in, o
<1>3. /\ in.size \in Nat /\ in.base \in Nat /\ Len(stack) = in.base + in.size
      /\ Len(stack) - in.size = in.base /\ in.base <= Len(stack)
  BY <1>1, <1>2 DEF Frame, Mine
<1>4. /\ Below(in.size) = SubSeq(stack, 1, in.base)
      /\ Popped(in.size) = SubSeq(stack, in.base + 1, Len(stack))
  BY <1>3 DEF Below, Popped
<1>5. IsSeq(Below(in.size)) /\ Len(Below(in.size)) = in.base
  <2>1. /\ IsSeq(SubSeq(stack, 1, in.base)) /\ Len(SubSeq(stack, 1, in.base)) = in.base
    BY <1>1, <1>3, SeqCut
  <2> QED BY <2>1, <1>4
<1>6. /\ Owned(stack) = Owned(Below(in.size)) \cup Owned(Popped(in.size))
      /\ Apart(Below(in.size)) /\ Owned(Below(in.size)) \cap Owned(Popped(in.size)) = {}
  <2> DEFINE a == SubSeq(stack, 1, in.base)
             b == SubSeq(stack, in.base + 1, Len(stack))
  <2>1. Owned(stack) = Owned(a) \cup Owned(b) /\ Apart(a) /\ Owned(a) \cap Owned(b) = {}
    BY <1>1, <1>3, OwnedCut
  <2> HIDE DEF a, b
  <2> QED BY <2>1, <1>4 DEF a, b
<1>7. in.size = 0 => Below(in.size) = stack
  <2> SUFFICES ASSUME in.size = 0 PROVE SubSeq(stack, 1, Len(stack)) = stack
    BY <1>3, <1>4
  <2>1. stack \in Seq({stack[i] : i \in DOMAIN stack})
    BY <1>1 DEF IsSeq
  <2> DEFINE S == {stack[i] : i \in DOMAIN stack}
  <2> HIDE DEF S
  <2>2. stack \in Seq(S)
    BY <2>1 DEF S
  <2> QED BY <2>2
<1>8. Innermost = in /\ Outer = o
  BY DEF Innermost, Outer, in, o, Without
<1> QED BY <1>1, <1>2, <1>5, <1>6, <1>7, <1>8

\* A compound value of the pieces of the innermost call, in a new block or in none.
LEMMA CompoundKeeps ==
  ASSUME IInv, at \in {"first", "firstkey", "more"}, NEW value, NEW b, NEW n, n = Innermost.size,
         value.owns = Owned(Popped(n)) \cup b, live' = live \cup b,
         b \subseteq Block, b \cap live = {},
         Returned(value, Outer, Below(n)), UNCHANGED <<head, ret>>
  PROVE  IInv'
<1>1. calls # <<>> /\ ~InString /\ Innermost.key.owns = {}
  BY DEF IInv, InnermostIs, InString
<1>2. /\ Frames(Outer) /\ IsSeq(Below(n)) /\ Len(Below(n)) = Claimed(Outer)
      /\ Owned(stack) = Owned(Below(n)) \cup Owned(Popped(n))
      /\ Apart(Below(n)) /\ Owned(Below(n)) \cap Owned(Popped(n)) = {}
      /\ Owned(Keys(calls)) = Owned(Keys(Outer)) /\ Apart(Keys(Outer))
  BY <1>1, CallTaken
<1>3. /\ v.owns = {} /\ ret # "ROOT_NOT_SINGULAR" /\ live \subseteq Block /\ head \in Nat
      /\ live = Owned(stack) \cup Owned(Keys(calls))
      /\ Owned(stack) \cap Owned(Keys(calls)) = {}
  BY DEF IInv, Sequences_, NothingYet, OwnedOnce, OwnersApart
<1>4. OwnersApart(Outer, Below(n), value.owns)
  BY <1>2, <1>3 DEF OwnersApart
<1>5. live' = Owned(Below(n)) \cup Owned(Keys(Outer)) \cup value.owns /\ live' \subseteq Block
  BY <1>2, <1>3
<1> QED BY <1>2, <1>3, <1>4, <1>5, ReturnedKeeps

LEMMA CloseKeeps ==
  ASSUME IInv, CloseArray \/ CloseObject PROVE IInv'
<1> DEFINE n == Innermost.size
           value == IF Innermost.fn = "array" THEN Array(Popped(n), {Fresh})
                                              ELSE Object(Popped(n), {Fresh})
<1>1. /\ at = "more" /\ live # Block /\ live' = live \cup {Fresh}
      /\ Returned(value, Outer, Below(n)) /\ UNCHANGED <<head, ret>>
  BY DEF CloseArray, CloseObject, AfterElement, AfterMember, Malloc
<1>2. value.owns = Owned(Popped(n)) \cup {Fresh}
  BY DEF Array, Object, Compound, Piece
<1>3. Fresh \in Block /\ Fresh \notin live
  BY <1>1, FreshIsNew DEF IInv, Sequences_
<1> HIDE DEF value
<1>4. {Fresh} \subseteq Block /\ {Fresh} \cap live = {}
  BY <1>3
<1> QED BY <1>1, <1>2, <1>4, CompoundKeeps

LEMMA EmptyKeeps ==
  ASSUME IInv, EmptyArray \/ EmptyObject PROVE IInv'
<1> DEFINE n == Innermost.size
           value == IF at = "first" THEN Array(<<>>, {}) ELSE Object(<<>>, {})
<1>1. /\ at \in {"first", "firstkey"} /\ live' = live
      /\ Returned(value, Outer, stack) /\ UNCHANGED <<head, ret>>
  BY DEF EmptyArray, EmptyObject
<1>2. n = 0 /\ calls # <<>> /\ ~InString
  BY <1>1 DEF IInv, InnermostIs, InString
<1>3. value.owns = {}
  BY SeqEmpty DEF Array, Object, Compound, Piece
<1> HIDE DEF value
<1>4. Below(n) = stack /\ IsSeq(stack) /\ Len(stack) \in Nat
  BY <1>2, CallTaken, SeqDomain DEF IInv, Sequences_
<1>5. Owned(Popped(n)) = {}
  <2>1. Popped(n) = SubSeq(stack, Len(stack) + 1, Len(stack))
    BY <1>2, <1>4 DEF Popped
  <2>2. Len(stack) <= Len(stack)
    BY <1>4
  <2>3. /\ IsSeq(SubSeq(stack, Len(stack) + 1, Len(stack)))
        /\ Len(SubSeq(stack, Len(stack) + 1, Len(stack))) = 0
    BY <1>4, <2>2, SeqCut
  <2>4. Popped(n) = <<>>
    BY <2>1, <2>3, EmptyIsLen
  <2> QED BY <2>4, SeqEmpty
<1>6. /\ Returned(value, Outer, Below(n)) /\ value.owns = Owned(Popped(n)) \cup {}
      /\ live' = live \cup {}
  BY <1>1, <1>3, <1>4, <1>5
<1>7. {} \subseteq Block /\ {} \cap live = {} /\ at \in {"first", "firstkey", "more"}
  BY <1>1
<1>8. n = Innermost.size
  OBVIOUS
<1> HIDE DEF n
<1> QED BY <1>1, <1>6, <1>7, <1>8, CompoundKeeps

LEMMA UnwindKeeps ==
  ASSUME IInv, Unwind PROVE IInv'
<1> DEFINE n == Innermost.size
<1>1. /\ at = "unwind" /\ calls # <<>> /\ ~InString
      /\ live' = live \ (Owned(Popped(n)) \cup Innermost.key.owns)
      /\ stack' = Below(n) /\ calls' = Outer /\ UNCHANGED <<at, head, v, ret>>
  BY DEF Unwind, InString
<1>2. /\ Frames(Outer) /\ IsSeq(Below(n)) /\ Len(Below(n)) = Claimed(Outer)
      /\ Owned(stack) = Owned(Below(n)) \cup Owned(Popped(n))
      /\ Apart(Below(n)) /\ Owned(Below(n)) \cap Owned(Popped(n)) = {}
      /\ Owned(Keys(calls)) = Owned(Keys(Outer)) \cup Innermost.key.owns
      /\ Apart(Keys(Outer)) /\ Owned(Keys(Outer)) \cap Innermost.key.owns = {}
  BY <1>1, CallTaken
<1>3. /\ v.owns = {} /\ ret # "ROOT_NOT_SINGULAR" /\ live \subseteq Block /\ head \in Nat
      /\ live = Owned(stack) \cup Owned(Keys(calls))
      /\ Owned(stack) \cap Owned(Keys(calls)) = {}
  BY <1>1 DEF IInv, Sequences_, NothingYet, OwnedOnce, OwnersApart
<1>4. Sequences_' /\ InnermostIs' /\ NothingYet'
  BY <1>1, <1>2, <1>3 DEF Sequences_, InnermostIs, NothingYet, InString
<1>5. Balanced'
  BY <1>1, <1>2 DEF Balanced, InString, Frames
<1>6. OwnedOnce'
  BY <1>1, <1>2, <1>3 DEF OwnedOnce, OwnersApart
<1> QED BY <1>4, <1>5, <1>6 DEF IInv

LEMMA EndKeeps ==
  ASSUME IInv, Failed \/ (\E t \in Structure \cup {End} : EndOfText(t)) PROVE IInv'
<1>1. /\ calls = <<>> /\ stack = <<>> /\ at' = "done" /\ UNCHANGED <<calls, head, stack, live>>
      /\ \/ UNCHANGED v /\ (ret' = ret \/ ret' = "OK")
         \/ v' = Null /\ ret' = "ROOT_NOT_SINGULAR"
      /\ ret # "ROOT_NOT_SINGULAR"
  <2>1. at \in {"unwind", "root"} /\ calls = <<>>
    BY DEF Failed, EndOfText, IInv, InnermostIs
  <2>2. stack = <<>>
    BY <2>1, EmptyIsLen DEF IInv, Balanced, Sequences_, InString, Claimed
  <2>3. ret # "ROOT_NOT_SINGULAR"
    BY <2>1 DEF IInv, NothingYet
  <2> QED BY <2>1, <2>2, <2>3 DEF Failed, EndOfText
<1>2. Sequences_' /\ InnermostIs' /\ NothingYet'
  BY <1>1 DEF IInv, Sequences_, InnermostIs, NothingYet, InString
<1>3. Balanced'
  BY <1>1, SeqEmpty DEF IInv, Balanced, InString, Nested, Claimed
<1>4. OwnedOnce'
  <2>1. Owned(Keys(<<>>)) = {} /\ Owned(<<>>) = {}
    BY SeqEmpty DEF Keys, Owned
  <2>2. CASE UNCHANGED v /\ (ret' = ret \/ ret' = "OK")
    BY <1>1, <2>2 DEF IInv, OwnedOnce, OwnersApart
  <2>3. CASE v' = Null /\ ret' = "ROOT_NOT_SINGULAR"
    BY <1>1, <2>1, <2>3, NullOwnsNothing DEF IInv, OwnedOnce, OwnersApart
  <2> QED BY <1>1, <2>2, <2>3
<1> QED BY <1>2, <1>3, <1>4 DEF IInv

-----------------------------------------------------------------------------
LEMMA InitHolds == Init => IInv
<1> SUFFICES ASSUME Init PROVE IInv
  OBVIOUS
<1>1. /\ calls = <<>> /\ stack = <<>> /\ head = 0 /\ live = {} /\ v = Null /\ at = "value"
      /\ ret = "none"
  BY DEF Init
<1>2. Nested(<<>>) /\ Claimed(<<>>) = 0 /\ Frames(<<>>)
  BY SeqEmpty DEF Nested, Claimed, Frames
<1>3. Keys(<<>>) = <<>>
  BY DEF Keys
<1>4. Sequences_ /\ InnermostIs /\ NothingYet
  BY <1>1, <1>2, SeqEmpty, NullOwnsNothing DEF Sequences_, InnermostIs, NothingYet, InString
<1>5. Balanced /\ OwnedOnce
  BY <1>1, <1>2, <1>3, SeqEmpty, NullOwnsNothing DEF Balanced, OwnedOnce, OwnersApart, InString
<1> QED BY <1>4, <1>5 DEF IInv

LEMMA StepHolds == IInv /\ [Next]_vars => IInv'
<1> SUFFICES ASSUME IInv, [Next]_vars PROVE IInv'
  OBVIOUS
<1>1. CASE Whitespace \/ Done \/ UNCHANGED vars
  BY <1>1, SameKeeps DEF Whitespace, Done, vars
<1>2. CASE ParseScalar
  <2>1. /\ ~InString /\ at \notin {"root", "done"} /\ Returned(Scalar("lit"), calls, stack)
        /\ UNCHANGED <<head, live, ret>>
    BY <1>2 DEF ParseScalar, AtValue, InString
  <2>2. Scalar("lit").owns = {}
    BY DEF Scalar, Piece
  <2>3. /\ Frames(calls) /\ IsSeq(stack) /\ Len(stack) = Claimed(calls) /\ v.owns = {}
        /\ ret # "ROOT_NOT_SINGULAR" /\ head \in Nat /\ live \subseteq Block
    BY <2>1 DEF IInv, Sequences_, Balanced, NothingYet
  <2>4. /\ OwnersApart(calls, stack, Scalar("lit").owns)
        /\ live = Owned(stack) \cup Owned(Keys(calls)) \cup Scalar("lit").owns
    BY <2>2, <2>3 DEF IInv, OwnedOnce, OwnersApart
  <2> QED BY <2>1, <2>3, <2>4, ReturnedKeeps
<1>3. CASE OpenString \/ OpenKey
  BY <1>3, OpensStringKeeps
<1>4. CASE OpenArray \/ OpenObject
  BY <1>4, OpenKeeps
<1>5. CASE CloseString
  BY <1>5, CloseStringKeeps
<1>6. CASE CloseKey
  BY <1>6, CloseKeyKeeps
<1>7. CASE EmptyArray \/ EmptyObject
  BY <1>7, EmptyKeeps
<1>8. CASE CloseArray \/ CloseObject
  BY <1>8, CloseKeeps
<1>9. CASE NextElement \/ Colon \/ NextMember
  BY <1>9, LooksKeeps DEF NextElement, Colon, NextMember, AfterElement, AfterMember, InString
<1>10. CASE Unwind
  BY <1>10, UnwindKeeps
<1>11. CASE Failed \/ \E t \in Structure \cup {End} : EndOfText(t)
  BY <1>11, EndKeeps
<1>12. CASE \E t \in Content \cup {End} : StringChar(t) \/ StringError(t)
  BY <1>12, StringCharKeeps, StringErrorKeeps
<1>13. CASE \E t \in Structure \cup {End} :
             NoValue(t) \/ NoElement(t) \/ NoKey(t) \/ NoColon(t) \/ NoMember(t)
  <2>1. PICK t \in Structure \cup {End} :
             NoValue(t) \/ NoElement(t) \/ NoKey(t) \/ NoColon(t) \/ NoMember(t)
    BY <1>13
  <2>2. ~InString /\ at \notin {"root", "done"}
    BY <2>1 DEF NoValue, NoElement, NoKey, NoColon, NoMember, AtValue, AtKey, AfterElement, AfterMember, InString
  <2>3. \E code : code # "ROOT_NOT_SINGULAR" /\ Fail(code, stack)
    BY <2>1 DEF NoValue, NoElement, NoKey, NoColon, NoMember
  <2> QED BY <2>2, <2>3, FailKeeps
<1> QED BY <1>1, <1>2, <1>3, <1>4, <1>5, <1>6, <1>7, <1>8, <1>9, <1>10, <1>11, <1>12, <1>13 DEF Next

-----------------------------------------------------------------------------
(* The stack has room for what lies on it.                                 *)
Sized(st) == IsSeq(st) /\ \A i \in 1..Len(st) : st[i].bytes \in Nat

\* Top adds up what the pieces take, one after the other.
LEMMA TopIs ==
  ASSUME NEW st, Sized(st)
  PROVE  \E w \in [0..Len(st) -> Nat] :
           w[0] = 0 /\ Top(st) = w[Len(st)] /\ \A i \in 1..Len(st) : w[i] = w[i - 1] + st[i].bytes
<1> DEFINE n == Len(st)
           step == [p \in Nat \X (1..n) |-> p[1] + st[p[2]].bytes]
           Body(w) == [i \in 0..n |-> IF i = 0 THEN 0 ELSE w[i - 1] + st[i].bytes]
           t == CHOOSE w : w = Body(w)
<1>1. n \in Nat /\ \A i \in 1..n : st[i].bytes \in Nat
  BY SeqDomain DEF Sized
<1>2. step \in [Nat \X (1..n) -> Nat]
  BY <1>1
<1>3. PICK u0 \in [0..n -> Nat] : IsWalk(u0, 0, n, step)
  <2> HIDE DEF step, n
  <2> QED BY <1>1, <1>2, WalkExists
<1>4. ASSUME NEW i \in 1..n PROVE u0[i] = u0[i - 1] + st[i].bytes
  <2>1. u0[i - 1] \in Nat
    BY <1>1
  <2>2. <<u0[i - 1], i>> \in Nat \X (1..n)
    BY <2>1
  <2>3. step[<<u0[i - 1], i>>] = u0[i - 1] + st[i].bytes
    BY <2>2
  <2> QED
    BY <1>3, <2>3 DEF IsWalk
<1>5. u0 = Body(u0)
  BY <1>1, <1>3, <1>4 DEF IsWalk
<1>6. Top(st) = t[n]
  BY DEF Top
<1>7. t = Body(t)
  <2> HIDE DEF Body
  <2> QED BY <1>5
<1> HIDE DEF t
<1>8. t[0] = 0 /\ DOMAIN t = 0..n /\ \A i \in 1..n : t[i] = t[i - 1] + st[i].bytes
  BY <1>1, <1>7
<1>9. \A i \in 0..n : t[i] \in Nat
  <2>1. ASSUME NEW i \in 1..n, t[i - 1] \in Nat PROVE t[i] \in Nat
    BY <1>1, <1>8, <2>1
  <2>2. t[0] \in Nat /\ n \in Nat
    BY <1>1, <1>8
  <2> HIDE DEF n
  <2> QED
    BY <2>1, <2>2, WalkStays
<1>10. t \in [0..n -> Nat]
  BY <1>7, <1>9
<1> QED
  BY <1>6, <1>8, <1>10

\* What is left below takes no more than the whole did.
LEMMA TopCut ==
  ASSUME NEW st, Sized(st), NEW m \in Nat, m <= Len(st)
  PROVE  /\ Sized(SubSeq(st, 1, m)) /\ Top(SubSeq(st, 1, m)) <= Top(st)
         /\ Top(st) \in Nat /\ Top(SubSeq(st, 1, m)) \in Nat
<1> DEFINE c == SubSeq(st, 1, m)
           n == Len(st)
<1>1. n \in Nat /\ \A i \in 1..n : st[i].bytes \in Nat
  BY SeqDomain DEF Sized
<1>2. IsSeq(c) /\ Len(c) = m /\ \A i \in 1..m : c[i] = st[i]
  BY SeqCut DEF Sized
<1>3. Sized(c)
  BY <1>1, <1>2 DEF Sized
<1> HIDE DEF c
<1>4. PICK w \in [0..n -> Nat] :
        w[0] = 0 /\ Top(st) = w[n] /\ \A i \in 1..n : w[i] = w[i - 1] + st[i].bytes
  BY TopIs
<1>5. PICK u \in [0..m -> Nat] :
        u[0] = 0 /\ Top(c) = u[m] /\ \A i \in 1..m : u[i] = u[i - 1] + c[i].bytes
  BY <1>2, <1>3, TopIs
<1>6. \A i \in 0..m : u[i] = w[i]
  <2> DEFINE G == {i \in Nat : i <= m => u[i] = w[i]}
  <2>1. 0 \in G
    BY <1>4, <1>5
  <2>2. ASSUME NEW k \in Nat, k \in G PROVE k + 1 \in G
    <3> SUFFICES ASSUME k + 1 <= m PROVE u[k + 1] = w[k + 1]
      OBVIOUS
    <3>1. k + 1 \in 1..m /\ k + 1 \in 1..n /\ (k + 1) - 1 = k /\ u[k] = w[k]
      BY <1>1, <2>2
    <3>2. u[k + 1] = u[k] + c[k + 1].bytes /\ w[k + 1] = w[k] + st[k + 1].bytes
      BY <1>4, <1>5, <3>1
    <3> QED
      BY <1>2, <3>1, <3>2
  <2>3. Nat \subseteq G
    <3> HIDE DEF G
    <3> QED BY <2>1, <2>2, Induction
  <2> QED
    BY <2>3
<1>7. \A i \in 0..n : i >= m => w[i] >= w[m]
  <2> DEFINE G == {i \in Nat : i <= n /\ i >= m => w[i] >= w[m]}
  <2>0. m \in 0..n
    BY <1>1
  <2>1. 0 \in G
    BY <2>0, <1>4
  <2>2. ASSUME NEW k \in Nat, k \in G PROVE k + 1 \in G
    <3> SUFFICES ASSUME k + 1 <= n, k + 1 >= m PROVE w[k + 1] >= w[m]
      OBVIOUS
    <3>1. k + 1 \in 1..n /\ (k + 1) - 1 = k /\ k \in 0..n /\ k + 1 \in 0..n
      BY <1>1
    <3>2. w[k + 1] = w[k] + st[k + 1].bytes /\ st[k + 1].bytes \in Nat
      BY <1>1, <1>4, <3>1
    <3>3. w[k] \in Nat /\ w[k + 1] \in Nat /\ w[m] \in Nat
      BY <2>0, <3>1
    <3>4. CASE k >= m
      BY <2>2, <3>1, <3>2, <3>3, <3>4
    <3>5. CASE k + 1 = m
      BY <3>3, <3>5
    <3> QED
      BY <3>4, <3>5
  <2>3. Nat \subseteq G
    <3> HIDE DEF G
    <3> QED BY <2>1, <2>2, Induction
  <2> QED
    BY <2>3
<1>8. m \in 0..m /\ n \in 0..n /\ m \in 0..n
  BY <1>1
<1>9. Top(c) = w[m] /\ w[n] >= w[m] /\ w[n] \in Nat /\ w[m] \in Nat
  BY <1>1, <1>5, <1>6, <1>7, <1>8
<1> QED
  BY <1>3, <1>4, <1>9 DEF c

\* The size of the stack before it is first used, or once it grows.
SizeIs == size \in Nat /\ (size = 0 \/ size >= 2)

\* Half as much again, again and again, gets beyond every top.
LEMMA RoomIsEnough ==
  ASSUME SizeIs, NEW need \in Nat
  PROVE  Room(need) \in Nat /\ Room(need) >= 2 /\ Room(need) > need
<1> DEFINE Body(f) == [n \in Nat |-> IF need < n THEN n ELSE f[n + n \div 2]]
           grown == CHOOSE f : f = Body(f)
           From(m) == {n \in Nat : n >= 2 /\ n + m > need}
           Grows(f, m) == \A n \in From(m) : f[n] = IF need < n THEN n ELSE f[n + n \div 2]
<1>1. ASSUME NEW n \in Nat, n >= 2 PROVE n + n \div 2 \in Nat /\ n + n \div 2 >= n + 1
  <2>1. n \div 2 \in Nat /\ n \div 2 >= 1
    BY <1>1
  <2> QED
    BY <2>1
<1>2. \A m \in Nat : \E f \in [From(m) -> Nat] : Grows(f, m)
  <2> DEFINE G == {m \in Nat : \E f \in [From(m) -> Nat] : Grows(f, m)}
  <2>1. 0 \in G
    <3>1. [n \in From(0) |-> n] \in [From(0) -> Nat] /\ Grows([n \in From(0) |-> n], 0)
      OBVIOUS
    <3> QED
      BY <3>1
  <2>2. ASSUME NEW m \in Nat, m \in G PROVE m + 1 \in G
    <3>1. PICK f \in [From(m) -> Nat] : Grows(f, m)
      BY <2>2
    <3> DEFINE g == [n \in From(m + 1) |-> IF need < n THEN n ELSE f[n + n \div 2]]
    <3>2. ASSUME NEW n \in From(m + 1), ~(need < n)
          PROVE  n + n \div 2 \in From(m) /\ n + n \div 2 \in From(m + 1)
      <4>1. n \in Nat /\ n >= 2 /\ n + (m + 1) > need
        OBVIOUS
      <4>2. n + n \div 2 \in Nat /\ n + n \div 2 >= n + 1
        BY <1>1, <4>1
      <4> DEFINE k == n + n \div 2
      <4> HIDE DEF k
      <4>3. k \in Nat /\ k >= n + 1
        BY <4>2 DEF k
      <4>4. k \in From(m) /\ k \in From(m + 1)
        BY <4>1, <4>3
      <4> QED
        BY <4>4 DEF k
    <3>3. g \in [From(m + 1) -> Nat]
      BY <3>2
    <3>4. \A n \in From(m) : n \in From(m + 1) /\ g[n] = f[n]
      <4>1. \A n \in From(m) : n \in From(m + 1)
        OBVIOUS
      <4> QED
        BY <3>1, <4>1
    <3>5. Grows(g, m + 1)
      <4> SUFFICES ASSUME NEW n \in From(m + 1) PROVE g[n] = IF need < n THEN n ELSE g[n + n \div 2]
        OBVIOUS
      <4>1. CASE need < n
        BY <4>1
      <4>2. CASE ~(need < n)
        BY <3>2, <3>4, <4>2
      <4> QED
        BY <4>1, <4>2
    <3> HIDE DEF g, From, Grows
    <3>6. m + 1 \in Nat /\ \E h \in [From(m + 1) -> Nat] : Grows(h, m + 1)
      BY <3>3, <3>5
    <3> QED
      BY <3>6
  <2>3. Nat \subseteq G
    <3> HIDE DEF G
    <3> QED BY <2>1, <2>2, Induction
  <2> QED
    BY <2>3
<1>3. PICK f \in [From(need + 1) -> Nat] : Grows(f, need + 1)
  <2>1. need + 1 \in Nat
    OBVIOUS
  <2> HIDE DEF From, Grows
  <2> QED BY <1>2, <2>1
<1>4. From(need + 1) = {n \in Nat : n >= 2}
  OBVIOUS
<1> DEFINE g == [n \in Nat |-> IF n >= 2 THEN f[n] ELSE n]
<1>5. g = Body(g)
  <2> SUFFICES ASSUME NEW n \in Nat PROVE g[n] = IF need < n THEN n ELSE g[n + n \div 2]
    OBVIOUS
  <2>1. CASE n >= 2
    <3>1. n \in From(need + 1) /\ n + n \div 2 \in Nat /\ n + n \div 2 >= 2
      BY <1>1, <2>1
    <3> QED
      BY <1>3, <2>1, <3>1
  <2>2. CASE n = 0 \/ n = 1
    <3>1. n + n \div 2 = n
      BY <2>2
    <3> QED
      BY <2>2, <3>1
  <2> QED
    BY <2>1, <2>2
<1>6. grown = Body(grown)
  <2> HIDE DEF Body, g
  <2> QED BY <1>5
<1> HIDE DEF grown
<1>7. \A n \in Nat : grown[n] = IF need < n THEN n ELSE grown[n + n \div 2]
  BY <1>6
<1>8. \A n \in Nat : n >= 2 => grown[n] \in Nat /\ grown[n] >= 2 /\ grown[n] > need
  <2> DEFINE G == {m \in Nat : \A n \in From(m) : grown[n] \in Nat /\ grown[n] >= 2 /\ grown[n] > need}
  <2>1. 0 \in G
    BY <1>7
  <2>2. ASSUME NEW m \in Nat, m \in G PROVE m + 1 \in G
    <3> SUFFICES ASSUME NEW n \in From(m + 1)
                 PROVE  grown[n] \in Nat /\ grown[n] >= 2 /\ grown[n] > need
      OBVIOUS
    <3>1. CASE need < n
      BY <1>7, <3>1
    <3>2. CASE ~(need < n)
      <4> DEFINE k == n + n \div 2
      <4>1. n \in Nat /\ n >= 2 /\ n + (m + 1) > need
        OBVIOUS
      <4>2. k \in Nat /\ k >= n + 1
        BY <1>1, <4>1
      <4>3. grown[n] = grown[k]
        BY <1>7, <3>2
      <4> HIDE DEF k
      <4>4. k \in From(m)
        BY <4>1, <4>2
      <4> QED
        BY <2>2, <4>3, <4>4
    <3> QED
      BY <3>1, <3>2
  <2>3. Nat \subseteq G
    <3> HIDE DEF G
    <3> QED BY <2>1, <2>2, Induction
  <2>4. need + 1 \in G
    <3>1. need + 1 \in Nat
      OBVIOUS
    <3> HIDE DEF G
    <3> QED BY <2>3, <3>1
  <2>5. \A n \in From(need + 1) : grown[n] \in Nat /\ grown[n] >= 2 /\ grown[n] > need
    BY <2>4
  <2> HIDE DEF From
  <2> QED
    BY <1>4, <2>5
<1>9. Room(need) = grown[IF size = 0 THEN InitSize ELSE size]
  BY DEF Room, grown
<1>10. (IF size = 0 THEN InitSize ELSE size) \in Nat /\ (IF size = 0 THEN InitSize ELSE size) >= 2
  BY LeptAssumption DEF SizeIs
<1> QED
  BY <1>8, <1>9, <1>10

Fits == SizeIs /\ Sized(stack) /\ FitsStack
FitsIt(st) == Sized(st) /\ Top(st) <= size

LEMMA FitsSame == ASSUME Fits, UNCHANGED <<stack, size>> PROVE Fits'
BY DEF Fits, SizeIs, Sized, FitsStack, Top, IsSeq

\* What is left on the stack after a pop fits it.
LEMMA CutFits ==
  ASSUME Fits, NEW m \in Nat, m <= Len(stack)
  PROVE  FitsIt(SubSeq(stack, 1, m))
<1>1. /\ Sized(SubSeq(stack, 1, m)) /\ Top(SubSeq(stack, 1, m)) <= Top(stack)
      /\ Top(stack) \in Nat /\ Top(SubSeq(stack, 1, m)) \in Nat
  BY TopCut DEF Fits
<1>2. size \in Nat /\ Top(stack) <= size
  BY DEF Fits, SizeIs, FitsStack
<1> DEFINE c == Top(SubSeq(stack, 1, m))
<1>3. c \in Nat /\ c <= Top(stack)
  BY <1>1
<1> HIDE DEF c
<1>4. c <= size
  BY <1>1, <1>2, <1>3
<1> QED
  BY <1>1, <1>4 DEF FitsIt, c

LEMMA PoppedFits ==
  ASSUME Fits, NEW st, FitsIt(st), stack' = st, UNCHANGED size
  PROVE  Fits'
<1>1. Sized(stack') /\ Top(stack') <= size'
  BY DEF FitsIt
<1> QED
  BY <1>1 DEF Fits, SizeIs, FitsStack, Sized, Top, IsSeq

LEMMA PushFits ==
  ASSUME Fits, NEW st, FitsIt(st), NEW ps, Sized(ps), Push(st, ps)
  PROVE  Fits'
<1> DEFINE new == st \o ps
<1>1. /\ IsSeq(new) /\ Len(new) = Len(st) + Len(ps)
      /\ \A i \in 1..Len(st) : new[i] = st[i]
      /\ \A i \in 1..Len(ps) : new[Len(st) + i] = ps[i]
  BY SeqConcat DEF FitsIt, Sized
<1>2. Len(st) \in Nat /\ Len(ps) \in Nat
  BY SeqDomain DEF FitsIt, Sized
<1>3. stack' = new /\ size' = Room(Top(new))
  BY DEF Push
<1> HIDE DEF new
<1>4. Sized(new)
  <2> SUFFICES ASSUME NEW i \in 1..Len(new) PROVE new[i].bytes \in Nat
    BY <1>1 DEF Sized
  <2>1. CASE i \in 1..Len(st)
    BY <1>1, <2>1 DEF FitsIt, Sized
  <2>2. CASE i - Len(st) \in 1..Len(ps)
    <3>1. new[i] = ps[i - Len(st)]
      <4>1. i = Len(st) + (i - Len(st))
        BY <1>2, <1>1
      <4> QED
        BY <1>1, <2>2, <4>1
    <3> QED
      BY <2>2, <3>1 DEF Sized
  <2> QED
    BY <1>1, <1>2, <2>1, <2>2
<1>5. Top(new) \in Nat
  <2>1. 0 <= Len(new)
    BY <1>1, <1>2
  <2> QED
    BY <1>4, <2>1, TopCut
<1>6. Room(Top(new)) \in Nat /\ Room(Top(new)) >= 2 /\ Room(Top(new)) > Top(new)
  BY <1>5, RoomIsEnough DEF Fits
<1>7. size' \in Nat /\ size' >= 2 /\ Top(new) <= size'
  <2> DEFINE r == Room(Top(new))
             t == Top(new)
  <2>1. r \in Nat /\ r >= 2 /\ r > t /\ t \in Nat /\ size' = r
    BY <1>3, <1>5, <1>6
  <2> HIDE DEF r, t
  <2>2. size' \in Nat /\ size' >= 2 /\ t <= size'
    BY <2>1
  <2> QED
    BY <2>2 DEF t
<1>8. Sized(stack') /\ Top(stack') <= size'
  BY <1>3, <1>4, <1>7
<1> QED
  BY <1>7, <1>8 DEF Fits, SizeIs, FitsStack, Sized, Top, IsSeq

\* A value or member that returns is pushed on what is left.
LEMMA ReturnedFits ==
  ASSUME Fits, NEW st, FitsIt(st), NEW value, value.bytes \in Nat, NEW cs, Returned(value, cs, st)
  PROVE  Fits'
<1>1. CASE cs = <<>>
  <2>1. stack' = st /\ UNCHANGED size
    BY <1>1 DEF Returned
  <2> QED
    BY <2>1, PoppedFits
<1>2. CASE cs # <<>>
  <2> DEFINE call == cs[Len(cs)]
             item == IF call.fn = "array" THEN value ELSE Member(call.key, value)
  <2>1. Push(st, <<item>>)
    BY <1>2 DEF Returned
  <2>2. item.bytes \in Nat
    BY LeptAssumption DEF Member, Piece
  <2> HIDE DEF item
  <2>3. Sized(<<item>>)
    <3>1. IsSeq(<<item>>) /\ Len(<<item>>) = 1 /\ <<item>>[1] = item
      BY SeqOne
    <3>2. \A i \in 1..1 : i = 1
      OBVIOUS
    <3> QED
      BY <2>2, <3>1, <3>2 DEF Sized
  <2> QED
    BY <2>1, <2>3, PushFits
<1> QED
  BY <1>1, <1>2

LEMMA FitsInit == Init => Fits
<1> SUFFICES ASSUME Init PROVE Fits
  OBVIOUS
<1>1. stack = <<>> /\ size = 0
  BY DEF Init
<1>2. Sized(<<>>) /\ Len(<<>>) = 0
  BY SeqEmpty DEF Sized
<1>3. PICK w \in [0..Len(<<>>) -> Nat] : w[0] = 0 /\ Top(<<>>) = w[Len(<<>>)]
  BY <1>2, TopIs
<1>4. Top(<<>>) = 0
  BY <1>2, <1>3
<1> QED
  BY <1>1, <1>2, <1>4 DEF Fits, SizeIs, FitsStack

\* What the innermost call has pushed lies on top; so do the characters of a string.
LEMMA BelowFits ==
  ASSUME IInv, Fits
  PROVE  /\ FitsIt(stack)
         /\ calls # <<>> /\ ~InString => FitsIt(Below(Innermost.size))
         /\ InString => FitsIt(SubSeq(stack, 1, head)) /\ FitsIt(Below(Len(stack) - head))
<1>1. IsSeq(stack) /\ Len(stack) \in Nat /\ head \in Nat
  BY SeqDomain DEF IInv, Sequences_
<1>2. FitsIt(stack)
  BY DEF Fits, FitsStack, FitsIt
<1>3. ASSUME calls # <<>>, ~InString PROVE FitsIt(Below(Innermost.size))
  <2> DEFINE n == Innermost.size
  <2>1. Frames(calls) /\ Len(stack) = Claimed(calls)
    BY <1>3 DEF IInv, Sequences_, Balanced
  <2>2. Frame(Innermost) /\ Claimed(calls) = Mine(Innermost)
    BY <1>3, <2>1, FramesWithout DEF Innermost
  <2>3. n \in Nat /\ Innermost.base \in Nat /\ Len(stack) = Innermost.base + n
    BY <2>1, <2>2 DEF Frame, Mine
  <2> HIDE DEF n
  <2>4. Len(stack) - n \in Nat /\ Len(stack) - n <= Len(stack)
    BY <1>1, <2>3
  <2>5. FitsIt(SubSeq(stack, 1, Len(stack) - n))
    BY <2>4, CutFits
  <2> QED
    BY <2>5 DEF Below, n
<1>4. ASSUME InString PROVE FitsIt(SubSeq(stack, 1, head)) /\ FitsIt(Below(Len(stack) - head))
  <2>1. head <= Len(stack)
    BY <1>4 DEF IInv, Balanced
  <2>2. FitsIt(SubSeq(stack, 1, head))
    BY <1>1, <2>1, CutFits
  <2>3. Len(stack) - (Len(stack) - head) = head
    BY <1>1
  <2> QED
    BY <2>2, <2>3 DEF Below
<1> QED
  BY <1>2, <1>3, <1>4

LEMMA FitsStep == ASSUME IInv, Fits, [Next]_vars PROVE Fits'
<1> DEFINE n == Innermost.size
           len == Len(stack) - head
<1>b. FitsIt(stack)
  BY BelowFits
<1>1. CASE UNCHANGED <<stack, size>>
  BY <1>1, FitsSame
<1>2. CASE ParseScalar
  <2>1. Scalar("lit").bytes \in Nat
    BY LeptAssumption DEF Scalar, Piece
  <2> QED
    BY <1>2, <1>b, <2>1, ReturnedFits DEF ParseScalar
<1>3. CASE CloseString
  <2>1. String(Popped(len), {Fresh}).bytes \in Nat
    BY LeptAssumption DEF String, Compound, Piece
  <2>2. InString /\ Returned(String(Popped(len), {Fresh}), calls, Below(len))
    BY <1>3 DEF CloseString, InString
  <2> QED
    BY <2>1, <2>2, BelowFits, ReturnedFits
<1>4. CASE CloseKey
  <2>1. InString /\ stack' = Below(len) /\ UNCHANGED size
    BY <1>4 DEF CloseKey, InString
  <2> QED
    BY <2>1, BelowFits, PoppedFits
<1>5. CASE EmptyArray \/ EmptyObject
  <2> DEFINE value == IF at = "first" THEN Array(<<>>, {}) ELSE Object(<<>>, {})
  <2>1. value.bytes \in Nat
    BY LeptAssumption DEF Array, Object, Compound, Piece
  <2>2. Returned(value, Outer, stack)
    BY <1>5 DEF EmptyArray, EmptyObject
  <2> HIDE DEF value
  <2> QED
    BY <1>b, <2>1, <2>2, ReturnedFits
<1>6. CASE CloseArray \/ CloseObject
  <2> DEFINE value == IF Innermost.fn = "array" THEN Array(Popped(n), {Fresh})
                                                ELSE Object(Popped(n), {Fresh})
  <2>1. value.bytes \in Nat
    BY LeptAssumption DEF Array, Object, Compound, Piece
  <2>2. at = "more" /\ Returned(value, Outer, Below(n))
    BY <1>6 DEF CloseArray, CloseObject, AfterElement, AfterMember
  <2>3. calls # <<>> /\ ~InString
    BY <2>2 DEF IInv, InnermostIs, InString
  <2> HIDE DEF value
  <2> QED
    BY <2>1, <2>2, <2>3, BelowFits, ReturnedFits
<1>7. CASE Unwind
  <2>1. calls # <<>> /\ ~InString /\ stack' = Below(n) /\ UNCHANGED size
    BY <1>7 DEF Unwind, InString
  <2> QED
    BY <2>1, BelowFits, PoppedFits
<1>8. CASE \E t \in Content \cup {End} : StringChar(t)
  <2>1. PICK t : StringChar(t)
    BY <1>8
  <2>2. Push(stack, Chars(t))
    BY <2>1 DEF StringChar
  <2>3. Sized(Chars(t))
    <3>1. IsSeq(Chars(t)) /\ DOMAIN Chars(t) = 1..Len(Chars(t))
      BY CharsOwnNothing, SeqDomain
    <3>2. \A i \in DOMAIN Chars(t) : Chars(t)[i].bytes = 1
      BY DEF Chars, Piece
    <3> QED
      BY <3>1, <3>2 DEF Sized
  <2> QED
    BY <1>b, <2>2, <2>3, PushFits
<1>9. CASE \E t \in Content \cup {End} : StringError(t)
  <2>1. InString /\ stack' = SubSeq(stack, 1, head) /\ UNCHANGED size
    BY <1>9 DEF StringError, Fail
  <2> QED
    BY <2>1, BelowFits, PoppedFits
<1>10. CASE \/ Whitespace \/ OpenString \/ OpenArray \/ OpenObject \/ NextElement \/ OpenKey \/ Colon
            \/ NextMember \/ Failed \/ Done \/ UNCHANGED vars
  <2>1. UNCHANGED <<stack, size>>
    BY <1>10 DEF Whitespace, OpenString, OpenArray, OpenObject, Open, NextElement, OpenKey, Colon,
                 NextMember, Failed, Done, vars
  <2> QED
    BY <1>1, <2>1
<1>11. CASE \E t \in Structure \cup {End} :
              NoValue(t) \/ NoElement(t) \/ NoKey(t) \/ NoColon(t) \/ NoMember(t) \/ EndOfText(t)
  <2>1. UNCHANGED <<stack, size>>
    BY <1>11 DEF NoValue, NoElement, NoKey, NoColon, NoMember, EndOfText, Fail
  <2> QED
    BY <1>1, <2>1
<1> QED
  BY <1>2, <1>3, <1>4, <1>5, <1>6, <1>7, <1>8, <1>9, <1>10, <1>11 DEF Next

-----------------------------------------------------------------------------
(* At every moment the stack holds exactly what the calls under way have   *)
(* pushed, and nothing when lept_parse returns; and it has room for all of *)
(* it.  Whatever the text.                                                 *)
THEOREM StackIsBalanced == Spec => []StackOfCalls
<1>1. Init => IInv /\ Fits
  BY InitHolds, FitsInit
<1>2. (IInv /\ Fits) /\ [Next]_vars => (IInv /\ Fits)'
  BY StepHolds, FitsStep
<1>3. IInv /\ Fits => StackOfCalls
  BY DEF IInv, Fits, StackOfCalls
<1> QED BY <1>1, <1>2, <1>3, PTL DEF Spec

(* Every block that the parser allocates has one owner, and an error frees *)
(* all of them, whatever the text.                                         *)
THEOREM EveryBlockHasAnOwner == Spec => []OwnedOnce
<1>1. IInv => OwnedOnce
  BY DEF IInv
<1> QED BY <1>1, InitHolds, StepHolds, PTL DEF Spec
-----------------------------------------------------------------------------
(* The values: what stands at a place, the blocks and their slots.         *)
At(m, k)  == Values!Get(m, k)
Ptr(m, k) == Values!Get(m, k).p
Blocks(m) == DOMAIN m.heap
Dom(m, c) == DOMAIN m.heap[c]
All(m)    == Root \cup {k \in Cell \X Nat : k[1] \in Blocks(m) /\ k[2] \in Dom(m, k[1])}

Shape(m) ==
  /\ m = [root |-> m.root, heap |-> m.heap] /\ DOMAIN m.root = Root
  /\ Blocks(m) \subseteq Cell
  /\ \A c \in Blocks(m) : \E n \in Nat : Dom(m, c) = 1..n

LEMMA AllIs ==
  ASSUME NEW m, Shape(m)
  PROVE  /\ \A r \in Root : r \in All(m)
         /\ \A c \in Blocks(m) : c \in Cell /\ \A i \in Dom(m, c) : i \in Nat /\ i >= 1 /\ <<c, i>> \in All(m)
         /\ \A k \in All(m) : k \notin Root => k = <<k[1], k[2]>> /\ k[1] \in Blocks(m) /\ k[2] \in Dom(m, k[1])
         /\ \A c, i : <<c, i>> \in All(m) /\ <<c, i>> \notin Root => c \in Blocks(m) /\ i \in Dom(m, c)
         /\ \A c \in Blocks(m) : \A i \in Dom(m, c) : <<c, i>> \notin Root
<1>1. \A c \in Blocks(m) : c \in Cell /\ \A i \in Dom(m, c) : i \in Nat /\ i >= 1
  BY DEF Shape
<1>2. \A c \in Blocks(m) : \A i \in Dom(m, c) : <<c, i>> \in Cell \X Nat
  BY <1>1
<1>3. ASSUME NEW k \in All(m), k \notin Root
      PROVE  k = <<k[1], k[2]>> /\ k[1] \in Blocks(m) /\ k[2] \in Dom(m, k[1])
  BY <1>3 DEF All
<1>4. ASSUME NEW c, NEW i, <<c, i>> \in All(m), <<c, i>> \notin Root PROVE c \in Blocks(m) /\ i \in Dom(m, c)
  <2>1. <<c, i>>[1] = c /\ <<c, i>>[2] = i
    OBVIOUS
  <2> QED
    BY <1>3, <1>4, <2>1
<1>5. \A k \in Cell \X Nat : k \notin Root
  BY ValueAssumption
<1> QED
  BY <1>1, <1>2, <1>3, <1>4, <1>5 DEF All

\* What stands in a slot.
LEMMA AtSlot ==
  ASSUME NEW m, Shape(m), NEW c \in Blocks(m), NEW i \in Dom(m, c)
  PROVE  At(m, <<c, i>>) = m.heap[c][i]
<1>1. <<c, i>> \notin Root
  BY AllIs
<1> QED
  BY <1>1 DEF At, Values!Get

LEMMA PutIs ==
  ASSUME NEW m, Shape(m), NEW l \in All(m), NEW x, NEW n, n = Values!Put(m, l, x)
  PROVE  /\ Shape(n) /\ Blocks(n) = Blocks(m) /\ \A c \in Blocks(m) : Dom(n, c) = Dom(m, c)
         /\ All(n) = All(m) /\ At(n, l) = x /\ \A k \in All(m) : k # l => At(n, k) = At(m, k)
<1>1. CASE l \in Root
  <2>1. n = [m EXCEPT !.root[l] = x]
    BY <1>1 DEF Values!Put
  <2>2. n = [root |-> [m.root EXCEPT ![l] = x], heap |-> m.heap]
    BY <2>1 DEF Shape
  <2>3. n.heap = m.heap /\ n.root = [m.root EXCEPT ![l] = x]
    BY <2>2
  <2>4. DOMAIN n.root = Root /\ n.root[l] = x /\ \A r \in Root : r # l => n.root[r] = m.root[r]
    BY <1>1, <2>3 DEF Shape
  <2>5. Shape(n) /\ Blocks(n) = Blocks(m) /\ (\A c \in Blocks(m) : Dom(n, c) = Dom(m, c)) /\ All(n) = All(m)
    BY <2>2, <2>3, <2>4 DEF Shape, Blocks, Dom, All
  <2>6. At(n, l) = x /\ \A k \in All(m) : k # l => At(n, k) = At(m, k)
    BY <1>1, <2>3, <2>4 DEF At, Values!Get
  <2> QED
    BY <2>5, <2>6
<1>2. CASE l \notin Root
  <2>0. l = <<l[1], l[2]>> /\ l[1] \in Blocks(m) /\ l[2] \in Dom(m, l[1])
    BY <1>2, AllIs
  <2> DEFINE heap == [m.heap EXCEPT ![l[1]][l[2]] = x]
  <2>1. n = [m EXCEPT !.heap[l[1]][l[2]] = x]
    BY <1>2 DEF Values!Put
  <2>2. n = [root |-> m.root, heap |-> heap]
    BY <2>1 DEF Shape
  <2>3. n.root = m.root /\ n.heap = heap
    BY <2>2
  <2>4. /\ DOMAIN heap = DOMAIN m.heap
        /\ \A c \in DOMAIN m.heap : DOMAIN heap[c] = DOMAIN m.heap[c]
        /\ heap[l[1]][l[2]] = x
        /\ \A c \in DOMAIN m.heap : \A i \in DOMAIN m.heap[c] : ~(c = l[1] /\ i = l[2]) => heap[c][i] = m.heap[c][i]
    BY <2>0 DEF Blocks, Dom
  <2> HIDE DEF heap
  <2>5. Shape(n) /\ Blocks(n) = Blocks(m) /\ (\A c \in Blocks(m) : Dom(n, c) = Dom(m, c)) /\ All(n) = All(m)
    <3>1. Blocks(n) = Blocks(m) /\ \A c \in Blocks(m) : Dom(n, c) = Dom(m, c)
      BY <2>3, <2>4 DEF Blocks, Dom
    <3>2. Shape(n)
      BY <2>2, <2>3, <3>1 DEF Shape
    <3> QED
      BY <3>1, <3>2 DEF All
  <2>6. At(n, l) = x
    BY <1>2, <2>3, <2>4 DEF At, Values!Get
  <2>7. ASSUME NEW k \in All(m), k # l PROVE At(n, k) = At(m, k)
    <3>1. CASE k \in Root
      BY <2>3, <3>1 DEF At, Values!Get
    <3>2. CASE k \notin Root
      <4>1. k = <<k[1], k[2]>> /\ k[1] \in Blocks(m) /\ k[2] \in Dom(m, k[1])
        BY <3>2, AllIs
      <4>2. ~(k[1] = l[1] /\ k[2] = l[2])
        BY <2>0, <2>7, <4>1
      <4>3. heap[k[1]][k[2]] = m.heap[k[1]][k[2]]
        BY <2>4, <4>1, <4>2 DEF Blocks, Dom
      <4> QED
        BY <2>3, <3>2, <4>3 DEF At, Values!Get
    <3> QED
      BY <3>1, <3>2
  <2> QED
    BY <2>5, <2>6, <2>7
<1> QED
  BY <1>1, <1>2

\* A memory with the variables of m and the given heap.
LEMMA HeapIs ==
  ASSUME NEW m, Shape(m), NEW n, NEW heap, n = [m EXCEPT !.heap = heap], DOMAIN heap \subseteq Cell,
         \A c \in DOMAIN heap : \E k \in Nat : DOMAIN heap[c] = 1..k
  PROVE  /\ Shape(n) /\ n.heap = heap /\ Blocks(n) = DOMAIN heap /\ \A c \in Blocks(n) : Dom(n, c) = DOMAIN heap[c]
         /\ \A r \in Root : At(n, r) = At(m, r)
<1>1. n = [root |-> m.root, heap |-> heap]
  BY DEF Shape
<1>2. n.root = m.root /\ n.heap = heap
  BY <1>1
<1>3. Blocks(n) = DOMAIN heap /\ \A c \in Blocks(n) : Dom(n, c) = DOMAIN heap[c]
  BY <1>2 DEF Blocks, Dom
<1>4. Shape(n)
  BY <1>1, <1>2, <1>3 DEF Shape
<1>5. \A r \in Root : At(n, r) = At(m, r)
  BY <1>2 DEF At, Values!Get
<1> QED
  BY <1>2, <1>3, <1>4, <1>5

LEMMA MallocIs ==
  ASSUME NEW m, Shape(m), Values!Room(m), NEW count \in Nat, NEW n, n = Values!Malloc(m, count),
         NEW f, f = Values!Fresh(m)
  PROVE  /\ Shape(n) /\ f \in Cell \ Blocks(m) /\ Blocks(n) = Blocks(m) \cup {f} /\ Dom(n, f) = 1..count
         /\ \A c \in Blocks(m) : Dom(n, c) = Dom(m, c)
         /\ All(m) \subseteq All(n) /\ \A k \in All(m) : At(n, k) = At(m, k)
         /\ \A i \in 1..count : At(n, <<f, i>>) = Values!Garbage
         /\ \A k \in All(n) \ All(m) : \E i \in 1..count : k = <<f, i>>
<1>1. f \in Cell \ Blocks(m)
  BY DEF Values!Fresh, Values!Room, Blocks
<1> DEFINE heap == [c \in Blocks(m) \cup {f} |-> IF c \in Blocks(m) THEN m.heap[c] ELSE [i \in 1..count |-> Values!Garbage]]
<1>2. n = [m EXCEPT !.heap = heap]
  BY DEF Values!Malloc, Blocks, Shape
<1>3. /\ DOMAIN heap = Blocks(m) \cup {f} /\ \A c \in Blocks(m) : heap[c] = m.heap[c]
      /\ heap[f] = [i \in 1..count |-> Values!Garbage]
  BY <1>1
<1> HIDE DEF heap
<1>4. DOMAIN heap[f] = 1..count /\ \A i \in 1..count : heap[f][i] = Values!Garbage
  BY <1>3
<1>5. DOMAIN heap \subseteq Cell /\ \A c \in DOMAIN heap : \E k \in Nat : DOMAIN heap[c] = 1..k
  BY <1>1, <1>3, <1>4 DEF Shape, Dom, Blocks
<1>6. /\ Shape(n) /\ n.heap = heap /\ Blocks(n) = DOMAIN heap /\ \A c \in Blocks(n) : Dom(n, c) = DOMAIN heap[c]
      /\ \A r \in Root : At(n, r) = At(m, r)
  BY <1>2, <1>5, HeapIs
<1>7. Blocks(n) = Blocks(m) \cup {f} /\ Dom(n, f) = 1..count /\ \A c \in Blocks(m) : Dom(n, c) = Dom(m, c)
  BY <1>3, <1>4, <1>6 DEF Dom
<1>8. All(m) \subseteq All(n)
  BY <1>7 DEF All
<1>9. ASSUME NEW k \in All(m) PROVE At(n, k) = At(m, k)
  <2>1. CASE k \in Root
    BY <1>6, <2>1
  <2>2. CASE k \notin Root
    <3>1. k[1] \in Blocks(m)
      BY <2>2, AllIs
    <3> QED
      BY <1>3, <1>6, <2>2, <3>1 DEF At, Values!Get
  <2> QED
    BY <2>1, <2>2
<1>10. ASSUME NEW i \in 1..count PROVE At(n, <<f, i>>) = Values!Garbage
  <2>1. At(n, <<f, i>>) = n.heap[f][i]
    BY <1>6, <1>7, AtSlot
  <2> QED
    BY <1>4, <1>6, <2>1
<1>11. ASSUME NEW k \in All(n) \ All(m) PROVE \E i \in 1..count : k = <<f, i>>
  <2>1. k \notin Root /\ k = <<k[1], k[2]>> /\ k[1] \in Blocks(n) /\ k[2] \in Dom(n, k[1])
    BY <1>6, <1>11, AllIs
  <2>2. k[1] \notin Blocks(m)
    <3>1. k[1] \in Blocks(m) => <<k[1], k[2]>> \in All(m)
      BY <1>7, <2>1, AllIs
    <3> QED
      BY <1>11, <2>1, <3>1
  <2>3. k[1] = f
    BY <1>7, <2>1, <2>2
  <2> QED
    BY <1>7, <2>1, <2>3
<1> QED
  BY <1>1, <1>6, <1>7, <1>8, <1>9, <1>10, <1>11

LEMMA ReleaseIs ==
  ASSUME NEW m, Shape(m), NEW B, NEW n, n = Values!Release(m, B)
  PROVE  /\ Shape(n) /\ Blocks(n) = Blocks(m) \ B /\ \A c \in Blocks(n) : Dom(n, c) = Dom(m, c)
         /\ \A k : k \in All(n) <=> k \in All(m) /\ (k \notin Root => k[1] \notin B)
         /\ \A k \in All(n) : At(n, k) = At(m, k)
<1> DEFINE heap == [c \in DOMAIN m.heap \ B |-> m.heap[c]]
<1>1. n = [m EXCEPT !.heap = heap]
  BY DEF Values!Release, Shape
<1>2. DOMAIN heap = Blocks(m) \ B /\ \A c \in Blocks(m) \ B : heap[c] = m.heap[c]
  BY DEF Blocks
<1> HIDE DEF heap
<1>3. DOMAIN heap \subseteq Cell /\ \A c \in DOMAIN heap : \E k \in Nat : DOMAIN heap[c] = 1..k
  BY <1>2 DEF Shape, Dom, Blocks
<1>4. /\ Shape(n) /\ n.heap = heap /\ Blocks(n) = DOMAIN heap /\ \A c \in Blocks(n) : Dom(n, c) = DOMAIN heap[c]
      /\ \A r \in Root : At(n, r) = At(m, r)
  BY <1>1, <1>3, HeapIs
<1>5. Blocks(n) = Blocks(m) \ B /\ \A c \in Blocks(n) : Dom(n, c) = Dom(m, c)
  BY <1>2, <1>4 DEF Dom
<1>6. ASSUME NEW k \in All(n) PROVE k \in All(m) /\ (k \notin Root => k[1] \notin B) /\ At(n, k) = At(m, k)
  <2>1. CASE k \in Root
    BY <1>4, <2>1 DEF All
  <2>2. CASE k \notin Root
    <3>1. k = <<k[1], k[2]>> /\ k[1] \in Blocks(n) /\ k[2] \in Dom(n, k[1])
      BY <1>4, <2>2, AllIs
    <3>2. k[1] \in Blocks(m) \ B /\ k[2] \in Dom(m, k[1])
      BY <1>5, <3>1
    <3>3. <<k[1], k[2]>> \in All(m)
      BY <3>2, AllIs
    <3>4. At(n, k) = At(m, k)
      BY <1>2, <1>4, <2>2, <3>2 DEF At, Values!Get
    <3> QED
      BY <3>1, <3>2, <3>3, <3>4
  <2> QED
    BY <2>1, <2>2
<1>7. ASSUME NEW k \in All(m), k \notin Root => k[1] \notin B PROVE k \in All(n)
  <2>1. CASE k \in Root
    BY <2>1 DEF All
  <2>2. CASE k \notin Root
    <3>1. k = <<k[1], k[2]>> /\ k[1] \in Blocks(m) /\ k[2] \in Dom(m, k[1])
      BY <2>2, AllIs
    <3>2. k[1] \in Blocks(n) /\ k[2] \in Dom(n, k[1])
      BY <1>5, <1>7, <2>2, <3>1
    <3>3. <<k[1], k[2]>> \in All(n)
      BY <1>4, <3>2, AllIs
    <3> QED
      BY <3>1, <3>3
  <2> QED
    BY <2>1, <2>2
<1> QED
  BY <1>4, <1>5, <1>6, <1>7

LEMMA ResizedIs ==
  ASSUME NEW m, Shape(m), NEW p \in Blocks(m), NEW count \in Nat, NEW n, n = Values!Resized(m, p, count)
  PROVE  /\ Shape(n) /\ Blocks(n) = Blocks(m) /\ Dom(n, p) = 1..count
         /\ \A c \in Blocks(m) : c # p => Dom(n, c) = Dom(m, c)
         /\ \A k \in All(n) : At(n, k) = IF k \in All(m) THEN At(m, k) ELSE Values!Garbage
         /\ \A k \in All(m) : (k \notin Root /\ k[1] = p => k[2] <= count) => k \in All(n)
         /\ \A k \in All(n) \ All(m) : k \notin Root /\ k[1] = p
<1> DEFINE block == [i \in 1..count |-> IF i \in Dom(m, p) THEN m.heap[p][i] ELSE Values!Garbage]
           heap == [m.heap EXCEPT ![p] = block]
<1>1. n = [m EXCEPT !.heap = heap]
  BY DEF Values!Resized, Shape, Dom, Blocks
<1>2. /\ DOMAIN heap = Blocks(m) /\ heap[p] = block /\ \A c \in Blocks(m) : c # p => heap[c] = m.heap[c]
  BY DEF Blocks
<1>b. DOMAIN block = 1..count /\ \A i \in 1..count : block[i] = IF i \in Dom(m, p) THEN m.heap[p][i] ELSE Values!Garbage
  OBVIOUS
<1> HIDE DEF heap, block
<1>3. DOMAIN heap \subseteq Cell /\ \A c \in DOMAIN heap : \E k \in Nat : DOMAIN heap[c] = 1..k
  BY <1>2, <1>b DEF Shape, Dom, Blocks
<1>4. /\ Shape(n) /\ n.heap = heap /\ Blocks(n) = DOMAIN heap /\ \A c \in Blocks(n) : Dom(n, c) = DOMAIN heap[c]
      /\ \A r \in Root : At(n, r) = At(m, r)
  BY <1>1, <1>3, HeapIs
<1>5. Blocks(n) = Blocks(m) /\ Dom(n, p) = 1..count /\ \A c \in Blocks(m) : c # p => Dom(n, c) = Dom(m, c)
  BY <1>2, <1>b, <1>4 DEF Dom
<1>6. ASSUME NEW k \in All(n)
      PROVE  /\ At(n, k) = IF k \in All(m) THEN At(m, k) ELSE Values!Garbage
             /\ k \notin All(m) => k \notin Root /\ k[1] = p
  <2>1. CASE k \in Root
    BY <1>4, <2>1 DEF All
  <2>2. CASE k \notin Root
    <3>1. k = <<k[1], k[2]>> /\ k[1] \in Blocks(n) /\ k[2] \in Dom(n, k[1])
      BY <1>4, <2>2, AllIs
    <3>2. At(n, k) = heap[k[1]][k[2]]
      BY <1>4, <2>2 DEF At, Values!Get
    <3>3. CASE k[1] # p
      <4>1. <<k[1], k[2]>> \in All(m)
        BY <1>5, <3>1, <3>3, AllIs
      <4>2. At(m, k) = heap[k[1]][k[2]]
        BY <1>2, <1>5, <2>2, <3>1, <3>3 DEF At, Values!Get
      <4> QED
        BY <3>1, <3>2, <4>1, <4>2
    <3>4. CASE k[1] = p
      <4>1. At(n, k) = IF k[2] \in Dom(m, p) THEN m.heap[p][k[2]] ELSE Values!Garbage
        BY <1>2, <1>b, <1>5, <3>1, <3>2, <3>4
      <4>2. k[2] \in Dom(m, p) => k \in All(m) /\ At(m, k) = m.heap[p][k[2]]
        <5>1. k[2] \in Dom(m, p) => <<k[1], k[2]>> \in All(m)
          BY <3>4, AllIs
        <5> QED
          BY <2>2, <3>1, <3>4, <5>1 DEF At, Values!Get
      <4>3. k \in All(m) => k[2] \in Dom(m, p)
        BY <2>2, <3>4, AllIs
      <4> QED
        BY <2>2, <3>4, <4>1, <4>2, <4>3
    <3> QED
      BY <3>3, <3>4
  <2> QED
    BY <2>1, <2>2
<1>7. ASSUME NEW k \in All(m), k \notin Root /\ k[1] = p => k[2] <= count PROVE k \in All(n)
  <2>1. CASE k \in Root
    BY <2>1 DEF All
  <2>2. CASE k \notin Root
    <3>1. k = <<k[1], k[2]>> /\ k[1] \in Blocks(m) /\ k[2] \in Dom(m, k[1]) /\ k[2] \in Nat /\ k[2] >= 1
      BY <2>2, AllIs
    <3>2. k[1] \in Blocks(n) /\ k[2] \in Dom(n, k[1])
      BY <1>5, <1>7, <2>2, <3>1
    <3>3. <<k[1], k[2]>> \in All(n)
      BY <1>4, <3>2, AllIs
    <3> QED
      BY <3>1, <3>3
  <2> QED
    BY <2>1, <2>2
<1> QED
  BY <1>4, <1>5, <1>6, <1>7

\* A value and its block: the slots that hold no element point nowhere.
Compounds == {"array", "object"}
Live(x, i) == x.type \in Compounds /\ i <= x.size
Sound(m, x) ==
  /\ x = Values!Value(x.type, x.p, x.size, x.capacity) /\ x.size \in Nat
  /\ x.p = None => x.size = 0 /\ x.capacity = 0 /\ x.type # "string"
  /\ x.p # None =>
       /\ x.type \in Compounds \cup {"string"} /\ x.p \in Blocks(m)
       /\ x.type \in Compounds => 1..x.size \subseteq Dom(m, x.p)
       /\ \A i \in Dom(m, x.p) : ~Live(x, i) => Ptr(m, <<x.p, i>>) = None
       /\ x.type = "array" /\ x.capacity # Unset => x.capacity \in Nat /\ Dom(m, x.p) = 1..x.capacity

\* Blocks have one owner, and no blocks own each other in a ring.
In(k, S)  == k \notin Root /\ k[1] \in S
Unique(m) == \A j, k \in All(m) : Ptr(m, j) # None /\ Ptr(m, j) = Ptr(m, k) => j = k
Rooted(m) == \A S \in SUBSET Blocks(m) : (\A k \in All(m) : Ptr(m, k) \in S => In(k, S)) => S = {}

Tree(m) == Shape(m) /\ (\A k \in All(m) : Sound(m, At(m, k))) /\ Unique(m) /\ Rooted(m)

\* j is an element of the value at k, which has one of the types.
Child(m, k, types, j) ==
  At(m, k).type \in types /\ Ptr(m, k) # None /\ \E i \in 1..At(m, k).size : j = <<Ptr(m, k), i>>
ClosedUnder(m, types, S) == \A k \in S : \A j : Child(m, k, types, j) => j \in S

LEMMA BelowIs ==
  ASSUME NEW m, NEW S, NEW types, NEW j
  PROVE  j \in Values!Below(m, S, types) <=> \E k \in S : Child(m, k, types, j)
<1> DEFINE kids(k) == IF At(m, k).type \in types /\ At(m, k).p # None
                      THEN {<<At(m, k).p, i>> : i \in 1..At(m, k).size} ELSE {}
<1>1. Values!Below(m, S, types) = UNION {kids(k) : k \in S}
  BY DEF Values!Below, At
<1>2. \A k : j \in kids(k) <=> Child(m, k, types, j)
  BY DEF Child, At, Ptr
<1> HIDE DEF kids
<1> QED
  BY <1>1, <1>2

LEMMA ChildIsPlace ==
  ASSUME NEW m, Tree(m), NEW k \in All(m), NEW types \in SUBSET Compounds, NEW j, Child(m, k, types, j)
  PROVE  j \in All(m) /\ j \notin Root /\ j[1] = Ptr(m, k) /\ j[1] \in Blocks(m) /\ Ptr(m, k) # None
<1>1. PICK i \in 1..At(m, k).size : j = <<Ptr(m, k), i>>
  BY DEF Child
<1>2. Ptr(m, k) # None /\ At(m, k).type \in Compounds /\ Ptr(m, k) = At(m, k).p
  BY DEF Child, Ptr, At
<1>3. Shape(m) /\ Sound(m, At(m, k))
  BY DEF Tree
<1>4. Ptr(m, k) \in Blocks(m) /\ i \in Dom(m, Ptr(m, k))
  BY <1>2, <1>3 DEF Sound
<1> QED
  BY <1>1, <1>2, <1>3, <1>4, AllIs

\* A slot that points somewhere is an element.
LEMMA LiveIsChild ==
  ASSUME NEW m, Tree(m), NEW k \in All(m), Ptr(m, k) # None, NEW j \in All(m), j \notin Root,
         j[1] = Ptr(m, k), Ptr(m, j) # None
  PROVE  Child(m, k, Compounds, j)
<1>1. Shape(m) /\ Sound(m, At(m, k)) /\ At(m, k).p = Ptr(m, k)
  BY DEF Tree, At, Ptr
<1>2. j = <<j[1], j[2]>> /\ j[1] \in Blocks(m) /\ j[2] \in Dom(m, j[1])
  BY <1>1, AllIs
<1>3. j[2] \in Nat /\ j[2] >= 1
  BY <1>1, <1>2, AllIs
<1>4. Live(At(m, k), j[2])
  BY <1>1, <1>2 DEF Sound
<1>5. j[2] \in 1..At(m, k).size /\ At(m, k).type \in Compounds
  BY <1>1, <1>3, <1>4 DEF Live, Sound
<1> QED
  BY <1>2, <1>5 DEF Child

LEMMA ValuesCount == ASSUME NEW S PROVE Values!Cardinality(S) = Cardinality(S)
BY DEF Values!Cardinality, Cardinality

\* The sets that the walk of Reach goes through.
ReachWalk(m, l, types, n, w) ==
  w[0] = {l} /\ \A k \in 1..n : w[k] = {l} \cup Values!Below(m, w[k - 1], types)

LEMMA ReachWalks ==
  ASSUME NEW m, Tree(m), NEW l \in All(m), NEW types \in SUBSET Compounds
  PROVE  \E w, n : /\ n = (IF Ptr(m, l) = None THEN 0 ELSE Cardinality(Blocks(m))) /\ n \in Nat
                   /\ ReachWalk(m, l, types, n, w) /\ Values!Reach(m, l, types) = w[n]
<1> DEFINE n == IF Ptr(m, l) = None THEN 0 ELSE Cardinality(Blocks(m))
           T == SUBSET All(m)
           After(W) == {l} \cup Values!Below(m, W, types)
           step == [p \in T \X (1..n) |-> After(p[1])]
           Body(u) == [k \in 0..n |-> IF k = 0 THEN {l} ELSE After(u[k - 1])]
           w == CHOOSE u : u = Body(u)
<1>1. n \in Nat
  <2>1. Blocks(m) \in SUBSET Cell /\ IsFiniteSet(Cell)
    BY ValueAssumption DEF Tree, Shape
  <2> QED
    BY <2>1, FS_Subset, FS_CardinalityType
<1>2. ASSUME NEW W \in T PROVE After(W) \in T
  <2>1. ASSUME NEW j \in Values!Below(m, W, types) PROVE j \in All(m)
    BY <2>1, BelowIs, ChildIsPlace
  <2> QED
    BY <2>1
<1>3. {l} \in T
  OBVIOUS
<1>8. Values!Reach(m, l, types) = w[n]
  <2>1. Values!Cardinality(DOMAIN m.heap) = Cardinality(DOMAIN m.heap)
    BY ValuesCount
  <2> QED
    BY <2>1 DEF Values!Reach, Ptr, Blocks
<1> HIDE DEF n, T, After
<1>4. step \in [T \X (1..n) -> T]
  BY <1>2
<1>5. PICK z \in [0..n -> T] : IsWalk(z, {l}, n, step)
  <2> HIDE DEF step
  <2> QED BY <1>1, <1>3, <1>4, WalkExists
<1>6. ASSUME NEW k \in 1..n PROVE z[k] = After(z[k - 1])
  <2>1. z[k - 1] \in T
    BY <1>1, <1>5
  <2>2. <<z[k - 1], k>> \in T \X (1..n)
    BY <2>1
  <2>3. step[<<z[k - 1], k>>] = After(z[k - 1])
    BY <2>2
  <2> HIDE DEF step
  <2> QED
    BY <1>5, <2>3 DEF IsWalk
<1>7. z = Body(z)
  <2>1. z = [k \in 0..n |-> z[k]]
    BY <1>5
  <2>2. z[0] = {l}
    BY <1>5 DEF IsWalk
  <2>3. \A k \in 0..n : z[k] = IF k = 0 THEN {l} ELSE After(z[k - 1])
    BY <1>1, <1>6, <2>2
  <2> QED
    BY <2>1, <2>3
<1>9. w = Body(w)
  <2> HIDE DEF Body
  <2> QED BY <1>7
<1> HIDE DEF w
<1>10. w[0] = {l} /\ \A k \in 1..n : w[k] = After(w[k - 1])
  <2> DEFINE f == [k \in 0..n |-> IF k = 0 THEN {l} ELSE After(w[k - 1])]
  <2>1. w = f
    BY <1>9
  <2>2. f[0] = {l}
    BY <1>1
  <2>3. ASSUME NEW k \in 1..n PROVE f[k] = After(w[k - 1])
    BY <1>1
  <2> HIDE DEF f
  <2> QED BY <2>1, <2>2, <2>3
<1>11. ReachWalk(m, l, types, n, w)
  BY <1>10 DEF ReachWalk, After
<1> QED
  BY <1>1, <1>8, <1>11 DEF n

LEMMA WalkIn ==
  ASSUME NEW m, Tree(m), NEW l \in All(m), NEW types \in SUBSET Compounds,
         NEW n \in Nat, NEW w, ReachWalk(m, l, types, n, w)
  PROVE  \A k \in 0..n : w[k] \in SUBSET All(m) /\ l \in w[k]
<1> DEFINE T == {W \in SUBSET All(m) : l \in W}
<1>1. w[0] \in T
  BY DEF ReachWalk
<1>2. ASSUME NEW k \in 1..n, w[k - 1] \in T PROVE w[k] \in T
  <2>1. w[k] = {l} \cup Values!Below(m, w[k - 1], types)
    BY DEF ReachWalk
  <2>2. ASSUME NEW j \in Values!Below(m, w[k - 1], types) PROVE j \in All(m)
    BY <1>2, <2>2, BelowIs, ChildIsPlace
  <2> QED
    BY <2>1, <2>2
<1> HIDE DEF T
<1>3. \A k \in 0..n : w[k] \in T
  BY <1>1, <1>2, WalkStays
<1> QED
  BY <1>3 DEF T

LEMMA WalkGrows ==
  ASSUME NEW m, Tree(m), NEW l \in All(m), NEW types \in SUBSET Compounds,
         NEW n \in Nat, NEW w, ReachWalk(m, l, types, n, w)
  PROVE  \A k \in 1..n : w[k - 1] \subseteq w[k]
<1> DEFINE G == {k \in Nat : k + 1 <= n => w[k] \subseteq w[k + 1]}
<1>1. ASSUME NEW k \in Nat, k + 1 <= n PROVE w[k + 1] = {l} \cup Values!Below(m, w[k], types)
  <2>1. k + 1 \in 1..n /\ (k + 1) - 1 = k
    BY <1>1
  <2> QED
    BY <2>1 DEF ReachWalk
<1>2. 0 \in G
  BY <1>1 DEF ReachWalk
<1>3. ASSUME NEW k \in Nat, k \in G PROVE k + 1 \in G
  <2> SUFFICES ASSUME (k + 1) + 1 <= n, NEW j \in w[k + 1] PROVE j \in w[(k + 1) + 1]
    OBVIOUS
  <2>1. k + 1 <= n /\ k + 1 \in Nat
    OBVIOUS
  <2>2. w[k] \subseteq w[k + 1]
    BY <1>3, <2>1
  <2>3. w[(k + 1) + 1] = {l} \cup Values!Below(m, w[k + 1], types) /\ w[k + 1] = {l} \cup Values!Below(m, w[k], types)
    BY <1>1, <2>1
  <2>4. j \in Values!Below(m, w[k], types) => j \in Values!Below(m, w[k + 1], types)
    BY <2>2, BelowIs
  <2> QED
    BY <2>3, <2>4
<1>4. Nat \subseteq G
  <2> HIDE DEF G
  <2> QED BY <1>2, <1>3, Induction
<1>5. ASSUME NEW k \in 1..n PROVE w[k - 1] \subseteq w[k]
  <2>1. k - 1 \in Nat /\ (k - 1) + 1 = k /\ (k - 1) + 1 <= n
    OBVIOUS
  <2> QED
    BY <1>4, <2>1
<1> QED
  BY <1>5

\* The blocks that the values at W own.
BlocksOf(m, W) == {Ptr(m, k) : k \in W} \ {None}

LEMMA OwnedIs ==
  ASSUME NEW m, Tree(m), NEW W \in SUBSET All(m)
  PROVE  BlocksOf(m, W) \subseteq Blocks(m) /\ IsFiniteSet(BlocksOf(m, W)) /\ Cardinality(BlocksOf(m, W)) \in Nat
         /\ Cardinality(BlocksOf(m, W)) <= Cardinality(Blocks(m)) /\ Cardinality(Blocks(m)) \in Nat
<1>1. IsFiniteSet(Blocks(m))
  BY ValueAssumption, FS_Subset DEF Tree, Shape
<1>2. BlocksOf(m, W) \subseteq Blocks(m)
  <2>1. ASSUME NEW k \in W, Ptr(m, k) # None PROVE Ptr(m, k) \in Blocks(m)
    BY <2>1 DEF Tree, Sound, Ptr, At
  <2> QED
    BY <2>1 DEF BlocksOf
<1> QED
  BY <1>1, <1>2, FS_Subset, FS_CardinalityType

LEMMA WalkEnds ==
  ASSUME NEW m, Tree(m), NEW l \in All(m), NEW types \in SUBSET Compounds,
         NEW n \in Nat, n = Cardinality(Blocks(m)), Ptr(m, l) # None,
         NEW w, ReachWalk(m, l, types, n, w)
  PROVE  ClosedUnder(m, types, w[n])
<1> DEFINE Stable(k) == ClosedUnder(m, types, w[k])
           Many(k) == Cardinality(BlocksOf(m, w[k])) >= k + 1
           G == {k \in Nat : k <= n => Stable(k) \/ Many(k)}
<1>1. \A k \in 0..n : w[k] \in SUBSET All(m) /\ l \in w[k]
  BY WalkIn
<1>2. 0 \in G
  <2>1. w[0] = {l}
    BY DEF ReachWalk
  <2>2. BlocksOf(m, w[0]) = {Ptr(m, l)}
    BY <2>1 DEF BlocksOf
  <2>3. Cardinality({Ptr(m, l)}) = 1
    BY FS_Singleton
  <2>4. Many(0)
    BY <2>2, <2>3
  <2> QED
    BY <2>4
<1>g. \A k \in 1..n : w[k - 1] \subseteq w[k]
  BY WalkGrows
<1>3. ASSUME NEW k \in Nat, k \in G PROVE k + 1 \in G
  <2> SUFFICES ASSUME k + 1 <= n, ~Stable(k + 1) PROVE Many(k + 1)
    OBVIOUS
  <2>0. k + 1 \in 1..n /\ (k + 1) - 1 = k /\ k \in 0..n /\ k + 1 \in 0..n
    OBVIOUS
  <2>1. w[k + 1] = {l} \cup Values!Below(m, w[k], types) /\ w[k] \subseteq w[k + 1]
    BY <1>g, <2>0 DEF ReachWalk
  <2>2. PICK j, x : j \in w[k + 1] /\ Child(m, j, types, x) /\ x \notin w[k + 1]
    BY DEF ClosedUnder
  <2>3. j \notin w[k]
    BY <2>1, <2>2, BelowIs
  <2>4. Many(k)
    <3>1. CASE Stable(k)
      <4>1. w[k + 1] \subseteq w[k]
        BY <1>1, <2>0, <2>1, <3>1, BelowIs DEF ClosedUnder
      <4> QED
        BY <2>2, <2>3, <4>1
    <3> QED
      BY <1>3, <2>0, <3>1
  <2>5. Ptr(m, j) \notin BlocksOf(m, w[k])
    <3>1. ASSUME NEW i \in w[k], Ptr(m, i) = Ptr(m, j) PROVE FALSE
      <4>1. Ptr(m, j) # None /\ i \in All(m) /\ j \in All(m)
        BY <1>1, <2>0, <2>2 DEF Child
      <4>2. i = j
        BY <3>1, <4>1 DEF Tree, Unique
      <4> QED
        BY <2>3, <4>2
    <3> QED
      BY <3>1 DEF BlocksOf
  <2>6. BlocksOf(m, w[k]) \cup {Ptr(m, j)} \subseteq BlocksOf(m, w[k + 1])
    BY <2>1, <2>2 DEF BlocksOf, Child
  <2>7. /\ IsFiniteSet(BlocksOf(m, w[k])) /\ Cardinality(BlocksOf(m, w[k])) \in Nat
        /\ IsFiniteSet(BlocksOf(m, w[k + 1])) /\ Cardinality(BlocksOf(m, w[k + 1])) \in Nat
    BY <1>1, <2>0, OwnedIs
  <2>8. Cardinality(BlocksOf(m, w[k]) \cup {Ptr(m, j)}) = Cardinality(BlocksOf(m, w[k])) + 1
    BY <2>5, <2>7, FS_AddElement
  <2>9. Cardinality(BlocksOf(m, w[k]) \cup {Ptr(m, j)}) <= Cardinality(BlocksOf(m, w[k + 1]))
    BY <2>6, <2>7, FS_Subset
  <2> QED
    BY <2>4, <2>7, <2>8, <2>9
<1>4. n \in G
  <2> HIDE DEF G
  <2> QED BY <1>2, <1>3, Induction
<1>5. ~Many(n)
  <2>1. w[n] \in SUBSET All(m)
    BY <1>1
  <2>2. Cardinality(BlocksOf(m, w[n])) \in Nat /\ Cardinality(BlocksOf(m, w[n])) <= n
    BY <2>1, OwnedIs
  <2> QED
    BY <2>2
<1> QED
  BY <1>4, <1>5

\* What Reach gives: the places that one comes to from l, and no others.
LEMMA ReachIs ==
  ASSUME NEW m, Tree(m), NEW l \in All(m), NEW types \in SUBSET Compounds, NEW R, R = Values!Reach(m, l, types)
  PROVE  /\ l \in R /\ R \subseteq All(m) /\ ClosedUnder(m, types, R)
         /\ \A k \in R : k # l => \E j \in R : Child(m, j, types, k)
<1>1. PICK w, n : /\ n = (IF Ptr(m, l) = None THEN 0 ELSE Cardinality(Blocks(m))) /\ n \in Nat
                  /\ ReachWalk(m, l, types, n, w) /\ Values!Reach(m, l, types) = w[n]
  BY ReachWalks
<1>2. l \in w[n] /\ w[n] \subseteq All(m)
  BY <1>1, WalkIn
<1>3. ClosedUnder(m, types, w[n])
  <2>1. CASE Ptr(m, l) = None
    <3>1. w[n] = {l}
      BY <1>1, <2>1 DEF ReachWalk
    <3> QED
      BY <2>1, <3>1 DEF ClosedUnder, Child
  <2>2. CASE Ptr(m, l) # None
    BY <1>1, <2>2, WalkEnds
  <2> QED
    BY <2>1, <2>2
<1>g. \A k \in 1..n : w[k - 1] \subseteq w[k]
  BY <1>1, WalkGrows
<1>4. ASSUME NEW k \in w[n], k # l PROVE \E j \in w[n] : Child(m, j, types, k)
  <2>1. n \in 1..n /\ n - 1 \in Nat
    <3>1. n # 0
      BY <1>1, <1>4 DEF ReachWalk
    <3> QED
      BY <1>1, <3>1
  <2>2. w[n] = {l} \cup Values!Below(m, w[n - 1], types) /\ w[n - 1] \subseteq w[n]
    BY <1>1, <1>g, <2>1 DEF ReachWalk
  <2> QED
    BY <1>4, <2>2, BelowIs
<1> QED
  BY <1>1, <1>2, <1>3, <1>4

\* A place of the program: a variable, or an element of some value.
Alive(m, k) == k \in Root \/ \E j \in All(m) : Child(m, j, Compounds, k)

LEMMA InsideIs ==
  ASSUME NEW m, Tree(m), NEW l \in All(m), NEW R, R = Values!Inside(m, l)
  PROVE  /\ l \in R /\ R \subseteq All(m) /\ ClosedUnder(m, Compounds, R)
         /\ \A k \in R : k # l => \E j \in R : Child(m, j, Compounds, k)
         /\ Alive(m, l) => \A k \in R : Alive(m, k)
         /\ Values!Pointers(m, l) = BlocksOf(m, R)
<1>1. R = Values!Reach(m, l, Compounds)
  BY DEF Values!Inside, Compounds
<1>2. /\ l \in R /\ R \subseteq All(m) /\ ClosedUnder(m, Compounds, R)
      /\ \A k \in R : k # l => \E j \in R : Child(m, j, Compounds, k)
  BY <1>1, ReachIs
<1>3. Values!Pointers(m, l) = BlocksOf(m, R)
  BY DEF Values!Pointers, BlocksOf, Ptr
<1>4. Alive(m, l) => \A k \in R : Alive(m, k)
  BY <1>2 DEF Alive
<1> QED
  BY <1>2, <1>3, <1>4

\* A slot in a block of the values at W that is an element, or that points somewhere, is in W.
LEMMA InOwned ==
  ASSUME NEW m, Tree(m), NEW W \in SUBSET All(m), ClosedUnder(m, Compounds, W),
         NEW k \in All(m), In(k, BlocksOf(m, W)), Ptr(m, k) # None \/ Alive(m, k)
  PROVE  k \in W
<1>1. k \notin Root
  BY DEF In
<1>2. PICK j \in W : k[1] = Ptr(m, j) /\ Ptr(m, j) # None
  BY DEF In, BlocksOf
<1>3. Child(m, j, Compounds, k)
  <2>1. CASE Ptr(m, k) # None
    BY <1>1, <1>2, <2>1, LiveIsChild
  <2>2. CASE Alive(m, k)
    <3>1. PICK i \in All(m) : Child(m, i, Compounds, k)
      BY <1>1, <2>2 DEF Alive
    <3>2. Ptr(m, i) = k[1]
      BY <3>1, ChildIsPlace
    <3>3. i = j
      BY <1>2, <3>2 DEF Tree, Unique
    <3> QED
      BY <3>1, <3>3
  <2> QED
    BY <2>1, <2>2
<1> QED
  BY <1>3 DEF ClosedUnder

\* No value is an element below itself.
LEMMA NoRing ==
  ASSUME NEW m, Tree(m), NEW l \in All(m)
  PROVE  ~In(l, BlocksOf(m, Values!Inside(m, l)))
<1> DEFINE R == Values!Inside(m, l)
           D == BlocksOf(m, R)
<1>1. /\ l \in R /\ R \subseteq All(m) /\ ClosedUnder(m, Compounds, R)
      /\ \A k \in R : k # l => \E j \in R : Child(m, j, Compounds, k)
  BY InsideIs
<1> HIDE DEF R
<1>2. D \subseteq Blocks(m)
  BY <1>1, OwnedIs
<1>3. ASSUME In(l, D), NEW k \in All(m), Ptr(m, k) \in D PROVE In(k, D)
  <2>1. PICK i \in R : Ptr(m, k) = Ptr(m, i) /\ Ptr(m, i) # None
    BY <1>3 DEF BlocksOf
  <2>2. k = i
    BY <1>1, <2>1 DEF Tree, Unique
  <2>3. CASE k = l
    BY <1>3, <2>3
  <2>4. CASE k # l
    <3>1. PICK j \in R : Child(m, j, Compounds, k)
      BY <1>1, <2>1, <2>2, <2>4
    <3>2. k \notin Root /\ k[1] = Ptr(m, j) /\ Ptr(m, j) # None
      BY <1>1, <3>1, ChildIsPlace
    <3> QED
      BY <3>2 DEF In, BlocksOf
  <2> QED
    BY <2>3, <2>4
<1>4. ASSUME In(l, D) PROVE FALSE
  <2>1. D # {}
    BY <1>4 DEF In
  <2> HIDE DEF D
  <2> QED
    BY <1>2, <1>3, <1>4, <2>1 DEF Tree, Rooted
<1> QED
  BY <1>4 DEF R

\* The pointers of n are those of m to its blocks, where they were.
LEMMA TreeKept ==
  ASSUME NEW m, Tree(m), NEW n, Shape(n), Blocks(n) \subseteq Blocks(m),
         \A k \in All(n) : Sound(n, At(n, k)),
         \A k \in All(n) : Ptr(n, k) # None => k \in All(m) /\ Ptr(n, k) = Ptr(m, k),
         \A k \in All(m) : Ptr(m, k) \in Blocks(n) => k \in All(n) /\ Ptr(n, k) = Ptr(m, k)
  PROVE  Tree(n)
<1>1. Unique(n)
  BY DEF Tree, Unique
<1>2. ASSUME NEW S \in SUBSET Blocks(n), \A k \in All(n) : Ptr(n, k) \in S => In(k, S) PROVE S = {}
  <2>1. \A k \in All(m) : Ptr(m, k) \in S => In(k, S)
    BY <1>2
  <2> QED
    BY <2>1 DEF Tree, Rooted
<1> QED
  BY <1>1, <1>2 DEF Tree, Rooted

\* A new block f for the value at l, which had none.
LEMMA TreeGrown ==
  ASSUME NEW m, Tree(m), NEW n, Shape(n), NEW f, f \in Cell \ Blocks(m), Blocks(n) = Blocks(m) \cup {f},
         NEW l \in All(m), l \in All(n), Ptr(m, l) = None, Ptr(n, l) = f,
         \A k \in All(n) : Sound(n, At(n, k)),
         \A k \in All(n) \ {l} : Ptr(n, k) # None => k \in All(m) /\ Ptr(n, k) = Ptr(m, k),
         \A k \in All(m) \ {l} : Ptr(m, k) # None => k \in All(n) /\ Ptr(n, k) = Ptr(m, k)
  PROVE  Tree(n)
<1>0. \A k \in All(m) : Ptr(m, k) # None => Ptr(m, k) \in Blocks(m)
  BY DEF Tree, Sound, At, Ptr
<1>1. Unique(n)
  <2> SUFFICES ASSUME NEW j \in All(n), NEW k \in All(n), Ptr(n, j) # None, Ptr(n, j) = Ptr(n, k) PROVE j = k
    BY DEF Unique
  <2>1. CASE j # l /\ k # l
    BY <2>1 DEF Tree, Unique
  <2>2. \A i \in All(n) \ {l} : Ptr(n, i) # f
    <3>1. f # None
      BY ValueAssumption
    <3> QED
      BY <1>0, <3>1
  <2> QED
    BY <2>1, <2>2
<1>2. ASSUME NEW S \in SUBSET Blocks(n), \A k \in All(n) : Ptr(n, k) \in S => In(k, S) PROVE S = {}
  <2>0. None \notin S
    BY ValueAssumption DEF Shape
  <2>1. ASSUME NEW k \in All(m), Ptr(m, k) \in S \ {f} PROVE In(k, S \ {f})
    <3>1. k # l /\ Ptr(m, k) # None
      BY <2>0, <2>1
    <3>2. In(k, S)
      BY <1>2, <2>1, <3>1
    <3>3. k[1] \in Blocks(m)
      BY <3>2, AllIs DEF In, Tree
    <3> QED
      BY <3>2, <3>3 DEF In
  <2>2. S \ {f} = {}
    BY <2>1 DEF Tree, Rooted
  <2>3. f \notin S
    <3>1. ASSUME f \in S PROVE FALSE
      <4>1. In(l, S)
        BY <1>2, <3>1
      <4>2. l[1] = f /\ l \notin Root
        BY <2>2, <4>1 DEF In
      <4> QED
        BY <4>2, AllIs DEF Tree
    <3> QED
      BY <3>1
  <2> QED
    BY <2>2, <2>3
<1> QED
  BY <1>1, <1>2 DEF Tree, Rooted

LEMMA NoneIsNoBlock == ASSUME NEW m, Shape(m) PROVE None \notin Blocks(m)
BY ValueAssumption DEF Shape

LEMMA GarbageIs ==
  /\ \A type : type # "string" => \A m : Sound(m, Values!Simple(type))
  /\ \A type : Values!Simple(type).p = None /\ Values!Simple(type).size = 0 /\ Values!Simple(type).type = type
  /\ Values!Null = Values!Simple("null") /\ Values!Garbage = Values!Simple("garbage")
BY DEF Sound, Values!Simple, Values!Value, Values!Null, Values!Garbage

\* A value stays sound in a memory with the same slots in its block, if the slots that point
\* somewhere are still those.
LEMMA SoundStays ==
  ASSUME NEW m, NEW n, NEW x, Sound(m, x),
         x.p # None => /\ x.p \in Blocks(n) /\ Dom(n, x.p) = Dom(m, x.p)
                       /\ \A i \in Dom(m, x.p) : Ptr(n, <<x.p, i>>) # None =>
                            Ptr(m, <<x.p, i>>) # None \/ Live(x, i)
  PROVE  Sound(n, x)
BY DEF Sound

\* lept_free
LEMMA FreeIs ==
  ASSUME NEW m, Tree(m), NEW l \in All(m), NEW n, n = Values!Free(m, l), NEW R, R = Values!Inside(m, l)
  PROVE  /\ Tree(n) /\ l \in All(n) /\ At(n, l) = Values!Null /\ Ptr(n, l) = None
         /\ Blocks(n) = Blocks(m) \ BlocksOf(m, R) /\ \A c \in Blocks(n) : Dom(n, c) = Dom(m, c)
         /\ \A k : k \in All(n) <=> k \in All(m) /\ ~In(k, BlocksOf(m, R))
         /\ \A k \in All(n) : k # l => At(n, k) = At(m, k)
         /\ \A k \in All(n) : Alive(m, k) => Alive(n, k)
<1> DEFINE B == BlocksOf(m, R)
           f == Values!Release(m, B)
<1>0. /\ l \in R /\ R \subseteq All(m) /\ ClosedUnder(m, Compounds, R)
      /\ \A k \in R : k # l => \E j \in R : Child(m, j, Compounds, k)
      /\ Values!Pointers(m, l) = B
  BY InsideIs
<1>1. n = Values!Put(f, l, Values!Null)
  BY <1>0 DEF Values!Free
<1>s. Shape(m)
  BY DEF Tree
<1> HIDE DEF B
<1>2. /\ Shape(f) /\ Blocks(f) = Blocks(m) \ B /\ \A c \in Blocks(f) : Dom(f, c) = Dom(m, c)
      /\ \A k : k \in All(f) <=> k \in All(m) /\ (k \notin Root => k[1] \notin B)
      /\ \A k \in All(f) : At(f, k) = At(m, k)
  BY <1>s, ReleaseIs
<1> HIDE DEF f
<1>3. l \in All(f)
  BY <1>2, NoRing DEF In, B
<1>4. /\ Shape(n) /\ Blocks(n) = Blocks(f) /\ \A c \in Blocks(f) : Dom(n, c) = Dom(f, c)
      /\ All(n) = All(f) /\ At(n, l) = Values!Null /\ \A k \in All(f) : k # l => At(n, k) = At(f, k)
  BY <1>1, <1>2, <1>3, PutIs
<1>5. Blocks(n) = Blocks(m) \ B /\ \A c \in Blocks(n) : Dom(n, c) = Dom(m, c)
  BY <1>2, <1>4
<1>6. \A k : k \in All(n) <=> k \in All(m) /\ ~In(k, B)
  BY <1>2, <1>4 DEF In
<1>7. \A k \in All(n) : k # l => At(n, k) = At(m, k)
  BY <1>2, <1>4
<1>8. Ptr(n, l) = None
  BY <1>4, GarbageIs DEF Ptr, At
<1>9. \A k \in All(n) : Ptr(n, k) # None => k # l /\ k \in All(m) /\ Ptr(n, k) = Ptr(m, k)
  BY <1>6, <1>7, <1>8 DEF Ptr, At
<1>10. ASSUME NEW k \in All(m), Ptr(m, k) \in Blocks(n) PROVE k \in All(n) /\ k # l /\ Ptr(n, k) = Ptr(m, k)
  <2>1. Ptr(m, k) \notin B /\ Ptr(m, k) # None
    BY <1>5, <1>10, NoneIsNoBlock, <1>s
  <2>2. k \notin R
    BY <2>1 DEF B, BlocksOf
  <2>3. ~In(k, B)
    BY <1>0, <2>1, <2>2, InOwned DEF B
  <2> QED
    BY <1>0, <1>6, <1>7, <2>2, <2>3 DEF Ptr, At
<1>11. ASSUME NEW k \in All(n), k # l, Ptr(m, k) # None PROVE Ptr(m, k) \in Blocks(n)
  <2>1. ASSUME Ptr(m, k) \in B PROVE FALSE
    <3>1. PICK j \in R : Ptr(m, j) = Ptr(m, k)
      BY <2>1 DEF B, BlocksOf
    <3>2. j = k
      BY <1>0, <1>6, <1>11, <3>1 DEF Tree, Unique
    <3>3. PICK i \in R : Child(m, i, Compounds, k)
      BY <1>0, <1>11, <3>1, <3>2
    <3>4. k \notin Root /\ k[1] = Ptr(m, i) /\ Ptr(m, i) # None
      BY <1>0, <3>3, ChildIsPlace
    <3>5. In(k, B)
      BY <3>3, <3>4 DEF In, B, BlocksOf
    <3> QED
      BY <1>6, <1>11, <3>5
  <2>2. Ptr(m, k) \in Blocks(m)
    BY <1>6, <1>11 DEF Tree, Sound, Ptr, At
  <2> QED
    BY <1>5, <2>1, <2>2
<1>12. ASSUME NEW k \in All(n) PROVE Sound(n, At(n, k))
  <2>1. CASE k = l
    BY <1>4, <2>1, GarbageIs
  <2>2. CASE k # l
    <3> DEFINE x == At(m, k)
    <3>1. At(n, k) = x /\ Sound(m, x) /\ x.p = Ptr(m, k)
      BY <1>6, <1>7, <2>2 DEF Tree, At, Ptr
    <3> HIDE DEF x
    <3>2. x.p # None => x.p \in Blocks(n) /\ Dom(n, x.p) = Dom(m, x.p)
      BY <1>5, <1>11, <2>2, <3>1
    <3>3. ASSUME x.p # None, NEW i \in Dom(m, x.p), Ptr(n, <<x.p, i>>) # None PROVE Ptr(m, <<x.p, i>>) # None
      <4>1. <<x.p, i>> \in All(n)
        BY <1>4, <3>2, <3>3, AllIs
      <4> QED
        BY <1>9, <3>3, <4>1
    <3> QED
      BY <3>1, <3>2, <3>3, SoundStays
  <2> QED
    BY <2>1, <2>2
<1>13. Tree(n)
  BY <1>4, <1>5, <1>9, <1>10, <1>12, TreeKept
<1>14. ASSUME NEW k \in All(n), Alive(m, k) PROVE Alive(n, k)
  <2>1. CASE k \in Root
    BY <2>1 DEF Alive
  <2>2. CASE k \notin Root
    <3>1. PICK j \in All(m) : Child(m, j, Compounds, k)
      BY <1>14, <2>2 DEF Alive
    <3>2. Ptr(m, j) = k[1] /\ k[1] \in Blocks(m)
      BY <3>1, ChildIsPlace
    <3>3. k[1] \notin B
      BY <1>6, <2>2 DEF In
    <3>4. j \in All(n) /\ j # l
      BY <1>5, <1>10, <3>2, <3>3
    <3>5. At(n, j) = At(m, j)
      BY <1>7, <3>4
    <3>6. Child(n, j, Compounds, k)
      BY <3>1, <3>5 DEF Child, Ptr, At
    <3> QED
      BY <3>4, <3>6 DEF Alive
  <2> QED
    BY <2>1, <2>2
<1> QED
  BY <1>4, <1>5, <1>6, <1>7, <1>8, <1>3, <1>13, <1>14 DEF B

LEMMA InsideNone ==
  ASSUME NEW m, Tree(m), NEW l \in All(m), Ptr(m, l) = None
  PROVE  Values!Inside(m, l) = {l} /\ BlocksOf(m, {l}) = {}
<1>1. Values!Inside(m, l) = Values!Reach(m, l, Compounds)
  BY DEF Values!Inside, Compounds
<1>2. PICK w, n : n = 0 /\ ReachWalk(m, l, Compounds, n, w) /\ Values!Reach(m, l, Compounds) = w[n]
  BY ReachWalks
<1> QED
  BY <1>1, <1>2 DEF ReachWalk, BlocksOf

LEMMA AliveIsLive ==
  ASSUME NEW m, Tree(m), NEW l \in All(m), Alive(m, l), NEW k \in All(m), NEW i, l = <<Ptr(m, k), i>>,
         Ptr(m, k) # None, i \in Dom(m, Ptr(m, k))
  PROVE  Live(At(m, k), i) /\ i \in 1..At(m, k).size
<1>1. l \notin Root /\ l[1] = Ptr(m, k) /\ l[2] = i
  BY AllIs DEF Tree, Sound, Ptr, At
<1>2. PICK j \in All(m) : Child(m, j, Compounds, l)
  BY <1>1 DEF Alive
<1>3. Ptr(m, j) = l[1]
  BY <1>2, ChildIsPlace
<1>4. j = k
  BY <1>1, <1>3 DEF Tree, Unique
<1>5. PICK h \in 1..At(m, k).size : l = <<Ptr(m, k), h>>
  BY <1>2, <1>4 DEF Child
<1>6. h = i
  BY <1>1, <1>5
<1>7. At(m, k).size \in Nat
  BY DEF Tree, Sound
<1> QED
  BY <1>2, <1>4, <1>5, <1>6, <1>7 DEF Live, Child

\* Another value with the same block.
LEMMA PutKeeps ==
  ASSUME NEW m, Tree(m), NEW l \in All(m), NEW x, Sound(m, x), x.p = Ptr(m, l), NEW n, n = Values!Put(m, l, x)
  PROVE  /\ Tree(n) /\ Blocks(n) = Blocks(m) /\ \A c \in Blocks(m) : Dom(n, c) = Dom(m, c)
         /\ All(n) = All(m) /\ At(n, l) = x /\ \A k \in All(m) : k # l => At(n, k) = At(m, k)
         /\ \A k \in All(m) : Ptr(n, k) = Ptr(m, k)
<1>1. Shape(m)
  BY DEF Tree
<1>2. /\ Shape(n) /\ Blocks(n) = Blocks(m) /\ \A c \in Blocks(m) : Dom(n, c) = Dom(m, c)
      /\ All(n) = All(m) /\ At(n, l) = x /\ \A k \in All(m) : k # l => At(n, k) = At(m, k)
  BY <1>1, PutIs
<1>3. \A k \in All(m) : Ptr(n, k) = Ptr(m, k)
  BY <1>2 DEF Ptr, At
<1>4. ASSUME NEW k \in All(m) PROVE Sound(n, At(n, k))
  <2> DEFINE y == At(n, k)
  <2>1. Sound(m, y)
    BY <1>2 DEF Tree
  <2> HIDE DEF y
  <2>2. ASSUME y.p # None PROVE y.p \in Blocks(m)
    BY <2>1, <2>2 DEF Sound
  <2>3. ASSUME y.p # None, NEW i \in Dom(m, y.p) PROVE Ptr(n, <<y.p, i>>) = Ptr(m, <<y.p, i>>)
    <3>1. <<y.p, i>> \in All(m)
      BY <1>1, <2>2, <2>3, AllIs
    <3> QED
      BY <1>3, <3>1
  <2>4. Sound(n, y)
    BY <1>2, <2>1, <2>2, <2>3, SoundStays
  <2> QED
    BY <2>4 DEF y
<1>5. \A k \in All(m) : Ptr(m, k) \in Blocks(n) => k \in All(n) /\ Ptr(n, k) = Ptr(m, k)
  BY <1>2, <1>3
<1>6. Tree(n)
  BY <1>2, <1>3, <1>4, <1>5, TreeKept
<1> QED
  BY <1>2, <1>3, <1>6

\* A value with a new block of size slots, at a place that had none.
FitsBlock(x, count) ==
  /\ x = Values!Value(x.type, x.p, x.size, x.capacity) /\ x.size \in Nat /\ x.type \in Compounds \cup {"string"}
  /\ x.type \in Compounds => x.size <= count
  /\ x.type = "array" /\ x.capacity # Unset => x.capacity = count

LEMMA NewIs ==
  ASSUME NEW m, Tree(m), Values!Room(m), NEW count \in Nat, NEW l \in All(m), Alive(m, l), Ptr(m, l) = None,
         NEW f, f = Values!Fresh(m), NEW x, FitsBlock(x, count), x.p = f, NEW n, n = Values!Put(Values!Malloc(m, count), l, x)
  PROVE  /\ Tree(n) /\ f \in Cell \ Blocks(m) /\ Blocks(n) = Blocks(m) \cup {f} /\ Dom(n, f) = 1..count
         /\ \A c \in Blocks(m) : Dom(n, c) = Dom(m, c)
         /\ All(m) \subseteq All(n) /\ At(n, l) = x /\ \A k \in All(m) : k # l => At(n, k) = At(m, k)
         /\ \A i \in 1..count : <<f, i>> \in All(n) /\ <<f, i>> # l /\ At(n, <<f, i>>) = Values!Garbage
         /\ x.type \in Compounds => \A i \in 1..x.size : Alive(n, <<f, i>>)
<1> DEFINE a == Values!Malloc(m, count)
<1>1. Shape(m)
  BY DEF Tree
<1>2. /\ Shape(a) /\ f \in Cell \ Blocks(m) /\ Blocks(a) = Blocks(m) \cup {f} /\ Dom(a, f) = 1..count
      /\ \A c \in Blocks(m) : Dom(a, c) = Dom(m, c)
      /\ All(m) \subseteq All(a) /\ \A k \in All(m) : At(a, k) = At(m, k)
      /\ \A i \in 1..count : At(a, <<f, i>>) = Values!Garbage
      /\ \A k \in All(a) \ All(m) : \E i \in 1..count : k = <<f, i>>
  BY <1>1, MallocIs
<1> HIDE DEF a
<1>3. /\ Shape(n) /\ Blocks(n) = Blocks(a) /\ \A c \in Blocks(a) : Dom(n, c) = Dom(a, c)
      /\ All(n) = All(a) /\ At(n, l) = x /\ \A k \in All(a) : k # l => At(n, k) = At(a, k)
  <2>1. n = Values!Put(a, l, x) /\ l \in All(a)
    BY <1>2 DEF a
  <2> QED
    BY <1>2, <2>1, PutIs
<1>4. \A k \in All(m) : k # l => At(n, k) = At(m, k)
  BY <1>2, <1>3
<1>5. ASSUME NEW i \in 1..count PROVE <<f, i>> \in All(n) /\ <<f, i>> # l /\ At(n, <<f, i>>) = Values!Garbage
  <2>1. <<f, i>> \in All(a) /\ <<f, i>> \notin Root
    BY <1>2, AllIs
  <2>2. <<f, i>> # l
    BY <1>1, <1>2, <2>1, AllIs
  <2> QED
    BY <1>2, <1>3, <2>1, <2>2
<1>6. Ptr(n, l) = f /\ f # None
  BY <1>2, <1>3, ValueAssumption DEF Ptr, At
<1>7. ASSUME NEW k \in All(n), k # l, Ptr(n, k) # None PROVE k \in All(m) /\ Ptr(n, k) = Ptr(m, k)
  <2>1. k \in All(m)
    <3>1. ASSUME k \notin All(m) PROVE FALSE
      <4>1. PICK i \in 1..count : k = <<f, i>>
        BY <1>2, <1>3, <3>1
      <4>2. At(n, k) = Values!Garbage
        BY <1>5, <4>1
      <4> QED
        BY <1>7, <4>2, GarbageIs DEF Ptr, At
    <3> QED
      BY <3>1
  <2> QED
    BY <1>4, <1>7, <2>1 DEF Ptr, At
<1>8. \A k \in All(m) \ {l} : Ptr(m, k) # None => k \in All(n) /\ Ptr(n, k) = Ptr(m, k)
  BY <1>2, <1>3, <1>4 DEF Ptr, At
<1>9. ASSUME NEW k \in All(n) PROVE Sound(n, At(n, k))
  <2>1. CASE k = l
    <3>1. ASSUME NEW i \in 1..count PROVE Ptr(n, <<f, i>>) = None
      BY <1>5, GarbageIs DEF Ptr, At
    <3>2. Dom(n, x.p) = 1..count /\ x.p \in Blocks(n) /\ x.p # None
      BY <1>2, <1>3, <1>6
    <3>3. Sound(n, x)
      BY <3>1, <3>2 DEF Sound, FitsBlock
    <3> QED
      BY <1>3, <2>1, <3>3
  <2>2. CASE k \notin All(m)
    <3>1. PICK i \in 1..count : k = <<f, i>>
      BY <1>2, <1>3, <2>2
    <3> QED
      BY <1>5, <3>1, GarbageIs
  <2>3. CASE k \in All(m) /\ k # l
    <3> DEFINE y == At(m, k)
    <3>1. At(n, k) = y /\ Sound(m, y) /\ y.p = Ptr(m, k)
      BY <1>4, <2>3 DEF Tree, At, Ptr
    <3> HIDE DEF y
    <3>2. y.p # None => y.p \in Blocks(m) /\ y.p \in Blocks(n) /\ Dom(n, y.p) = Dom(m, y.p)
      BY <1>2, <1>3, <3>1 DEF Sound
    <3>3. ASSUME y.p # None, NEW i \in Dom(m, y.p), Ptr(n, <<y.p, i>>) # None
          PROVE Ptr(m, <<y.p, i>>) # None \/ Live(y, i)
      <4>1. <<y.p, i>> \in All(m)
        BY <1>1, <3>2, <3>3, AllIs
      <4>2. CASE <<y.p, i>> # l
        BY <1>2, <1>3, <1>7, <3>3, <4>1, <4>2
      <4>3. CASE <<y.p, i>> = l
        <5>1. Live(At(m, k), i)
          BY <2>3, <3>1, <3>3, <4>3, AliveIsLive
        <5> QED
          BY <5>1 DEF y
      <4> QED
        BY <4>2, <4>3
    <3>4. Sound(n, y)
      BY <3>1, <3>2, <3>3, SoundStays
    <3> QED
      BY <3>1, <3>4
  <2> QED
    BY <2>1, <2>2, <2>3
<1>10. Tree(n)
  BY <1>2, <1>3, <1>6, <1>7, <1>8, <1>9, TreeGrown
<1>11. ASSUME x.type \in Compounds, NEW i \in 1..x.size PROVE Alive(n, <<f, i>>)
  <2>1. Child(n, l, Compounds, <<f, i>>) /\ l \in All(n)
    BY <1>2, <1>3, <1>6, <1>11 DEF Child, Ptr, At
  <2> QED
    BY <2>1 DEF Alive
<1>12. \A c \in Blocks(m) : Dom(n, c) = Dom(m, c)
  BY <1>2, <1>3
<1>13. Dom(n, f) = 1..count /\ Blocks(n) = Blocks(m) \cup {f} /\ All(m) \subseteq All(n)
  BY <1>2, <1>3
<1> QED
  BY <1>2, <1>3, <1>4, <1>5, <1>10, <1>11, <1>12, <1>13

\* lept_set_boolean, lept_set_number, lept_set_null
LEMMA SetSimpleIs ==
  ASSUME NEW m, Tree(m), NEW l \in All(m), NEW type, type # "string"
  PROVE  Tree(Values!SetSimple(m, l, Values!Simple(type)))
<1> DEFINE f == Values!Free(m, l)
<1>1. Tree(f) /\ l \in All(f) /\ Ptr(f, l) = None
  BY FreeIs
<1>2. Sound(f, Values!Simple(type)) /\ Values!Simple(type).p = None
  BY GarbageIs
<1>3. Values!SetSimple(m, l, Values!Simple(type)) = Values!Put(f, l, Values!Simple(type))
  BY DEF Values!SetSimple
<1> HIDE DEF f
<1> QED
  BY <1>1, <1>2, <1>3, PutKeeps

\* lept_set_string
LEMMA SetStringIs ==
  ASSUME NEW m, Tree(m), NEW l \in All(m), Alive(m, l), Values!Room(Values!Free(m, l)), NEW count \in Nat,
         NEW n, n = Values!SetString(m, l, count)
  PROVE  /\ Tree(n)
         /\ \A k \in All(m) : k # l /\ ~In(k, BlocksOf(m, Values!Inside(m, l))) => k \in All(n) /\ At(n, k) = At(m, k)
<1> DEFINE f == Values!Free(m, l)
           x == Values!Value("string", Values!Fresh(f), count, 0)
<1>1. /\ Tree(f) /\ l \in All(f) /\ Ptr(f, l) = None /\ Alive(f, l)
      /\ \A k \in All(m) : k # l /\ ~In(k, BlocksOf(m, Values!Inside(m, l))) => k \in All(f) /\ At(f, k) = At(m, k)
  BY FreeIs
<1>2. n = Values!Put(Values!Malloc(f, 0), l, x)
  BY DEF Values!SetString
<1>3. FitsBlock(x, 0) /\ x.p = Values!Fresh(f)
  BY DEF FitsBlock, Values!Value, Compounds
<1>4. Values!Room(f)
  OBVIOUS
<1> HIDE DEF f, x
<1>5. Tree(n) /\ All(f) \subseteq All(n) /\ \A k \in All(f) : k # l => At(n, k) = At(f, k)
  BY <1>1, <1>2, <1>3, <1>4, NewIs
<1> QED
  BY <1>1, <1>5

\* lept_set_array
LEMMA SetArrayIs ==
  ASSUME NEW m, Tree(m), NEW l \in All(m), Alive(m, l), Values!Room(Values!Free(m, l)), NEW count \in Nat
  PROVE  Tree(Values!SetArray(m, l, count))
<1> DEFINE f == Values!Free(m, l)
           x == Values!Value("array", Values!Fresh(f), 0, count)
           y == Values!Value("array", None, 0, 0)
           n == Values!SetArray(m, l, count)
<1>1. /\ Tree(f) /\ l \in All(f) /\ Ptr(f, l) = None /\ Alive(f, l)
  BY FreeIs
<1>2. n = IF count = 0 THEN Values!Put(f, l, y) ELSE Values!Put(Values!Malloc(f, count), l, x)
  BY DEF Values!SetArray
<1>3. FitsBlock(x, count) /\ x.p = Values!Fresh(f)
  BY DEF FitsBlock, Values!Value, Compounds
<1>4. Sound(f, y) /\ y.p = None
  BY DEF Sound, Values!Value
<1>5. Values!Room(f)
  OBVIOUS
<1> HIDE DEF f, x, y, n
<1>6. count = 0 => Tree(n)
  BY <1>1, <1>2, <1>4, PutKeeps
<1>7. count # 0 => Tree(n)
  BY <1>1, <1>2, <1>3, <1>5, NewIs
<1> QED
  BY <1>6, <1>7 DEF n

\* The block of an array made larger or smaller, around its elements.
LEMMA ResizeIs ==
  ASSUME NEW m, Tree(m), NEW l \in All(m), NEW x, x = At(m, l), x.type = "array", x.p # None,
         NEW count \in Nat, x.size <= count,
         NEW n, n = Values!Put(Values!Resized(m, x.p, count), l, [x EXCEPT !.capacity = count])
  PROVE  /\ Tree(n) /\ At(n, l) = [x EXCEPT !.capacity = count] /\ Dom(n, x.p) = 1..count /\ l \in All(n)
         /\ x.p \in Blocks(n)
<1> DEFINE a == Values!Resized(m, x.p, count)
           y == [x EXCEPT !.capacity = count]
<1>1. Shape(m) /\ Sound(m, x) /\ x.p = Ptr(m, l)
  BY DEF Tree, At, Ptr
<1>2. x.p \in Blocks(m) /\ x.size \in Nat /\ x = Values!Value(x.type, x.p, x.size, x.capacity)
  BY <1>1 DEF Sound
<1>3. /\ Shape(a) /\ Blocks(a) = Blocks(m) /\ Dom(a, x.p) = 1..count
      /\ \A c \in Blocks(m) : c # x.p => Dom(a, c) = Dom(m, c)
      /\ \A k \in All(a) : At(a, k) = IF k \in All(m) THEN At(m, k) ELSE Values!Garbage
      /\ \A k \in All(m) : (k \notin Root /\ k[1] = x.p => k[2] <= count) => k \in All(a)
      /\ \A k \in All(a) \ All(m) : k \notin Root /\ k[1] = x.p
  BY <1>1, <1>2, ResizedIs
<1>4. y = Values!Value(x.type, x.p, x.size, count)
  BY <1>2 DEF Values!Value
<1>y. y.type = "array" /\ y.p = x.p /\ y.size = x.size /\ y.capacity = count
  BY <1>4 DEF Values!Value
<1> HIDE DEF a, y
<1>5. l \in All(a)
  <2>1. ~(l \notin Root /\ l[1] = x.p)
    <3>1. x.p \in BlocksOf(m, Values!Inside(m, l))
      BY <1>1, InsideIs DEF BlocksOf
    <3> QED
      BY <3>1, NoRing DEF In
  <2> QED
    BY <1>3, <2>1
<1>6. /\ Shape(n) /\ Blocks(n) = Blocks(a) /\ \A c \in Blocks(a) : Dom(n, c) = Dom(a, c)
      /\ All(n) = All(a) /\ At(n, l) = y /\ \A k \in All(a) : k # l => At(n, k) = At(a, k)
  <2>1. n = Values!Put(a, l, y)
    BY DEF a, y
  <2> QED
    BY <1>3, <1>5, <2>1, PutIs
<1>7. Ptr(n, l) = x.p
  BY <1>6, <1>y DEF Ptr, At
<1>8. ASSUME NEW k \in All(n), k # l
      PROVE  IF k \in All(m) THEN At(n, k) = At(m, k) /\ Ptr(n, k) = Ptr(m, k)
                             ELSE At(n, k) = Values!Garbage /\ Ptr(n, k) = None
  BY <1>3, <1>6, <1>8, GarbageIs DEF Ptr, At
<1>9. \A k \in All(n) : Ptr(n, k) # None => k \in All(m) /\ Ptr(n, k) = Ptr(m, k)
  BY <1>1, <1>7, <1>8
<1>10. ASSUME NEW k \in All(m), Ptr(m, k) \in Blocks(n) PROVE k \in All(n) /\ Ptr(n, k) = Ptr(m, k)
  <2>1. ASSUME k \notin Root, k[1] = x.p PROVE k[2] <= count
    <3>1. Ptr(m, k) # None
      BY <1>3, <1>6, <1>10, <1>1, NoneIsNoBlock
    <3>2. Child(m, l, Compounds, k)
      BY <1>1, <1>2, <2>1, <3>1, NoneIsNoBlock, LiveIsChild
    <3>3. PICK i \in 1..x.size : k = <<x.p, i>>
      BY <1>1, <3>2 DEF Child
    <3> QED
      BY <1>2, <3>3
  <2>2. k \in All(n)
    BY <1>3, <1>6, <2>1
  <2> QED
    BY <1>1, <1>7, <1>8, <2>2
<1>11. ASSUME NEW k \in All(n) PROVE Sound(n, At(n, k))
  <2>1. CASE k = l
    <3>1. ASSUME NEW i \in 1..count, ~(i <= x.size) PROVE Ptr(n, <<x.p, i>>) = None
      <4>1. <<x.p, i>> \in All(n)
        BY <1>2, <1>3, <1>6, AllIs
      <4>2. ASSUME Ptr(n, <<x.p, i>>) # None PROVE FALSE
        <5>1. <<x.p, i>> \in All(m) /\ Ptr(m, <<x.p, i>>) # None
          BY <1>9, <4>1, <4>2
        <5>2. i \in Dom(m, x.p)
          BY <1>1, <1>2, <5>1, AllIs, <1>3, <1>6, <4>1
        <5>3. Live(x, i)
          BY <1>1, <1>2, <5>1, <5>2 DEF Sound
        <5> QED
          BY <3>1, <5>3 DEF Live
      <4> QED
        BY <4>2
    <3>2. Dom(n, x.p) = 1..count /\ x.p \in Blocks(n)
      BY <1>2, <1>3, <1>6
    <3>3. Sound(n, y)
      BY <1>2, <1>4, <1>y, <3>1, <3>2 DEF Sound, Live, Compounds
    <3> QED
      BY <1>6, <2>1, <3>3
  <2>2. CASE k \notin All(m)
    BY <1>8, <2>1, <2>2, GarbageIs
  <2>3. CASE k \in All(m) /\ k # l
    <3> DEFINE z == At(m, k)
    <3>1. At(n, k) = z /\ Sound(m, z) /\ z.p = Ptr(m, k)
      BY <1>8, <2>3 DEF Tree, At, Ptr
    <3> HIDE DEF z
    <3>2. z.p # None => z.p \in Blocks(m) /\ z.p \in Blocks(n) /\ z.p # x.p
      BY <1>1, <1>3, <1>6, <2>3, <3>1 DEF Sound, Tree, Unique
    <3>3. z.p # None => Dom(n, z.p) = Dom(m, z.p)
      BY <1>3, <1>6, <3>2
    <3>4. ASSUME z.p # None, NEW i \in Dom(m, z.p), Ptr(n, <<z.p, i>>) # None PROVE Ptr(m, <<z.p, i>>) # None
      <4>1. <<z.p, i>> \in All(n)
        BY <1>6, <3>2, <3>3, <3>4, AllIs
      <4> QED
        BY <1>9, <3>4, <4>1
    <3> QED
      BY <3>1, <3>2, <3>3, <3>4, SoundStays
  <2> QED
    BY <2>1, <2>2, <2>3
<1>12. Tree(n)
  BY <1>3, <1>6, <1>9, <1>10, <1>11, TreeKept
<1> QED
  BY <1>2, <1>3, <1>5, <1>6, <1>12 DEF y

\* lept_reserve_array
LEMMA ReservedIs ==
  ASSUME NEW m, Tree(m), Values!Room(m), NEW l \in All(m), Alive(m, l), At(m, l).type = "array",
         NEW count \in Nat, At(m, l).size <= count, NEW n, n = Values!Reserved(m, l, count)
  PROVE  /\ Tree(n) /\ l \in All(n) /\ At(n, l).type = "array" /\ At(n, l).size = At(m, l).size
         /\ At(n, l).p # None /\ Dom(n, At(n, l).p) = 1..count
<1> DEFINE x == At(m, l)
<1>1. Sound(m, x) /\ x.p = Ptr(m, l) /\ x = Values!Get(m, l)
  BY DEF Tree, At, Ptr
<1>2. x.size \in Nat /\ x = Values!Value(x.type, x.p, x.size, x.capacity)
  BY <1>1 DEF Sound
<1>3. CASE x.p = None
  <2> DEFINE y == Values!Value(x.type, Values!Fresh(m), x.size, count)
  <2>1. n = Values!Put(Values!Malloc(m, count), l, y)
    BY <1>1, <1>3 DEF Values!Reserved
  <2>2. y = Values!Value("array", Values!Fresh(m), x.size, count)
    OBVIOUS
  <2>3. FitsBlock(y, count) /\ y.p = Values!Fresh(m) /\ y.type = "array" /\ y.size = x.size
    BY <1>2, <2>2 DEF FitsBlock, Values!Value, Compounds
  <2> HIDE DEF y
  <2>4. /\ Tree(n) /\ At(n, l) = y /\ All(m) \subseteq All(n) /\ Values!Fresh(m) \in Cell
        /\ Dom(n, Values!Fresh(m)) = 1..count
    BY <1>1, <1>3, <2>1, <2>3, NewIs
  <2> QED
    BY <2>3, <2>4, ValueAssumption
<1>4. CASE x.p # None
  <2>1. n = Values!Put(Values!Resized(m, x.p, count), l, [x EXCEPT !.capacity = count])
    BY <1>1, <1>4 DEF Values!Reserved
  <2>2. Tree(n) /\ At(n, l) = [x EXCEPT !.capacity = count] /\ l \in All(n) /\ Dom(n, x.p) = 1..count
    BY <1>4, <2>1, ResizeIs
  <2>3. /\ [x EXCEPT !.capacity = count].type = x.type /\ [x EXCEPT !.capacity = count].size = x.size
        /\ [x EXCEPT !.capacity = count].p = x.p
    BY <1>2 DEF Values!Value
  <2> QED
    BY <1>4, <2>2, <2>3
<1> QED
  BY <1>3, <1>4

\* lept_shrink_array
LEMMA ShrunkIs ==
  ASSUME NEW m, Tree(m), NEW l \in All(m), At(m, l).type = "array", NEW n, n = Values!Shrunk(m, l)
  PROVE  Tree(n)
<1> DEFINE x == At(m, l)
<1>1. Shape(m) /\ Sound(m, x) /\ x.p = Ptr(m, l) /\ x = Values!Get(m, l)
  BY DEF Tree, At, Ptr
<1>2. x.size \in Nat /\ x = Values!Value(x.type, x.p, x.size, x.capacity)
  BY <1>1 DEF Sound
<1>3. CASE x.size # 0
  <2>1. n = Values!Put(Values!Resized(m, x.p, x.size), l, [x EXCEPT !.capacity = x.size])
    BY <1>1, <1>3 DEF Values!Shrunk
  <2>2. x.p # None
    BY <1>1, <1>3 DEF Sound
  <2> QED
    BY <1>2, <2>1, <2>2, ResizeIs
<1>4. CASE x.size = 0
  <2> DEFINE a == Values!Release(m, {x.p} \ {None})
             y == Values!Value(x.type, None, x.size, 0)
  <2>1. n = Values!Put(a, l, y)
    BY <1>1, <1>4 DEF Values!Shrunk
  <2>2. y = Values!Value("array", None, 0, 0)
    BY <1>4
  <2>3. y.p = None /\ \A h : Sound(h, y)
    <3> HIDE DEF y
    <3> QED BY <2>2 DEF Sound, Values!Value
  <2> DEFINE P == {x.p} \ {None}
  <2>4. /\ Shape(a) /\ Blocks(a) = Blocks(m) \ P /\ \A c \in Blocks(a) : Dom(a, c) = Dom(m, c)
        /\ \A k : k \in All(a) <=> k \in All(m) /\ (k \notin Root => k[1] \notin P)
        /\ \A k \in All(a) : At(a, k) = At(m, k)
    BY <1>1, ReleaseIs
  <2> HIDE DEF a, y
  <2>5. l \in All(a)
    <3>1. x.p # None => x.p \in BlocksOf(m, Values!Inside(m, l))
      BY <1>1, InsideIs DEF BlocksOf
    <3> QED
      BY <2>4, <3>1, NoRing DEF In
  <2>6. /\ Shape(n) /\ Blocks(n) = Blocks(a) /\ \A c \in Blocks(a) : Dom(n, c) = Dom(a, c)
        /\ All(n) = All(a) /\ At(n, l) = y /\ \A k \in All(a) : k # l => At(n, k) = At(a, k)
    BY <2>1, <2>4, <2>5, PutIs
  <2>7. Ptr(n, l) = None
    BY <2>3, <2>6 DEF Ptr, At
  <2>8. \A k \in All(n) : k # l => k \in All(m) /\ At(n, k) = At(m, k) /\ Ptr(n, k) = Ptr(m, k)
    BY <2>4, <2>6 DEF Ptr, At
  <2>9. ASSUME NEW k \in All(m), Ptr(m, k) \in Blocks(n) PROVE k \in All(n) /\ Ptr(n, k) = Ptr(m, k)
    <3>1. Ptr(m, k) # None /\ Ptr(m, k) # x.p /\ k # l
      BY <1>1, <2>4, <2>6, <2>9, NoneIsNoBlock
    <3>2. ASSUME k \notin Root, k[1] \in P PROVE FALSE
      <4>1. Child(m, l, Compounds, k)
        BY <1>1, <3>1, <3>2, LiveIsChild
      <4> QED
        BY <1>4, <4>1 DEF Child
    <3> QED
      BY <2>4, <2>6, <2>8, <3>1, <3>2
  <2>10. ASSUME NEW k \in All(n) PROVE Sound(n, At(n, k))
    <3>1. CASE k = l
      BY <2>3, <2>6, <3>1
    <3>2. CASE k # l
      <4> DEFINE z == At(m, k)
      <4>1. At(n, k) = z /\ Sound(m, z) /\ z.p = Ptr(m, k)
        BY <2>8, <3>2 DEF Tree, At, Ptr
      <4> HIDE DEF z
      <4>2. z.p # None => z.p \in Blocks(m) /\ z.p # x.p
        BY <1>1, <2>8, <3>2, <4>1 DEF Sound, Tree, Unique
      <4>3. z.p # None => z.p \in Blocks(n) /\ Dom(n, z.p) = Dom(m, z.p)
        BY <2>4, <2>6, <4>2
      <4>4. ASSUME z.p # None, NEW i \in Dom(m, z.p), Ptr(n, <<z.p, i>>) # None PROVE Ptr(m, <<z.p, i>>) # None
        <5>1. <<z.p, i>> \in All(n)
          BY <2>6, <4>3, <4>4, AllIs
        <5> QED
          BY <2>7, <2>8, <4>4, <5>1
      <4> QED
        BY <4>1, <4>3, <4>4, SoundStays
    <3> QED
      BY <3>1, <3>2
  <2>11. Blocks(n) \subseteq Blocks(m)
    BY <2>4, <2>6
  <2>12. \A k \in All(n) : Ptr(n, k) # None => k \in All(m) /\ Ptr(n, k) = Ptr(m, k)
    BY <2>7, <2>8
  <2> QED
    BY <2>6, <2>9, <2>10, <2>11, <2>12, TreeKept
<1> QED
  BY <1>3, <1>4

\* lept_pushback_array_element, when there is room: the slot behind the elements.
LEMMA PushedIs ==
  ASSUME NEW m, Tree(m), NEW l \in All(m), NEW y, y = At(m, l), y.type = "array", NEW count, count = y.size + 1,
         count \in Values!Slots(m, y)
  PROVE  Tree(Values!Put(Values!Put(m, <<y.p, count>>, Values!Null), l, [y EXCEPT !.size = @ + 1]))
<1> DEFINE s == <<y.p, count>>
           a == Values!Put(m, s, Values!Null)
           x == [y EXCEPT !.size = @ + 1]
<1>1. Shape(m) /\ Sound(m, y) /\ y.p = Ptr(m, l)
  BY DEF Tree, At, Ptr
<1>2. y.p # None /\ y.p \in Blocks(m) /\ count \in Dom(m, y.p)
  BY <1>1 DEF Values!Slots, Sound, Dom
<1>3. s \in All(m) /\ s \notin Root /\ s[1] = y.p
  BY <1>1, <1>2, AllIs
<1>4. y.size \in Nat /\ y = Values!Value(y.type, y.p, y.size, y.capacity)
  BY <1>1 DEF Sound
<1>5. Ptr(m, s) = None
  BY <1>1, <1>2, <1>4 DEF Sound, Live
<1>6. s # l
  <2>1. y.p \in BlocksOf(m, Values!Inside(m, l))
    BY <1>1, <1>2, InsideIs DEF BlocksOf
  <2> QED
    BY <1>3, <2>1, NoRing DEF In
<1>7. x = Values!Value("array", y.p, count, y.capacity)
  BY <1>4 DEF Values!Value
<1>8. x.p = y.p /\ x.type = "array" /\ x.size = count /\ x.capacity = y.capacity
  BY <1>7 DEF Values!Value
<1> HIDE DEF x
<1>9. Values!Null.p = None /\ Sound(m, Values!Null)
  BY GarbageIs
<1>10. /\ Tree(a) /\ Blocks(a) = Blocks(m) /\ \A c \in Blocks(m) : Dom(a, c) = Dom(m, c)
       /\ All(a) = All(m) /\ \A k \in All(m) : Ptr(a, k) = Ptr(m, k)
  <2> HIDE DEF s
  <2> QED BY <1>3, <1>5, <1>9, PutKeeps
<1> HIDE DEF a, s
<1>11. Sound(a, x)
  <2>1. PICK h \in Nat : Dom(m, y.p) = 1..h
    BY <1>1, <1>2 DEF Shape
  <2>2. 1..count \subseteq 1..h
    BY <1>2, <1>4, <2>1
  <2>3. ASSUME NEW i \in Dom(m, y.p), ~Live(x, i) PROVE Ptr(a, <<y.p, i>>) = None
    <3>1. <<y.p, i>> \in All(m)
      BY <1>1, <1>2, <2>3, AllIs
    <3>2. ~Live(y, i)
      BY <1>4, <1>8, <2>1, <2>3 DEF Live, Compounds
    <3> QED
      BY <1>1, <1>2, <1>10, <2>3, <3>1, <3>2 DEF Sound
  <2>4. x = Values!Value(x.type, x.p, x.size, x.capacity) /\ x.size \in Nat
    BY <1>4, <1>7, <1>8
  <2>5. y.capacity # Unset => y.capacity \in Nat /\ Dom(m, y.p) = 1..y.capacity
    BY <1>1, <1>2 DEF Sound
  <2> QED
    BY <1>2, <1>8, <1>10, <2>1, <2>2, <2>3, <2>4, <2>5 DEF Sound, Compounds
<1>12. l \in All(a) /\ x.p = Ptr(a, l)
  BY <1>1, <1>8, <1>10
<1>13. Tree(Values!Put(a, l, x))
  BY <1>10, <1>11, <1>12, PutKeeps
<1> QED
  BY <1>13 DEF a, s, x

\* lept_popback_array_element
LEMMA PoppedIs ==
  ASSUME NEW m, Tree(m), NEW l \in All(m), NEW x, x = At(m, l), x.type = "array", x.size > 0
  PROVE  Tree(Values!Put(Values!Free(m, <<x.p, x.size>>), l, [x EXCEPT !.size = @ - 1]))
<1> DEFINE s == <<x.p, x.size>>
           f == Values!Free(m, s)
           y == [x EXCEPT !.size = @ - 1]
           L == Values!Inside(m, l)
           R == Values!Inside(m, s)
<1>1. Shape(m) /\ Sound(m, x) /\ x.p = Ptr(m, l)
  BY DEF Tree, At, Ptr
<1>2. x.size \in Nat /\ x = Values!Value(x.type, x.p, x.size, x.capacity)
  BY <1>1 DEF Sound
<1>3. x.p # None /\ x.p \in Blocks(m) /\ 1..x.size \subseteq Dom(m, x.p)
  BY <1>1, <1>2 DEF Sound, Compounds
<1>4. s \in All(m) /\ s \notin Root /\ s[1] = x.p
  BY <1>1, <1>2, <1>3, AllIs
<1>5. s # l
  <2>1. x.p \in BlocksOf(m, L)
    BY <1>1, <1>3, InsideIs DEF BlocksOf
  <2> QED
    BY <1>4, <2>1, NoRing DEF In
<1>6. y = Values!Value("array", x.p, x.size - 1, x.capacity)
  BY <1>2 DEF Values!Value
<1>7. y.p = x.p /\ y.type = "array" /\ y.size = x.size - 1 /\ y.capacity = x.capacity
  BY <1>6 DEF Values!Value
<1> HIDE DEF y
<1>8. /\ Tree(f) /\ Ptr(f, s) = None /\ Blocks(f) = Blocks(m) \ BlocksOf(m, R)
      /\ \A c \in Blocks(f) : Dom(f, c) = Dom(m, c)
      /\ \A k : k \in All(f) <=> k \in All(m) /\ ~In(k, BlocksOf(m, R))
      /\ \A k \in All(f) : k # s => At(f, k) = At(m, k)
  <2> HIDE DEF s
  <2> QED BY <1>4, FreeIs
<1>9. R \subseteq All(m) /\ s \in R /\ \A k \in R : k # s => \E j \in R : Child(m, j, Compounds, k)
  <2> HIDE DEF s
  <2> QED BY <1>4, InsideIs
<1>n. ~In(s, BlocksOf(m, R))
  <2> HIDE DEF s
  <2> QED BY <1>4, NoRing
<1> HIDE DEF f, s, R
<1>10. x.p \notin BlocksOf(m, R)
  BY <1>4, <1>n DEF In
<1>11. l \notin R
  BY <1>1, <1>3, <1>10 DEF BlocksOf
<1>12. l \in All(f) /\ Ptr(f, l) = x.p
  <2>1. ASSUME In(l, BlocksOf(m, R)) PROVE FALSE
    <3>1. Ptr(m, l) # None
      BY <1>1, <1>3
    <3>2. ClosedUnder(m, Compounds, R)
      BY <1>4, InsideIs DEF R
    <3>3. l \in R
      BY <1>9, <2>1, <3>1, <3>2, InOwned
    <3> QED
      BY <1>11, <3>3
  <2> QED
    BY <1>1, <1>5, <1>8, <2>1 DEF Ptr, At
<1>13. Sound(f, y)
  <2>1. x.p \in Blocks(f) /\ Dom(f, x.p) = Dom(m, x.p)
    BY <1>3, <1>8, <1>10
  <2>2. ASSUME NEW i \in Dom(m, x.p), ~Live(y, i) PROVE Ptr(f, <<x.p, i>>) = None
    <3>1. <<x.p, i>> \in All(f) /\ i \in Nat
      BY <1>8, <2>1, <2>2, AllIs DEF Tree
    <3>2. CASE i = x.size
      BY <1>8, <3>2 DEF s
    <3>3. CASE i # x.size
      <4>1. ~Live(x, i)
        BY <1>2, <1>7, <2>2, <3>1, <3>3 DEF Live
      <4>2. Ptr(m, <<x.p, i>>) = None
        BY <1>1, <1>3, <2>2, <4>1 DEF Sound
      <4>3. <<x.p, i>> # s
        BY <3>3 DEF s
      <4> QED
        BY <1>8, <3>1, <4>2, <4>3 DEF Ptr, At
    <3> QED
      BY <3>2, <3>3
  <2>3. 1..(x.size - 1) \subseteq Dom(m, x.p)
    BY <1>2, <1>3
  <2>4. y = Values!Value(y.type, y.p, y.size, y.capacity) /\ y.size \in Nat
    BY <1>2, <1>6, <1>7
  <2>5. x.capacity # Unset => x.capacity \in Nat /\ Dom(m, x.p) = 1..x.capacity
    BY <1>1, <1>3 DEF Sound
  <2> QED
    BY <1>3, <1>7, <2>1, <2>2, <2>3, <2>4, <2>5 DEF Sound, Compounds
<1>14. Tree(Values!Put(f, l, y))
  BY <1>7, <1>8, <1>12, <1>13, PutKeeps
<1> QED
  BY <1>14 DEF f, s, y

\* Two values that change places, neither of which is inside the other: L and R have those
\* that are inside them.
LEMMA SwapIs ==
  ASSUME NEW m, Tree(m), NEW l \in All(m), NEW r \in All(m), Alive(m, l), Alive(m, r), l # r,
         NEW L \in SUBSET All(m), ClosedUnder(m, Compounds, L), l \in L, r \notin L, ~In(l, BlocksOf(m, L)),
         NEW R \in SUBSET All(m), ClosedUnder(m, Compounds, R), r \in R, l \notin R, ~In(r, BlocksOf(m, R)),
         NEW n, n = Values!Put(Values!Put(m, l, At(m, r)), r, At(m, l))
  PROVE  Tree(n)
<1> DEFINE a == Values!Put(m, l, At(m, r))
           x == At(m, l)
           y == At(m, r)
           pi(k) == IF k = l THEN r ELSE IF k = r THEN l ELSE k
           D == BlocksOf(m, L) \cup BlocksOf(m, R)
<1>0. Shape(m)
  BY DEF Tree
<1>1. /\ Shape(a) /\ Blocks(a) = Blocks(m) /\ \A c \in Blocks(m) : Dom(a, c) = Dom(m, c)
      /\ All(a) = All(m) /\ At(a, l) = y /\ \A k \in All(m) : k # l => At(a, k) = At(m, k)
  <2> HIDE DEF y
  <2> QED BY <1>0, PutIs DEF y
<1>2. n = Values!Put(a, r, x)
  OBVIOUS
<1> HIDE DEF a, x, y
<1>3. /\ Shape(n) /\ Blocks(n) = Blocks(a) /\ \A c \in Blocks(a) : Dom(n, c) = Dom(a, c)
      /\ All(n) = All(a) /\ At(n, r) = x /\ \A k \in All(a) : k # r => At(n, k) = At(a, k)
  BY <1>1, <1>2, PutIs
<1>4. ASSUME NEW k \in All(m) PROVE pi(k) \in All(m) /\ At(n, k) = At(m, pi(k)) /\ Ptr(n, k) = Ptr(m, pi(k))
  <2>1. At(n, k) = At(m, pi(k))
    BY <1>1, <1>3 DEF x, y
  <2> HIDE DEF pi
  <2>2. Ptr(n, k) = Ptr(m, pi(k))
    BY <2>1 DEF Ptr, At
  <2> QED
    BY <2>1, <2>2 DEF pi
<1>5. \A k \in All(m) : k # l /\ k # r => Ptr(n, k) = Ptr(m, k)
  BY <1>4
<1>6. Ptr(n, r) = Ptr(m, l) /\ Ptr(n, l) = Ptr(m, r)
  BY <1>4
<1>7. All(n) = All(m) /\ Blocks(n) = Blocks(m) /\ \A c \in Blocks(m) : Dom(n, c) = Dom(m, c)
  BY <1>1, <1>3
<1>8. ASSUME NEW k \in All(n) PROVE Sound(n, At(n, k))
  <2> DEFINE j == pi(k)
             z == At(m, j)
  <2>1. j \in All(m) /\ At(n, k) = z
    BY <1>4, <1>7
  <2> HIDE DEF j
  <2>2. Sound(m, z) /\ z.p = Ptr(m, j)
    BY <2>1 DEF Tree, At, Ptr
  <2> HIDE DEF z
  <2>3. z.p # None => z.p \in Blocks(m)
    BY <2>2 DEF Sound
  <2>4. ASSUME z.p # None, NEW i \in Dom(m, z.p), Ptr(n, <<z.p, i>>) # None
        PROVE Ptr(m, <<z.p, i>>) # None \/ Live(z, i)
    <3>1. <<z.p, i>> \in All(m)
      BY <1>0, <2>3, <2>4, AllIs
    <3>2. CASE <<z.p, i>> # l /\ <<z.p, i>> # r
      BY <1>5, <2>4, <3>1, <3>2
    <3>3. CASE <<z.p, i>> = l
      BY <2>1, <2>2, <2>4, <3>3, AliveIsLive DEF z
    <3>4. CASE <<z.p, i>> = r
      BY <2>1, <2>2, <2>4, <3>4, AliveIsLive DEF z
    <3> QED
      BY <3>2, <3>3, <3>4
  <2>5. Sound(n, z)
    BY <1>7, <2>2, <2>3, <2>4, SoundStays
  <2> QED
    BY <2>1, <2>5
<1>9. Unique(n)
  <2> SUFFICES ASSUME NEW j \in All(m), NEW k \in All(m), Ptr(n, j) # None, Ptr(n, j) = Ptr(n, k) PROVE j = k
    BY <1>7 DEF Unique
  <2>1. pi(j) \in All(m) /\ pi(k) \in All(m) /\ Ptr(m, pi(j)) # None /\ Ptr(m, pi(j)) = Ptr(m, pi(k))
    <3> HIDE DEF pi
    <3> QED BY <1>4
  <2>2. pi(j) = pi(k)
    <3> HIDE DEF pi
    <3> QED BY <2>1 DEF Tree, Unique
  <2> QED
    BY <2>2
<1>10. ASSUME NEW k \in All(m), In(k, D), Ptr(m, k) # None PROVE Ptr(m, k) \in D /\ k # l /\ k # r
  <2>1. In(k, BlocksOf(m, L)) \/ In(k, BlocksOf(m, R))
    BY <1>10 DEF In
  <2>2. k \in L \/ k \in R
    BY <1>10, <2>1, InOwned
  <2>3. Ptr(m, k) \in D
    BY <1>10, <2>2 DEF BlocksOf
  <2>4. In(k, BlocksOf(m, L)) => k \in L
    BY <1>10, InOwned
  <2>5. In(k, BlocksOf(m, R)) => k \in R
    BY <1>10, InOwned
  <2> QED
    BY <2>1, <2>3, <2>4, <2>5
<1>11. ASSUME NEW k \in {l, r} PROVE ~In(k, D)
  <2>1. ASSUME In(k, D) PROVE FALSE
    <3>1. In(k, BlocksOf(m, L)) \/ In(k, BlocksOf(m, R))
      BY <2>1 DEF In
    <3>2. In(k, BlocksOf(m, L)) => k \in L
      BY <1>11, InOwned
    <3>3. In(k, BlocksOf(m, R)) => k \in R
      BY <1>11, InOwned
    <3> QED
      BY <1>11, <3>1, <3>2, <3>3
  <2> QED
    BY <2>1
<1>12. ASSUME NEW S \in SUBSET Blocks(m), \A k \in All(m) : Ptr(n, k) \in S => In(k, S) PROVE S = {}
  <2>0. None \notin S
    BY <1>0, NoneIsNoBlock
  <2>1. ASSUME NEW k \in All(m), Ptr(m, k) \in S \ D PROVE In(k, S \ D)
    <3>1. k # l /\ k # r
      BY <2>0, <2>1 DEF BlocksOf
    <3>2. In(k, S)
      BY <1>5, <1>12, <2>1, <3>1
    <3>3. ~In(k, D)
      BY <1>10, <2>0, <2>1
    <3> QED
      BY <3>2, <3>3 DEF In
  <2>2. S \subseteq D
    <3> HIDE DEF D
    <3>1. S \ D = {}
      BY <2>1 DEF Tree, Rooted
    <3> QED
      BY <3>1
  <2>3. Ptr(n, l) \notin S /\ Ptr(n, r) \notin S
    <3> HIDE DEF D
    <3>1. \A k \in {l, r} : ~In(k, S)
      BY <1>11, <2>2 DEF In
    <3> QED
      BY <1>12, <3>1
  <2>4. ASSUME NEW k \in All(m), Ptr(m, k) \in S PROVE In(k, S)
    <3>1. k # l /\ k # r
      BY <1>6, <2>3, <2>4
    <3> QED
      BY <1>5, <1>12, <2>4, <3>1
  <2> QED
    BY <2>4 DEF Tree, Rooted
<1>13. Rooted(n)
  BY <1>7, <1>12 DEF Rooted
<1> QED
  BY <1>3, <1>8, <1>9, <1>13 DEF Tree

\* lept_swap
LEMMA SwappedIs ==
  ASSUME NEW m, Tree(m), NEW l \in All(m), NEW r \in All(m), Alive(m, l), Alive(m, r),
         l \notin Values!Inside(m, r), r \notin Values!Inside(m, l)
  PROVE  Tree(Values!Swapped(m, l, r))
<1> DEFINE L == Values!Inside(m, l)
           R == Values!Inside(m, r)
           n == Values!Swapped(m, l, r)
<1>1. /\ L \in SUBSET All(m) /\ ClosedUnder(m, Compounds, L) /\ l \in L
      /\ R \in SUBSET All(m) /\ ClosedUnder(m, Compounds, R) /\ r \in R
  BY InsideIs
<1>2. ~In(l, BlocksOf(m, L)) /\ ~In(r, BlocksOf(m, R)) /\ l # r
  BY <1>1, NoRing
<1>3. n = Values!Put(Values!Put(m, l, At(m, r)), r, At(m, l))
  BY DEF Values!Swapped, At
<1> HIDE DEF L, R, n
<1>4. l \notin R /\ r \notin L
  BY DEF L, R
<1>5. Tree(n)
  BY <1>1, <1>2, <1>3, <1>4, SwapIs
<1> QED
  BY <1>5 DEF n

\* lept_move
LEMMA MovedIs ==
  ASSUME NEW m, Tree(m), NEW dst \in All(m), NEW src \in All(m), Alive(m, dst), Alive(m, src),
         dst \notin Values!Inside(m, src), src \notin Values!Inside(m, dst)
  PROVE  Tree(Values!Moved(m, dst, src))
<1> DEFINE D == Values!Inside(m, dst)
           R == Values!Inside(m, src)
           f == Values!Free(m, dst)
           Q == R \cap All(f)
           n == Values!Moved(m, dst, src)
<1>1. /\ D \in SUBSET All(m) /\ ClosedUnder(m, Compounds, D) /\ dst \in D
      /\ R \in SUBSET All(m) /\ ClosedUnder(m, Compounds, R) /\ src \in R
  BY InsideIs
<1>2. dst \notin R /\ src \notin D /\ src # dst /\ ~In(src, BlocksOf(m, R))
  BY <1>1, NoRing
<1>3. /\ Tree(f) /\ dst \in All(f) /\ At(f, dst) = Values!Null /\ Ptr(f, dst) = None
      /\ \A k : k \in All(f) <=> k \in All(m) /\ ~In(k, BlocksOf(m, D))
      /\ \A k \in All(f) : k # dst => At(f, k) = At(m, k)
      /\ \A k \in All(f) : Alive(m, k) => Alive(f, k)
  BY FreeIs
<1>4. n = Values!Put(Values!Put(f, dst, At(m, src)), src, Values!Null)
  BY DEF Values!Moved, At
<1> HIDE DEF D, R, f, n
<1>5. src \in All(f) /\ At(f, src) = At(m, src)
  <2>1. ~In(src, BlocksOf(m, D))
    BY <1>1, <1>2, InOwned
  <2> QED
    BY <1>2, <1>3, <2>1
<1>6. Alive(f, src) /\ Alive(f, dst)
  BY <1>3, <1>5
<1>7. ClosedUnder(f, Compounds, {dst}) /\ ~In(dst, BlocksOf(f, {dst})) /\ {dst} \in SUBSET All(f)
  BY <1>3 DEF ClosedUnder, Child, In, BlocksOf
<1>8. ASSUME NEW k \in Q, NEW j, Child(f, k, Compounds, j) PROVE j \in Q
  <2>1. k # dst /\ k \in R /\ k \in All(f)
    BY <1>2
  <2>2. j \in All(f)
    BY <1>3, <1>8, <2>1, ChildIsPlace
  <2>3. Child(m, k, Compounds, j)
    BY <1>3, <1>8, <2>1 DEF Child, Ptr, At
  <2> QED
    BY <1>1, <2>1, <2>2, <2>3 DEF ClosedUnder
<1>9. ~In(src, BlocksOf(f, Q))
  <2>1. ASSUME NEW k \in Q PROVE Ptr(f, k) = Ptr(m, k) /\ k \in R
    BY <1>2, <1>3 DEF Ptr, At
  <2>2. BlocksOf(f, Q) \subseteq BlocksOf(m, R)
    <3> HIDE DEF Q
    <3> QED BY <2>1 DEF BlocksOf
  <2> QED
    BY <1>2, <2>2 DEF In
<1>10. Q \in SUBSET All(f) /\ src \in Q /\ dst \notin Q /\ ClosedUnder(f, Compounds, Q)
  <2>1. ClosedUnder(f, Compounds, Q)
    <3> HIDE DEF Q
    <3> QED BY <1>8 DEF ClosedUnder
  <2> QED
    BY <1>1, <1>2, <1>5, <2>1
<1>11. n = Values!Put(Values!Put(f, dst, At(f, src)), src, At(f, dst))
  BY <1>3, <1>4, <1>5
<1> HIDE DEF Q
<1>12. src \notin {dst}
  BY <1>2
<1>13. dst \in {dst}
  OBVIOUS
<1>14. Tree(n)
  <2> DEFINE E == {dst}
  <2> USE <1>3, <1>5, <1>6, <1>7, <1>9, <1>10, <1>11, <1>12, <1>13
  <2>1. /\ E \in SUBSET All(f) /\ ClosedUnder(f, Compounds, E) /\ dst \in E /\ src \notin E /\ ~In(dst, BlocksOf(f, E))
        /\ dst # src
    OBVIOUS
  <2> HIDE DEF E
  <2> QED BY <2>1, SwapIs
<1> QED
  BY <1>14 DEF n

\* A finite set fits into one that is not smaller.
LEMMA Embeds ==
  ASSUME NEW P, NEW Q, IsFiniteSet(P), IsFiniteSet(Q), Cardinality(P) <= Cardinality(Q)
  PROVE  \E g \in [P -> Q] : \A p, q \in P : g[p] = g[q] => p = q
<1>1. Cardinality(P) \in Nat /\ Cardinality(Q) \in Nat
  BY FS_CardinalityType
<1>2. PICK a \in Bijection(1..Cardinality(P), P) : TRUE
  BY FS_CardinalityType DEF ExistsBijection
<1>3. PICK b \in Bijection(1..Cardinality(Q), Q) : TRUE
  BY FS_CardinalityType DEF ExistsBijection
<1>4. \A p \in P : \E i \in 1..Cardinality(P) : a[i] = p
  BY <1>2 DEF Bijection, Surjection
<1>5. b \in [1..Cardinality(Q) -> Q] /\ \A i, j \in 1..Cardinality(Q) : b[i] = b[j] => i = j
  BY <1>3 DEF Bijection, Injection, IsInjective
<1> DEFINE pos(p) == CHOOSE i \in 1..Cardinality(P) : a[i] = p
<1>6. \A p \in P : pos(p) \in 1..Cardinality(P) /\ a[pos(p)] = p
  BY <1>4
<1> HIDE DEF pos
<1>7. \A p \in P : pos(p) \in 1..Cardinality(Q)
  BY <1>1, <1>6
<1> DEFINE g == [p \in P |-> b[pos(p)]]
<1>8. g \in [P -> Q]
  BY <1>5, <1>7
<1>9. ASSUME NEW p \in P, NEW q \in P, g[p] = g[q] PROVE p = q
  <2>1. pos(p) = pos(q)
    BY <1>5, <1>7, <1>9
  <2> QED
    BY <1>6, <2>1
<1> QED
  BY <1>8, <1>9

\* The walk of Reach stays in each set that is closed.
LEMMA ReachLeast ==
  ASSUME NEW m, Tree(m), NEW l \in All(m), NEW types \in SUBSET Compounds, NEW E, l \in E, ClosedUnder(m, types, E)
  PROVE  Values!Reach(m, l, types) \subseteq E
<1>1. PICK w, n : n \in Nat /\ ReachWalk(m, l, types, n, w) /\ Values!Reach(m, l, types) = w[n]
  BY ReachWalks
<1> DEFINE T == SUBSET E
<1>2. w[0] \in T
  BY <1>1 DEF ReachWalk
<1>3. ASSUME NEW k \in 1..n, w[k - 1] \in T PROVE w[k] \in T
  <2>1. w[k] = {l} \cup Values!Below(m, w[k - 1], types)
    BY <1>1 DEF ReachWalk
  <2>2. ASSUME NEW j \in Values!Below(m, w[k - 1], types) PROVE j \in E
    BY <1>3, <2>2, BelowIs DEF ClosedUnder
  <2> QED
    BY <2>1, <2>2
<1> HIDE DEF T
<1>4. \A k \in 0..n : w[k] \in T
  BY <1>1, <1>2, <1>3, WalkStays
<1>5. w[n] \in T
  BY <1>1, <1>4
<1> QED
  BY <1>1, <1>5 DEF T

\* What lept_copy comes through: the places A that it reaches through arrays, and the values
\* that get a block.
Through(m, src) == Values!Reach(m, src, {"array"})
Carries(m, src, c, j) == j \in Through(m, src) /\ At(m, j) \in Values!Carried(m, src, c)
Roomy(m, src, c) ==
  \A l \in Through(m, src) : At(m, l).type = "array" => At(m, l).size <= Values!Capacity(At(m, l), c)

LEMMA ThroughIs ==
  ASSUME NEW m, Tree(m), NEW src \in All(m), NEW A, A = Through(m, src)
  PROVE  /\ src \in A /\ A \subseteq All(m) /\ A \subseteq Values!Inside(m, src)
         /\ \A k \in A : k # src => \E j \in A : Child(m, j, {"array"}, k)
         /\ ClosedUnder(m, {"array"}, A)
<1>1. {"array"} \in SUBSET Compounds
  BY DEF Compounds
<1>2. src \in Values!Inside(m, src) /\ ClosedUnder(m, Compounds, Values!Inside(m, src))
  BY InsideIs
<1>3. ClosedUnder(m, {"array"}, Values!Inside(m, src))
  BY <1>1, <1>2 DEF ClosedUnder, Child
<1>4. A \subseteq Values!Inside(m, src)
  BY <1>1, <1>2, <1>3, ReachLeast DEF Through
<1>5. /\ src \in A /\ A \subseteq All(m) /\ ClosedUnder(m, {"array"}, A)
      /\ \A k \in A : k # src => \E j \in A : Child(m, j, {"array"}, k)
  BY <1>1, ReachIs DEF Through
<1> QED
  BY <1>4, <1>5

LEMMA CarriedIs ==
  ASSUME NEW m, Tree(m), NEW src \in All(m), NEW c \in Nat, NEW j \in Through(m, src), NEW x, x = At(m, j),
         Roomy(m, src, c)
  PROVE  /\ x \in Values!Carried(m, src, c) <=>
              x.type = "string" \/ (x.type = "array" /\ Values!Capacity(x, c) > 0)
         /\ x \in Values!Carried(m, src, c) => x.p # None /\ x.p \in Blocks(m)
         /\ x.type = "array" => Values!Capacity(x, c) \in Nat /\ x.size <= Values!Capacity(x, c)
         /\ Sound(m, x) /\ x.p = Ptr(m, j) /\ x.size \in Nat
<1>1. j \in All(m) /\ j \in Values!Inside(m, src)
  BY ThroughIs
<1>2. Sound(m, x) /\ x.p = Ptr(m, j) /\ x.size \in Nat
  BY <1>1 DEF Tree, At, Ptr, Sound
<1>3. x \in Values!Carried(m, src, c) <=> x.type = "string" \/ (x.type = "array" /\ Values!Capacity(x, c) > 0)
  BY DEF Values!Carried, Through, At
<1>4. x.type = "array" => Values!Capacity(x, c) \in Nat /\ x.size <= Values!Capacity(x, c)
  <2>1. x.type = "array" => x.capacity \in Nat \cup {Unset}
    BY <1>2, ValueAssumption DEF Sound
  <2> QED
    BY <1>1, <2>1 DEF Roomy, Values!Capacity
<1>5. x \in Values!Carried(m, src, c) => x.p # None
  BY <1>2, <1>3, ValueAssumption DEF Sound, Values!Capacity
<1> QED
  BY <1>2, <1>3, <1>4, <1>5 DEF Sound

\* Every value that gets a block belongs to one place.
LEMMA CarriedHas ==
  ASSUME NEW m, Tree(m), NEW src \in All(m), NEW c \in Nat, Roomy(m, src, c), NEW K, K = Values!Carried(m, src, c)
  PROVE  /\ \A x \in K : \E j \in Through(m, src) : x = At(m, j)
         /\ \A x, y \in K : x.p = y.p => x = y
         /\ {x.p : x \in K} \subseteq BlocksOf(m, Values!Inside(m, src))
<1>1. ASSUME NEW x \in K PROVE \E j \in Through(m, src) : x = At(m, j)
  BY <1>1 DEF Values!Carried, Through, At
<1>2. ASSUME NEW x \in K, NEW y \in K, x.p = y.p PROVE x = y
  <2>1. PICK j \in Through(m, src) : x = At(m, j)
    BY <1>1
  <2>2. PICK k \in Through(m, src) : y = At(m, k)
    BY <1>1
  <2>3. x.p # None /\ x.p = Ptr(m, j)
    BY <1>2, <2>1, CarriedIs
  <2>4. y.p = Ptr(m, k)
    BY <1>2, <2>2, CarriedIs
  <2>5. j \in All(m) /\ k \in All(m)
    BY ThroughIs
  <2> QED
    BY <1>2, <2>1, <2>2, <2>3, <2>4, <2>5 DEF Tree, Unique
<1>3. ASSUME NEW x \in K PROVE x.p \in BlocksOf(m, Values!Inside(m, src))
  <2>1. PICK j \in Through(m, src) : x = At(m, j)
    BY <1>1
  <2>2. x.p # None /\ x.p = Ptr(m, j)
    BY <1>3, <2>1, CarriedIs
  <2>3. j \in Values!Inside(m, src)
    BY ThroughIs
  <2> QED
    BY <2>2, <2>3 DEF BlocksOf
<1> QED
  BY <1>1, <1>2, <1>3

\* The blocks that malloc gives to them.
LEMMA NewBlocksAre ==
  ASSUME NEW m, Tree(m), NEW src \in All(m), NEW c \in Nat, Roomy(m, src, c), NEW K, K = Values!Carried(m, src, c),
         NEW free \in SUBSET Cell, Cardinality(BlocksOf(m, Values!Inside(m, src))) <= Cardinality(free),
         NEW g, g = Values!NewBlocks(K, free)
  PROVE  /\ \A x \in K : g[x.p] \in free
         /\ \A x, y \in K : g[x.p] = g[y.p] => x = y /\ x.p = y.p
<1> DEFINE P == {x.p : x \in K}
<1>1. P \subseteq BlocksOf(m, Values!Inside(m, src)) /\ \A x, y \in K : x.p = y.p => x = y
  BY CarriedHas
<1>2. Values!Inside(m, src) \in SUBSET All(m)
  BY InsideIs
<1>3. /\ IsFiniteSet(BlocksOf(m, Values!Inside(m, src)))
      /\ Cardinality(BlocksOf(m, Values!Inside(m, src))) \in Nat
  BY <1>2, OwnedIs
<1>4. IsFiniteSet(P) /\ Cardinality(P) <= Cardinality(BlocksOf(m, Values!Inside(m, src)))
  <2> HIDE DEF P
  <2> QED BY <1>1, <1>3, FS_Subset
<1>5. IsFiniteSet(free)
  BY ValueAssumption, FS_Subset
<1>6. Cardinality(P) <= Cardinality(free)
  <2> HIDE DEF P
  <2>1. Cardinality(P) \in Nat /\ Cardinality(free) \in Nat
    BY <1>4, <1>5, FS_CardinalityType
  <2> QED
    BY <1>3, <1>4, <2>1
<1>7. \E h \in [P -> free] : \A p, q \in P : h[p] = h[q] => p = q
  <2> HIDE DEF P
  <2> QED BY <1>4, <1>5, <1>6, Embeds
<1>8. \E h \in [P -> free] : \A p, q \in DOMAIN h : h[p] = h[q] => p = q
  <2> HIDE DEF P
  <2> QED BY <1>7
<1>9. g \in [P -> free] /\ \A p, q \in DOMAIN g : g[p] = g[q] => p = q
  BY <1>8 DEF Values!NewBlocks
<1>10. g \in [P -> free] /\ \A p, q \in P : g[p] = g[q] => p = q
  <2> HIDE DEF P
  <2> QED BY <1>9
<1> QED
  BY <1>1, <1>10

\* The copy of a value that gets a block, and of one that does not.
LEMMA CopyIs ==
  ASSUME NEW m, Tree(m), NEW src \in All(m), NEW c \in Nat, Roomy(m, src, c),
         NEW j \in Through(m, src), NEW x, x = At(m, j), NEW g
  PROVE  /\ Carries(m, src, c, j) =>
              /\ Values!CopyOf(x, c, g) = Values!Value(x.type, g[x.p], x.size,
                                                     IF x.type = "string" THEN 0 ELSE Values!Capacity(x, c))
              /\ Values!Element(x, c, g) = Values!CopyOf(x, c, g)
         /\ ~Carries(m, src, c, j) =>
              /\ Values!Element(x, c, g).p = None /\ \A h : Sound(h, Values!Element(x, c, g))
              /\ x.type # "object" => Values!CopyOf(x, c, g).p = None /\ \A h : Sound(h, Values!CopyOf(x, c, g))
<1>1. /\ x \in Values!Carried(m, src, c) <=> x.type = "string" \/ (x.type = "array" /\ Values!Capacity(x, c) > 0)
      /\ x.type = "array" => Values!Capacity(x, c) \in Nat /\ x.size <= Values!Capacity(x, c)
      /\ Sound(m, x) /\ x.size \in Nat
  BY CarriedIs
<1>2. Carries(m, src, c, j) <=> x \in Values!Carried(m, src, c)
  BY DEF Carries
<1>3. ASSUME Carries(m, src, c, j)
      PROVE  /\ Values!CopyOf(x, c, g) = Values!Value(x.type, g[x.p], x.size,
                                                     IF x.type = "string" THEN 0 ELSE Values!Capacity(x, c))
             /\ Values!Element(x, c, g) = Values!CopyOf(x, c, g)
  BY <1>1, <1>2, <1>3 DEF Values!CopyOf, Values!Element
<1>4. ASSUME ~Carries(m, src, c, j), x.type # "object"
      PROVE  Values!CopyOf(x, c, g).p = None /\ \A h : Sound(h, Values!CopyOf(x, c, g))
  <2>1. CASE x.type = "array"
    <3>1. Values!Capacity(x, c) = 0 /\ x.size = 0
      BY <1>1, <1>2, <1>4, <2>1
    <3>2. Values!CopyOf(x, c, g) = Values!Value("array", None, 0, 0)
      BY <2>1, <3>1 DEF Values!CopyOf
    <3> QED
      BY <3>2 DEF Sound, Values!Value
  <2>2. CASE x.type # "array"
    <3>1. x.type # "string"
      BY <1>1, <1>2, <1>4
    <3>2. Values!CopyOf(x, c, g) = x
      BY <2>2, <3>1 DEF Values!CopyOf
    <3>3. x.p = None
      BY <1>1, <1>4, <2>2, <3>1 DEF Sound, Compounds
    <3> QED
      BY <1>1, <3>2, <3>3 DEF Sound
  <2> QED
    BY <2>1, <2>2
<1>5. ASSUME ~Carries(m, src, c, j)
      PROVE  Values!Element(x, c, g).p = None /\ \A h : Sound(h, Values!Element(x, c, g))
  <2>1. CASE x.type \in {"false", "true"}
    <3>1. PICK t \in {"false", "true"} : Values!Element(x, c, g) = Values!Simple(t)
      BY <2>1 DEF Values!Element, Values!Boolean
    <3>2. t # "string"
      BY <3>1
    <3> QED
      BY <3>1, <3>2, GarbageIs
  <2>2. CASE x.type = "object"
    <3>1. Values!Element(x, c, g) = Values!Simple("garbage")
      BY <2>2, GarbageIs DEF Values!Element
    <3> QED
      BY <3>1, GarbageIs
  <2>3. CASE x.type \notin {"false", "true", "object"}
    <3>1. Values!Element(x, c, g) = Values!CopyOf(x, c, g)
      BY <2>3 DEF Values!Element
    <3> QED
      BY <1>4, <1>5, <2>3, <3>1
  <2> QED
    BY <2>1, <2>2, <2>3
<1> QED
  BY <1>3, <1>4, <1>5

\* The memory with the new blocks.
WithCopies(m, c, f, K, g) ==
  [f EXCEPT !.heap = [b \in DOMAIN f.heap \cup {g[x.p] : x \in K} |->
     IF b \in DOMAIN f.heap THEN f.heap[b]
     ELSE Values!CopiedBlock(m, CHOOSE x \in K : g[x.p] = b, c, g)]]

LEMMA CopyBlocksAre ==
  ASSUME NEW m, Tree(m), NEW src \in All(m), NEW c \in Nat, Roomy(m, src, c),
         NEW f, Shape(f), NEW K, K = Values!Carried(m, src, c), NEW g,
         \A x \in K : g[x.p] \in Cell \ Blocks(f), \A x, y \in K : g[x.p] = g[y.p] => x = y,
         NEW a, a = WithCopies(m, c, f, K, g)
  PROVE  /\ Shape(a) /\ Blocks(a) = Blocks(f) \cup {g[x.p] : x \in K}
         /\ \A b \in Blocks(f) : Dom(a, b) = Dom(f, b)
         /\ All(f) \subseteq All(a) /\ \A k \in All(f) : At(a, k) = At(f, k)
         /\ \A x \in K : Dom(a, g[x.p]) = 1..(IF x.type = "string" THEN 0 ELSE Values!Capacity(x, c))
         /\ \A x \in K : \A i \in Dom(a, g[x.p]) :
              At(a, <<g[x.p], i>>) = IF i <= x.size THEN Values!Element(At(m, <<x.p, i>>), c, g) ELSE Values!Garbage
         /\ \A k \in All(a) \ All(f) : k \notin Root /\ \E x \in K : k[1] = g[x.p]
<1> DEFINE N == {g[x.p] : x \in K}
           heap == [b \in DOMAIN f.heap \cup N |->
                      IF b \in DOMAIN f.heap THEN f.heap[b]
                      ELSE Values!CopiedBlock(m, CHOOSE x \in K : g[x.p] = b, c, g)]
           width(x) == IF x.type = "string" THEN 0 ELSE Values!Capacity(x, c)
<1>1. a = [f EXCEPT !.heap = heap]
  BY DEF WithCopies
<1>2. DOMAIN heap = Blocks(f) \cup N /\ \A b \in Blocks(f) : heap[b] = f.heap[b]
  BY DEF Blocks
<1>3. ASSUME NEW x \in K PROVE g[x.p] \in N /\ g[x.p] \notin Blocks(f) /\ heap[g[x.p]] = Values!CopiedBlock(m, x, c, g)
  <2>1. (CHOOSE y \in K : g[y.p] = g[x.p]) = x
    OBVIOUS
  <2>2. g[x.p] \in N /\ g[x.p] \notin DOMAIN f.heap
    BY DEF Blocks
  <2>3. heap[g[x.p]] = Values!CopiedBlock(m, CHOOSE y \in K : g[y.p] = g[x.p], c, g)
    <3> HIDE DEF N
    <3> QED BY <2>2
  <2> HIDE DEF heap, N
  <2> QED
    BY <2>1, <2>2, <2>3 DEF Blocks
<1>4. N \subseteq Cell /\ \A b \in N : \E x \in K : b = g[x.p]
  OBVIOUS
<1> HIDE DEF heap, N
<1>5. ASSUME NEW x \in K
      PROVE  /\ width(x) \in Nat /\ x.p \in Blocks(m) /\ x.size \in Nat /\ Sound(m, x)
             /\ x.type \in {"string", "array"} /\ (x.type = "array" => x.size <= width(x))
  <2>1. PICK j \in Through(m, src) : x = At(m, j)
    BY CarriedHas
  <2> QED
    BY <2>1, CarriedIs
<1>6. ASSUME NEW x \in K
      PROVE  /\ DOMAIN heap[g[x.p]] = 1..width(x)
             /\ \A i \in 1..width(x) :
                  heap[g[x.p]][i] = IF i <= x.size THEN Values!Element(m.heap[x.p][i], c, g) ELSE Values!Garbage
  <2>1. heap[g[x.p]] = [i \in 1..width(x) |-> IF i <= x.size THEN Values!Element(m.heap[x.p][i], c, g)
                                              ELSE Values!Garbage]
    BY <1>3 DEF Values!CopiedBlock
  <2> HIDE DEF width
  <2> QED
    BY <2>1
<1> HIDE DEF width
<1>7. ASSUME NEW b \in DOMAIN heap PROVE \E h \in Nat : DOMAIN heap[b] = 1..h
  <2>1. CASE b \in Blocks(f)
    BY <1>2, <2>1 DEF Shape, Dom, Blocks
  <2>2. CASE b \in N
    <3>1. PICK x \in K : b = g[x.p]
      BY <1>4, <2>2
    <3> QED
      BY <1>5, <1>6, <3>1
  <2> QED
    BY <1>2, <2>1, <2>2
<1>8. DOMAIN heap \subseteq Cell
  BY <1>2, <1>4 DEF Shape
<1>9. /\ Shape(a) /\ a.heap = heap /\ Blocks(a) = DOMAIN heap /\ \A b \in Blocks(a) : Dom(a, b) = DOMAIN heap[b]
      /\ \A r \in Root : At(a, r) = At(f, r)
  BY <1>1, <1>7, <1>8, HeapIs
<1>10. ASSUME NEW b \in Blocks(f) PROVE Dom(a, b) = Dom(f, b)
  <2>1. b \in Blocks(a) /\ heap[b] = f.heap[b]
    BY <1>2, <1>9
  <2>2. Dom(a, b) = DOMAIN heap[b]
    BY <1>9, <2>1
  <2> QED
    BY <2>1, <2>2 DEF Dom
<1>11. All(f) \subseteq All(a)
  BY <1>2, <1>9, <1>10 DEF All
<1>12. ASSUME NEW k \in All(f) PROVE At(a, k) = At(f, k)
  <2>1. CASE k \in Root
    BY <1>9, <2>1
  <2>2. CASE k \notin Root
    <3>1. k[1] \in Blocks(f)
      BY <2>2, AllIs
    <3> QED
      BY <1>2, <1>9, <2>2, <3>1 DEF At, Values!Get
  <2> QED
    BY <2>1, <2>2
<1>13. ASSUME NEW x \in K PROVE Dom(a, g[x.p]) = 1..width(x) /\ g[x.p] \in Blocks(a)
  BY <1>2, <1>3, <1>6, <1>9
<1>14. ASSUME NEW x \in K, NEW i \in Dom(a, g[x.p])
       PROVE  At(a, <<g[x.p], i>>) = IF i <= x.size THEN Values!Element(At(m, <<x.p, i>>), c, g) ELSE Values!Garbage
  <2>1. At(a, <<g[x.p], i>>) = a.heap[g[x.p]][i]
    <3> DEFINE b == g[x.p]
    <3>1. b \in Blocks(a) /\ i \in Dom(a, b)
      BY <1>13, <1>14
    <3> HIDE DEF b
    <3>2. At(a, <<b, i>>) = a.heap[b][i]
      BY <1>9, <3>1, AtSlot
    <3> QED
      BY <3>2 DEF b
  <2>2. At(a, <<g[x.p], i>>) = IF i <= x.size THEN Values!Element(m.heap[x.p][i], c, g) ELSE Values!Garbage
    BY <1>6, <1>9, <1>13, <2>1
  <2>3. ASSUME i <= x.size PROVE At(m, <<x.p, i>>) = m.heap[x.p][i]
    <3>0. i \in 1..width(x)
      BY <1>13, <1>14
    <3>1. x.type = "array" /\ i \in 1..x.size
      <4>1. x.type # "string"
        BY <3>0 DEF width
      <4> QED
        BY <1>5, <2>3, <3>0, <4>1
    <3>2. i \in Dom(m, x.p)
      BY <1>5, <3>1, NoneIsNoBlock DEF Sound, Tree, Compounds
    <3> QED
      BY <1>5, <3>2, AtSlot DEF Tree
  <2> QED
    BY <2>2, <2>3
<1>15. ASSUME NEW k \in All(a) \ All(f) PROVE k \notin Root /\ \E x \in K : k[1] = g[x.p]
  <2>1. k \notin Root /\ k = <<k[1], k[2]>> /\ k[1] \in Blocks(a) /\ k[2] \in Dom(a, k[1])
    BY <1>9, <1>15, AllIs
  <2>2. k[1] \notin Blocks(f)
    <3>1. k[1] \in Blocks(f) => <<k[1], k[2]>> \in All(f)
      BY <1>10, <2>1, AllIs
    <3> QED
      BY <1>15, <2>1, <3>1
  <2> QED
    BY <1>2, <1>4, <1>9, <2>1, <2>2
<1>16. Blocks(a) = Blocks(f) \cup {g[x.p] : x \in K}
  BY <1>2, <1>9 DEF N
<1> QED
  BY <1>9, <1>10, <1>11, <1>12, <1>13, <1>14, <1>15, <1>16 DEF width

\* lept_copy: each new block has an owner, at the place that stands where the owner of its
\* original stands, and no ring of new blocks has come about.
LEMMA CopiedIs ==
  ASSUME NEW m, Tree(m), NEW dst \in All(m), NEW src \in All(m), Alive(m, dst),
         dst \notin Values!Inside(m, src), src \notin Values!Inside(m, dst), NEW c \in Nat, Roomy(m, src, c),
         Cardinality(BlocksOf(m, Values!Inside(m, src))) <= Cardinality(Cell \ Blocks(m))
  PROVE  Tree(Values!Copied(m, dst, src, c))
<1> DEFINE n == Values!Copied(m, dst, src, c)
           f == Values!Free(m, dst)
           K == Values!Carried(m, src, c)
           g == Values!NewBlocks(K, Cell \ Blocks(f))
           a == WithCopies(m, c, f, K, g)
           y == Values!CopyOf(At(m, src), c, g)
           A == Through(m, src)
           N == {g[x.p] : x \in K}
           width(x) == IF x.type = "string" THEN 0 ELSE Values!Capacity(x, c)
           had(j) == Carries(m, src, c, j)
<1>1. n = IF At(m, src).type = "object" THEN m ELSE Values!Put(a, dst, y)
  BY DEF Values!Copied, WithCopies, At, Blocks
<1> SUFFICES ASSUME At(m, src).type # "object" PROVE Tree(n)
  BY <1>1
<1>2. n = Values!Put(a, dst, y)
  BY <1>1
<1>3. /\ Tree(f) /\ dst \in All(f) /\ Ptr(f, dst) = None /\ Alive(f, dst) /\ Blocks(f) \subseteq Blocks(m)
  BY FreeIs
<1> HIDE DEF n, f
<1>4. Shape(f) /\ Shape(m) /\ None \notin Blocks(m) /\ None \notin Cell
  BY <1>3, ValueAssumption, NoneIsNoBlock DEF Tree
<1>5. Cardinality(BlocksOf(m, Values!Inside(m, src))) <= Cardinality(Cell \ Blocks(f))
  <2>1. IsFiniteSet(Cell \ Blocks(f)) /\ IsFiniteSet(Cell \ Blocks(m))
    BY ValueAssumption, FS_Subset
  <2>2. Cell \ Blocks(m) \in SUBSET (Cell \ Blocks(f))
    BY <1>3
  <2>3. Cardinality(Cell \ Blocks(m)) <= Cardinality(Cell \ Blocks(f))
    BY <2>1, <2>2, FS_Subset
  <2>4. Cardinality(Cell \ Blocks(m)) \in Nat /\ Cardinality(Cell \ Blocks(f)) \in Nat
    BY <2>1, FS_CardinalityType
  <2>5. Cardinality(BlocksOf(m, Values!Inside(m, src))) \in Nat
    BY InsideIs, OwnedIs
  <2> QED
    BY <2>3, <2>4, <2>5
<1>6. /\ \A x \in K : g[x.p] \in Cell \ Blocks(f)
      /\ \A x, z \in K : g[x.p] = g[z.p] => x = z /\ x.p = z.p
  <2> DEFINE free == Cell \ Blocks(f)
  <2>1. free \in SUBSET Cell /\ Cardinality(BlocksOf(m, Values!Inside(m, src))) <= Cardinality(free)
    BY <1>5
  <2>2. g = Values!NewBlocks(K, free)
    OBVIOUS
  <2> HIDE DEF free, K, g
  <2>3. /\ \A x \in K : g[x.p] \in free
        /\ \A x, z \in K : g[x.p] = g[z.p] => x = z /\ x.p = z.p
    BY <2>1, <2>2, NewBlocksAre DEF K
  <2> QED
    BY <2>3 DEF free
<1> HIDE DEF g
<1>7. /\ Shape(a) /\ Blocks(a) = Blocks(f) \cup N
      /\ \A b \in Blocks(f) : Dom(a, b) = Dom(f, b)
      /\ All(f) \subseteq All(a) /\ \A k \in All(f) : At(a, k) = At(f, k)
      /\ \A x \in K : Dom(a, g[x.p]) = 1..width(x)
      /\ \A x \in K : \A i \in Dom(a, g[x.p]) :
           At(a, <<g[x.p], i>>) = IF i <= x.size THEN Values!Element(At(m, <<x.p, i>>), c, g) ELSE Values!Garbage
      /\ \A k \in All(a) \ All(f) : k \notin Root /\ \E x \in K : k[1] = g[x.p]
  BY <1>4, <1>6, CopyBlocksAre
<1> HIDE DEF a, y
<1>8. /\ Shape(n) /\ Blocks(n) = Blocks(a) /\ \A b \in Blocks(a) : Dom(n, b) = Dom(a, b)
      /\ All(n) = All(a) /\ At(n, dst) = y /\ \A k \in All(a) : k # dst => At(n, k) = At(a, k)
  BY <1>2, <1>3, <1>7, PutIs
<1>9. /\ src \in A /\ A \subseteq All(m) /\ \A k \in A : k # src => \E j \in A : Child(m, j, {"array"}, k)
      /\ A \subseteq Values!Inside(m, src) /\ ClosedUnder(m, {"array"}, A)
  BY ThroughIs
<1>10. /\ \A x \in K : \E j \in A : x = At(m, j) /\ had(j)
       /\ \A j \in A : had(j) => At(m, j) \in K
  BY CarriedHas DEF Carries
<1>11. ASSUME NEW j \in A
       PROVE  /\ had(j) => Ptr(m, j) # None /\ Ptr(m, j) = At(m, j).p /\ Ptr(m, j) \in Blocks(m) /\ g[Ptr(m, j)] \in N
              /\ had(j) => At(m, j).type \in {"string", "array"} /\ width(At(m, j)) \in Nat
              /\ At(m, j).type = "array" => At(m, j).size <= Values!Capacity(At(m, j), c)
              /\ At(m, j).type = "array" /\ At(m, j).size > 0 => had(j)
              /\ At(m, j).size \in Nat /\ Sound(m, At(m, j))
  <2> DEFINE x == At(m, j)
  <2>1. /\ x \in K <=> x.type = "string" \/ (x.type = "array" /\ Values!Capacity(x, c) > 0)
        /\ x \in K => x.p # None /\ x.p \in Blocks(m)
        /\ x.type = "array" => Values!Capacity(x, c) \in Nat /\ x.size <= Values!Capacity(x, c)
        /\ Sound(m, x) /\ x.p = Ptr(m, j) /\ x.size \in Nat
    BY CarriedIs
  <2>2. had(j) <=> x \in K
    BY DEF Carries
  <2>3. x \in K => g[x.p] \in N
    OBVIOUS
  <2> HIDE DEF x, K, N, had
  <2>4. /\ had(j) => Ptr(m, j) # None /\ Ptr(m, j) = x.p /\ Ptr(m, j) \in Blocks(m) /\ g[Ptr(m, j)] \in N
    BY <2>1, <2>2, <2>3
  <2>5. had(j) => x.type \in {"string", "array"} /\ width(x) \in Nat
    BY <2>1, <2>2
  <2>6. x.type = "array" /\ x.size > 0 => had(j)
    BY <2>1, <2>2
  <2> QED
    BY <2>1, <2>4, <2>5, <2>6 DEF x
<1>12. /\ N \subseteq Cell /\ N \cap Blocks(f) = {} /\ \A b \in N : \E j \in A : had(j) /\ b = g[Ptr(m, j)]
  <2>1. ASSUME NEW b \in N PROVE b \in Cell /\ b \notin Blocks(f) /\ \E j \in A : had(j) /\ b = g[Ptr(m, j)]
    <3>1. PICK x \in K : b = g[x.p]
      OBVIOUS
    <3>2. PICK j \in A : x = At(m, j) /\ had(j)
      BY <1>10
    <3>3. x.p = Ptr(m, j)
      BY <3>2 DEF At, Ptr
    <3> QED
      BY <1>6, <3>1, <3>2, <3>3
  <2> HIDE DEF N
  <2> QED
    BY <2>1
<1>13. ASSUME NEW j \in A, NEW i \in A, had(i), had(j), g[Ptr(m, i)] = g[Ptr(m, j)] PROVE i = j
  <2>1. At(m, i) \in K /\ At(m, j) \in K /\ At(m, i).p = Ptr(m, i) /\ At(m, j).p = Ptr(m, j)
    BY <1>10, <1>13 DEF At, Ptr
  <2>2. Ptr(m, i) = Ptr(m, j)
    BY <1>6, <1>13, <2>1
  <2>3. Ptr(m, i) # None /\ i \in All(m) /\ j \in All(m)
    BY <1>9, <1>11, <1>13
  <2> QED
    BY <2>2, <2>3 DEF Tree, Unique
<1> HIDE DEF N
\* What stands at the new places.
<1>14. ASSUME NEW j \in A, had(j)
       PROVE  /\ Dom(n, g[Ptr(m, j)]) = 1..width(At(m, j)) /\ g[Ptr(m, j)] \in Blocks(n)
              /\ \A i \in 1..width(At(m, j)) :
                   /\ <<g[Ptr(m, j)], i>> \in All(n) /\ <<g[Ptr(m, j)], i>> # dst
                   /\ At(n, <<g[Ptr(m, j)], i>>) =
                        IF i <= At(m, j).size THEN Values!Element(At(m, <<Ptr(m, j), i>>), c, g) ELSE Values!Garbage
  <2> DEFINE x == At(m, j)
             b == g[Ptr(m, j)]
  <2>1. x \in K /\ x.p = Ptr(m, j) /\ b \in N /\ b = g[x.p]
    BY <1>10, <1>11, <1>14
  <2>2. Dom(a, b) = 1..width(x)
    BY <1>7, <2>1
  <2>3. \A i \in Dom(a, b) : At(a, <<b, i>>) = IF i <= x.size THEN Values!Element(At(m, <<Ptr(m, j), i>>), c, g) ELSE Values!Garbage
    BY <1>7, <2>1
  <2> HIDE DEF x, b, width, K
  <2>4. b \in Blocks(a) /\ b \in Blocks(n) /\ Dom(n, b) = Dom(a, b)
    BY <1>7, <1>8, <2>1
  <2>5. ASSUME NEW i \in 1..width(x) PROVE <<b, i>> \in All(n) /\ <<b, i>> # dst
    <3>1. <<b, i>> \in All(n) /\ <<b, i>> \notin Root
      BY <1>8, <2>2, <2>4, <2>5, AllIs
    <3>2. b \notin Blocks(f)
      BY <1>12, <2>1
    <3> QED
      BY <1>3, <1>4, <3>1, <3>2, AllIs
  <2>6. ASSUME NEW i \in 1..width(x)
        PROVE At(n, <<b, i>>) = IF i <= x.size THEN Values!Element(At(m, <<Ptr(m, j), i>>), c, g) ELSE Values!Garbage
    BY <1>8, <2>2, <2>3, <2>5, <2>6
  <2> QED
    BY <2>2, <2>4, <2>5, <2>6 DEF x, b
\* The element h of the array at i, in the block that i has now.
<1> DEFINE Stands(k, j) ==
             \/ k = dst /\ j = src
             \/ \E i \in A : had(i) /\ At(m, i).type = "array" /\ \E h \in 1..At(m, i).size :
                  j = <<Ptr(m, i), h>> /\ k = <<g[Ptr(m, i)], h>>
<1>15. ASSUME NEW k, NEW j, Stands(k, j)
       PROVE  /\ j \in A /\ k \in All(n)
              /\ had(j) => Ptr(n, k) = g[Ptr(m, j)] /\ At(n, k) = Values!Value(At(m, j).type, g[Ptr(m, j)], At(m, j).size,
                                                                              width(At(m, j)))
              /\ ~had(j) => Ptr(n, k) = None /\ Sound(n, At(n, k))
  <2>1. CASE k = dst /\ j = src
    <3>1. j \in A /\ k \in All(n) /\ At(n, k) = y /\ y = Values!CopyOf(At(m, j), c, g)
      BY <1>3, <1>7, <1>8, <1>9, <2>1 DEF y
    <3>2. had(j) => y = Values!Value(At(m, j).type, g[Ptr(m, j)], At(m, j).size, width(At(m, j)))
      BY <1>11, <3>1, CopyIs
    <3>3. ~had(j) => y.p = None /\ Sound(n, y)
      BY <2>1, <3>1, CopyIs
    <3>4. had(j) => y.p = g[Ptr(m, j)]
      BY <3>2 DEF Values!Value
    <3> QED
      BY <3>1, <3>2, <3>3, <3>4 DEF Ptr, At
  <2>2. CASE \E i \in A : had(i) /\ At(m, i).type = "array" /\ \E h \in 1..At(m, i).size :
                  j = <<Ptr(m, i), h>> /\ k = <<g[Ptr(m, i)], h>>
    <3>1. PICK i \in A : had(i) /\ At(m, i).type = "array" /\ \E h \in 1..At(m, i).size :
                  j = <<Ptr(m, i), h>> /\ k = <<g[Ptr(m, i)], h>>
      BY <2>2
    <3>2. PICK h \in 1..At(m, i).size : j = <<Ptr(m, i), h>> /\ k = <<g[Ptr(m, i)], h>>
      BY <3>1
    <3>3. j \in A
      <4>1. Child(m, i, {"array"}, j)
        BY <1>11, <3>1, <3>2 DEF Child
      <4> QED
        BY <1>9, <4>1 DEF ClosedUnder
    <3>4. h \in 1..width(At(m, i)) /\ h <= At(m, i).size
      BY <1>11, <3>1, <3>2
    <3>5. k \in All(n) /\ At(n, k) = Values!Element(At(m, j), c, g)
      <4> HIDE DEF width
      <4> QED BY <1>14, <3>1, <3>2, <3>4
    <3> DEFINE z == At(n, k)
    <3>6. had(j) => z = Values!Value(At(m, j).type, g[Ptr(m, j)], At(m, j).size, width(At(m, j)))
      BY <1>11, <3>3, <3>5, CopyIs
    <3>7. ~had(j) => z.p = None /\ Sound(n, z)
      BY <3>3, <3>5, CopyIs
    <3> HIDE DEF z
    <3>8. had(j) => z.p = g[Ptr(m, j)]
      BY <3>6 DEF Values!Value
    <3> QED
      BY <3>3, <3>5, <3>6, <3>7, <3>8 DEF z, Ptr, At
  <2> QED
    BY <1>15, <2>1, <2>2
<1>16. ASSUME NEW k \in All(n), k = dst \/ k \notin All(f)
       PROVE  (\E j : Stands(k, j)) \/ (At(n, k) = Values!Garbage)
  <2>1. CASE k = dst
    BY <2>1
  <2>2. CASE k # dst
    <3>1. k \notin Root /\ \E x \in K : k[1] = g[x.p]
      BY <1>7, <1>8, <1>16, <2>2
    <3>2. PICK i \in A : had(i) /\ k[1] = g[Ptr(m, i)]
      <4>1. PICK x \in K : k[1] = g[x.p]
        BY <3>1
      <4>2. PICK i \in A : x = At(m, i) /\ had(i)
        BY <1>10
      <4>3. x.p = Ptr(m, i)
        BY <4>2 DEF At, Ptr
      <4> QED
        BY <4>1, <4>2, <4>3
    <3>3. k = <<k[1], k[2]>> /\ k[2] \in Dom(n, k[1])
      BY <1>8, <3>1, AllIs
    <3> DEFINE h == k[2]
    <3>4. h \in 1..width(At(m, i)) /\ k = <<g[Ptr(m, i)], h>>
      <4> HIDE DEF width
      <4> QED BY <1>14, <3>2, <3>3
    <3> HIDE DEF h
    <3>5. At(n, k) = IF h <= At(m, i).size THEN Values!Element(At(m, <<Ptr(m, i), h>>), c, g) ELSE Values!Garbage
      <4> HIDE DEF width
      <4> QED BY <1>14, <3>2, <3>4
    <3>6. CASE h <= At(m, i).size
      <4>1. At(m, i).type = "array" /\ h \in 1..At(m, i).size
        BY <1>11, <3>2, <3>4, <3>6
      <4>2. Stands(k, <<Ptr(m, i), h>>)
        <5> HIDE DEF had
        <5> QED BY <3>2, <3>4, <4>1
      <4> HIDE DEF Stands
      <4> QED
        BY <4>2
    <3>7. CASE ~(h <= At(m, i).size)
      BY <3>5, <3>7
    <3> QED
      BY <3>6, <3>7
  <2> QED
    BY <2>1, <2>2
<1>17. ASSUME NEW k \in All(f), k # dst
       PROVE  k \in All(n) /\ At(n, k) = At(f, k) /\ Ptr(n, k) = Ptr(f, k) /\ (Ptr(f, k) # None => Ptr(f, k) \in Blocks(f))
  <2>1. k \in All(n) /\ At(n, k) = At(f, k)
    BY <1>7, <1>8, <1>17
  <2>2. Sound(f, At(f, k)) /\ At(f, k).p = Ptr(f, k)
    BY <1>3, <1>17 DEF Tree, At, Ptr
  <2>3. Ptr(n, k) = At(n, k).p
    BY DEF Ptr, At
  <2> QED
    BY <2>1, <2>2, <2>3 DEF Sound
<1>18. ASSUME NEW k \in All(n), Ptr(n, k) # None
       PROVE  \/ \E j \in A : Stands(k, j) /\ had(j) /\ Ptr(n, k) = g[Ptr(m, j)] /\ Ptr(n, k) \in N
              \/ k \in All(f) /\ k # dst /\ Ptr(n, k) = Ptr(f, k) /\ Ptr(n, k) \in Blocks(f)
  <2>1. CASE k = dst \/ k \notin All(f)
    <3>1. ASSUME At(n, k) = Values!Garbage PROVE FALSE
      BY <1>18, <3>1, GarbageIs DEF Ptr, At
    <3>2. PICK j : Stands(k, j)
      BY <1>16, <2>1, <3>1
    <3> HIDE DEF Stands, had
    <3>3. j \in A /\ had(j) /\ Ptr(n, k) = g[Ptr(m, j)]
      BY <1>15, <1>18, <3>2
    <3>4. Ptr(n, k) \in N
      BY <1>11, <3>3
    <3> QED
      BY <3>2, <3>3, <3>4
  <2>2. CASE k \in All(f) /\ k # dst
    <3> HIDE DEF Stands, had
    <3> QED BY <1>17, <1>18, <2>2
  <2> QED
    BY <2>1, <2>2
\* A copy stands at one place.
<1>19. ASSUME NEW j, NEW k, NEW i, Stands(k, j), Stands(i, j) PROVE k = i
  <2>1. ASSUME NEW h \in A, had(h), NEW e \in 1..At(m, h).size, src = <<Ptr(m, h), e>> PROVE FALSE
    <3>1. Ptr(m, h) \in BlocksOf(m, Values!Inside(m, src))
      BY <1>9, <1>11, <2>1 DEF BlocksOf
    <3>2. ~In(src, BlocksOf(m, Values!Inside(m, src)))
      BY NoRing
    <3>3. src[1] = Ptr(m, h)
      BY <2>1
    <3>4. src \notin Root
      <4>1. Ptr(m, h) \in Blocks(m) /\ Sound(m, At(m, h)) /\ At(m, h).p = Ptr(m, h)
        BY <1>11, <2>1
      <4>2. At(m, h).type = "string" => Dom(m, Ptr(m, h)) = Dom(m, Ptr(m, h))
        OBVIOUS
      <4>3. At(m, h).type \in {"string", "array"} /\ At(m, h).size \in Nat
        BY <1>11, <2>1
      <4>4. e \in Nat
        BY <4>3
      <4>5. src = <<Ptr(m, h), e>> /\ Ptr(m, h) \in Cell
        BY <1>4, <2>1, <4>1 DEF Shape
      <4>6. src \in Cell \X Nat
        BY <4>4, <4>5
      <4> QED
        BY <4>6, ValueAssumption
    <3> QED
      BY <3>1, <3>2, <3>3, <3>4 DEF In
  <2>2. CASE j = src
    <3>1. ASSUME NEW q, Stands(q, src) PROVE q = dst
      BY <2>1, <3>1
    <3> HIDE DEF Stands
    <3> QED
      BY <1>19, <2>2, <3>1
  <2>3. CASE j # src
    <3> DEFINE Slot(h, e, q) == h \in A /\ j = <<Ptr(m, h), e>> /\ q = <<g[Ptr(m, h)], e>>
    <3>1. PICK h, e : Slot(h, e, k)
      BY <1>19, <2>3
    <3>2. PICK h2, e2 : Slot(h2, e2, i)
      BY <1>19, <2>3
    <3>3. Ptr(m, h) = Ptr(m, h2) /\ e = e2
      BY <3>1, <3>2
    <3> QED
      BY <3>1, <3>2, <3>3
  <2> QED
    BY <2>2, <2>3
<1>20. Unique(n)
  <2> SUFFICES ASSUME NEW i \in All(n), NEW k \in All(n), Ptr(n, i) # None, Ptr(n, i) = Ptr(n, k) PROVE i = k
    BY DEF Unique
  <2> HIDE DEF Stands, had
  <2>1. CASE Ptr(n, i) \in N
    <3>1. Ptr(n, i) \notin Blocks(f)
      BY <1>12, <2>1
    <3>2. PICK j \in A : Stands(i, j) /\ had(j) /\ Ptr(n, i) = g[Ptr(m, j)]
      BY <1>18, <3>1
    <3>3. PICK h \in A : Stands(k, h) /\ had(h) /\ Ptr(n, k) = g[Ptr(m, h)]
      BY <1>18, <3>1
    <3>4. h = j
      BY <1>13, <3>2, <3>3
    <3> QED
      BY <1>19, <3>2, <3>3, <3>4
  <2>2. CASE Ptr(n, i) \notin N
    <3>1. /\ i \in All(f) /\ Ptr(n, i) = Ptr(f, i)
          /\ k \in All(f) /\ Ptr(n, k) = Ptr(f, k)
      BY <1>18, <2>2
    <3> QED
      BY <1>3, <3>1 DEF Tree, Unique
  <2> QED
    BY <2>1, <2>2
<1>21. ASSUME NEW k \in All(n) PROVE Sound(n, At(n, k))
  <2>1. CASE k \in All(f) /\ k # dst
    <3> DEFINE z == At(f, k)
    <3>1. At(n, k) = z /\ Sound(f, z) /\ z.p = Ptr(f, k)
      BY <1>3, <1>17, <2>1 DEF Tree, At, Ptr
    <3> HIDE DEF z, Stands, had
    <3>2. z.p # None => z.p \in Blocks(f) /\ z.p \in Blocks(n) /\ Dom(n, z.p) = Dom(f, z.p)
      BY <1>7, <1>8, <3>1 DEF Sound
    <3>3. ASSUME z.p # None, NEW i \in Dom(f, z.p), Ptr(n, <<z.p, i>>) # None
          PROVE Ptr(f, <<z.p, i>>) # None \/ Live(z, i)
      <4>1. <<z.p, i>> \in All(f)
        BY <1>4, <3>2, <3>3, AllIs
      <4>2. CASE <<z.p, i>> # dst
        BY <1>17, <3>3, <4>1, <4>2
      <4>3. CASE <<z.p, i>> = dst
        <5>1. Live(At(f, k), i)
          BY <1>3, <2>1, <3>1, <3>3, <4>3, AliveIsLive
        <5> QED
          BY <5>1 DEF z
      <4> QED
        BY <4>2, <4>3
    <3>4. Sound(n, z)
      BY <3>1, <3>2, <3>3, SoundStays
    <3> QED
      BY <3>1, <3>4
  <2>2. CASE k = dst \/ k \notin All(f)
    <3>1. CASE At(n, k) = Values!Garbage
      BY <3>1, GarbageIs
    <3>2. CASE At(n, k) # Values!Garbage
      <4>1. PICK j : Stands(k, j)
        BY <1>16, <2>2, <3>2
      <4>2. j \in A /\ (~had(j) => Sound(n, At(n, k)))
        <5> HIDE DEF Stands, had
        <5> QED BY <1>15, <4>1
      <4>3. ASSUME had(j) PROVE Sound(n, At(n, k))
        <5> DEFINE x == At(m, j)
                   b == g[Ptr(m, j)]
                   z == Values!Value(x.type, b, x.size, width(x))
        <5>1. At(n, k) = z
          <6> HIDE DEF Stands, had, width
          <6> QED BY <1>15, <4>1, <4>3
        <5>2. x.type \in {"string", "array"} /\ x.size \in Nat /\ width(x) \in Nat /\ b \in N
          BY <1>11, <4>2, <4>3
        <5>3. x.type = "array" => x.size <= width(x)
          BY <1>11, <4>2, <5>2
        <5>4. Dom(n, b) = 1..width(x) /\ b \in Blocks(n)
          <6> HIDE DEF had, width
          <6> QED BY <1>14, <4>2, <4>3
        <5>5. ASSUME NEW i \in Dom(n, b), ~Live(z, i) PROVE Ptr(n, <<b, i>>) = None
          <6>1. i \in 1..width(x)
            BY <5>4
          <6>2. x.type = "array"
            BY <5>2, <6>1
          <6>3. ~(i <= x.size)
            <7> HIDE DEF width
            <7> QED BY <5>5, <6>2 DEF Live, Values!Value, Compounds
          <6>4. At(n, <<b, i>>) = Values!Garbage
            <7> HIDE DEF had, width
            <7> QED BY <1>14, <4>2, <4>3, <6>1, <6>3
          <6> QED
            BY <6>4, GarbageIs DEF Ptr, At
        <5>6. b # None
          BY <1>4, <1>12, <5>2
        <5> HIDE DEF x, b, width
        <5>7. z.p = b /\ z.type = x.type /\ z.size = x.size /\ z.capacity = width(x)
          BY DEF Values!Value
        <5>8. z = Values!Value(z.type, z.p, z.size, z.capacity)
          BY <5>7
        <5> HIDE DEF z
        <5>9. Sound(n, z)
          BY <5>2, <5>3, <5>4, <5>5, <5>6, <5>7, <5>8 DEF Sound, Compounds
        <5> QED
          BY <5>1, <5>9
      <4> QED
        BY <4>2, <4>3
    <3> QED
      BY <3>1, <3>2
  <2> QED
    BY <2>1, <2>2
<1>22. ASSUME NEW S \in SUBSET Blocks(n), \A k \in All(n) : Ptr(n, k) \in S => In(k, S) PROVE S = {}
  <2> DEFINE Sf == S \cap Blocks(f)
             T == {b \in Blocks(m) : \E j \in A : had(j) /\ b = Ptr(m, j) /\ g[b] \in S}
  <2>1. ASSUME NEW k \in All(f), Ptr(f, k) \in Sf PROVE In(k, Sf)
    <3>1. k # dst
      BY <1>3, <1>4, <2>1
    <3>2. In(k, S)
      BY <1>17, <1>22, <2>1, <3>1
    <3>3. k[1] \in Blocks(f)
      BY <1>4, <3>2, AllIs DEF In
    <3> QED
      BY <3>2, <3>3 DEF In
  <2>2. Sf = {}
    <3>1. Sf \in SUBSET Blocks(f)
      OBVIOUS
    <3> HIDE DEF Sf
    <3> QED BY <1>3, <2>1, <3>1 DEF Tree, Rooted
  <2>3. S \subseteq N
    BY <1>7, <1>8, <2>2
  <2>4. ASSUME NEW k \in All(m), Ptr(m, k) \in T PROVE In(k, T)
    <3>1. PICK j \in A : had(j) /\ Ptr(m, k) = Ptr(m, j) /\ g[Ptr(m, j)] \in S
      BY <2>4
    <3>2. k = j
      <4> HIDE DEF had
      <4>1. j \in All(m) /\ Ptr(m, j) # None
        BY <1>9, <1>11, <3>1
      <4> QED
        BY <3>1, <4>1 DEF Tree, Unique
    <3>3. CASE j = src
      <4>1. Stands(dst, j)
        BY <3>3
      <4>2. dst \in All(n) /\ Ptr(n, dst) \in S
        <5> HIDE DEF Stands, had
        <5> QED BY <1>15, <3>1, <4>1
      <4>3. In(dst, S)
        BY <1>22, <4>2
      <4>4. dst[1] \in Blocks(f) /\ dst[1] \in N
        BY <1>3, <1>4, <2>3, <4>3, AllIs DEF In
      <4> QED
        BY <1>12, <4>4
    <3>4. CASE j # src
      <4>1. PICK i \in A : Child(m, i, {"array"}, j)
        BY <1>9, <3>4
      <4>2. At(m, i).type = "array" /\ At(m, i).size \in Nat
        BY <1>11, <4>1 DEF Child
      <4>3. PICK h \in 1..At(m, i).size : j = <<Ptr(m, i), h>>
        BY <4>1 DEF Child
      <4>4. had(i)
        <5> HIDE DEF had
        <5> QED BY <1>11, <4>2, <4>3
      <4> DEFINE e == <<g[Ptr(m, i)], h>>
      <4>5. Stands(e, j)
        <5> HIDE DEF had
        <5> QED BY <4>2, <4>3, <4>4
      <4>6. e \in All(n) /\ Ptr(n, e) \in S
        <5> HIDE DEF Stands, had, e
        <5> QED BY <1>15, <3>1, <4>5
      <4>7. In(e, S)
        <5> HIDE DEF e
        <5> QED BY <1>22, <4>6
      <4>8. g[Ptr(m, i)] \in S
        BY <4>7 DEF In
      <4>9. Ptr(m, i) \in T
        <5> HIDE DEF had
        <5>1. Ptr(m, i) \in Blocks(m)
          BY <1>11, <4>4
        <5> QED BY <4>4, <4>8, <5>1
      <4>10. j \in All(m) /\ j \notin Root /\ j[1] = Ptr(m, i)
        <5>1. i \in All(m) /\ {"array"} \in SUBSET Compounds
          BY <1>9 DEF Compounds
        <5> QED
          BY <4>1, <5>1, ChildIsPlace
      <4> HIDE DEF T
      <4> QED
        BY <3>2, <4>9, <4>10 DEF In
    <3> QED
      BY <3>3, <3>4
  <2>5. T = {}
    <3>1. T \in SUBSET Blocks(m)
      OBVIOUS
    <3> HIDE DEF T
    <3> QED BY <2>4, <3>1 DEF Tree, Rooted
  <2>6. ASSUME NEW b \in S PROVE FALSE
    <3> HIDE DEF had
    <3>1. PICK j \in A : had(j) /\ b = g[Ptr(m, j)]
      BY <1>12, <2>3
    <3>2. Ptr(m, j) \in Blocks(m)
      BY <1>11, <3>1
    <3>3. Ptr(m, j) \in T
      BY <3>1, <3>2
    <3> QED
      BY <2>5, <3>3
  <2> QED
    BY <2>6
<1> QED
  BY <1>8, <1>20, <1>21, <1>22 DEF Tree, Rooted

\* lept_parse, of an array and of an object with one element.
LEMMA ParsedArrayIs ==
  ASSUME NEW m, Tree(m), NEW l \in Root, Values!Pointers(m, l) = {}, Values!Room(m), NEW type, type # "string",
         NEW f, f = Values!Fresh(m), NEW a, a = Values!Put(Values!Malloc(m, 1), l, Values!Value("array", f, 1, Unset))
  PROVE  Tree(Values!Put(a, <<f, 1>>, Values!Simple(type)))
<1>1. l \in All(m) /\ Alive(m, l) /\ Ptr(m, l) = None
  BY InsideIs DEF All, Alive, BlocksOf
<1> DEFINE x == Values!Value("array", f, 1, Unset)
           s == <<f, 1>>
<1>2. FitsBlock(x, 1) /\ x.p = f
  BY DEF FitsBlock, Values!Value, Compounds
<1> HIDE DEF x
<1>3. Tree(a) /\ s \in All(a) /\ At(a, s) = Values!Garbage
  <2>1. a = Values!Put(Values!Malloc(m, 1), l, x)
    BY DEF x
  <2>2. Tree(a) /\ \A i \in 1..1 : <<f, i>> \in All(a) /\ At(a, <<f, i>>) = Values!Garbage
    BY <1>1, <1>2, <2>1, NewIs
  <2> QED
    BY <2>2
<1> HIDE DEF s
<1>4. Values!Simple(type).p = Ptr(a, s) /\ Sound(a, Values!Simple(type))
  BY <1>3, GarbageIs DEF Ptr, At
<1>5. Tree(Values!Put(a, s, Values!Simple(type)))
  BY <1>3, <1>4, PutKeeps
<1> QED
  BY <1>5 DEF s

LEMMA ParsedObjectIs ==
  ASSUME NEW m, Tree(m), NEW l \in Root, Values!Pointers(m, l) = {}, Cardinality(Cell \ Blocks(m)) >= 2,
         NEW type, type # "string",
         NEW f, f = Values!Fresh(m), NEW o, o = Values!Put(Values!Malloc(m, 2), l, Values!Value("object", f, 2, 2))
  PROVE  Tree(Values!Put(Values!SetString(o, <<f, 1>>, 1), <<f, 2>>, Values!Simple(type)))
<1>1. l \in All(m) /\ Alive(m, l) /\ Ptr(m, l) = None
  BY InsideIs DEF All, Alive, BlocksOf
<1>2. Values!Room(m)
  BY FS_EmptySet DEF Values!Room, Blocks
<1> DEFINE x == Values!Value("object", f, 2, 2)
           s == <<f, 1>>
           t == <<f, 2>>
           h == Values!Free(o, s)
           n == Values!SetString(o, s, 1)
<1>3. FitsBlock(x, 2) /\ x.p = f /\ x.type \in Compounds /\ x.size = 2
  BY DEF FitsBlock, Values!Value, Compounds
<1> HIDE DEF x
<1>4. /\ Tree(o) /\ s \in All(o) /\ t \in All(o) /\ At(o, s) = Values!Garbage /\ At(o, t) = Values!Garbage
      /\ Alive(o, s) /\ Blocks(o) = Blocks(m) \cup {f} /\ f \in Cell \ Blocks(m) /\ s # t
  <2>1. o = Values!Put(Values!Malloc(m, 2), l, x)
    BY DEF x
  <2>2. /\ Tree(o) /\ \A i \in 1..2 : <<f, i>> \in All(o) /\ At(o, <<f, i>>) = Values!Garbage
        /\ \A i \in 1..2 : Alive(o, <<f, i>>)
        /\ Blocks(o) = Blocks(m) \cup {f} /\ f \in Cell \ Blocks(m)
    BY <1>1, <1>2, <1>3, <2>1, NewIs
  <2>3. s # t
    OBVIOUS
  <2> QED
    BY <2>2, <2>3
<1> HIDE DEF s, t, h, n
<1>5. Ptr(o, s) = None /\ Ptr(o, t) = None
  BY <1>4, GarbageIs DEF Ptr, At
<1>6. Values!Room(h)
  <2>1. Blocks(h) \subseteq Blocks(o)
    BY <1>4, FreeIs DEF h
  <2>2. ASSUME Cell \ Blocks(o) = {} PROVE FALSE
    <3>1. Cell \ Blocks(m) = {f}
      BY <1>4, <2>2
    <3>2. Cardinality({f}) = 1
      BY FS_Singleton
    <3> QED
      BY <3>1, <3>2
  <2> QED
    BY <2>1, <2>2 DEF Values!Room, Blocks
<1>7. Values!Inside(o, s) = {s} /\ BlocksOf(o, {s}) = {}
  BY <1>4, <1>5, InsideNone
<1>8. Tree(n) /\ t \in All(n) /\ At(n, t) = At(o, t)
  <2>1. Values!Room(Values!Free(o, s)) /\ n = Values!SetString(o, s, 1) /\ 1 \in Nat
    BY <1>6 DEF h, n
  <2>2. ~In(t, BlocksOf(o, Values!Inside(o, s)))
    BY <1>7 DEF In
  <2> QED
    BY <1>4, <2>1, <2>2, SetStringIs
<1>9. Values!Simple(type).p = Ptr(n, t) /\ Sound(n, Values!Simple(type))
  BY <1>4, <1>8, GarbageIs DEF Ptr, At
<1>10. Tree(Values!Put(n, t, Values!Simple(type)))
  BY <1>8, <1>9, PutKeeps
<1> QED
  BY <1>10 DEF n, s, t
-----------------------------------------------------------------------------
(* What every call keeps: the blocks form trees that hang from the         *)
(* variables and each array knows its block, unless a value went into      *)
(* itself; and only doubt leads outside a block.                           *)
ValuesInv == ("self" \notin doubts => Tree(mem)) /\ (wild => doubts # {})

LEMMA ValuesInit == Values!Init => ValuesInv
<1> SUFFICES ASSUME Values!Init PROVE ValuesInv
  OBVIOUS
<1>1. mem = [root |-> [r \in Root |-> Values!Null], heap |-> Values!NoSlots] /\ doubts = {} /\ wild = FALSE
  BY DEF Values!Init
<1>2. mem.root = [r \in Root |-> Values!Null] /\ mem.heap = Values!NoSlots
  BY <1>1
<1>3. DOMAIN mem.heap = {}
  BY <1>2 DEF Values!NoSlots
<1>4. Shape(mem) /\ Blocks(mem) = {}
  BY <1>1, <1>2, <1>3 DEF Shape, Blocks
<1>5. All(mem) = Root
  BY <1>4 DEF All
<1>6. \A r \in Root : At(mem, r) = Values!Null
  BY <1>2 DEF At, Values!Get
<1>7. \A r \in Root : Sound(mem, At(mem, r)) /\ Ptr(mem, r) = None
  <2> TAKE r \in Root
  <2>1. At(mem, r) = Values!Simple("null")
    BY <1>6, GarbageIs
  <2> QED
    BY <2>1, GarbageIs DEF Ptr, At
<1>8. Unique(mem) /\ Rooted(mem)
  BY <1>4, <1>5, <1>7 DEF Unique, Rooted
<1> QED
  BY <1>1, <1>4, <1>5, <1>7, <1>8 DEF ValuesInv, Tree

LEMMA BecomesKeeps ==
  ASSUME NEW m, Tree(m), Values!Becomes(m)
  PROVE  ValuesInv'
<1>1. mem' = m /\ wild' = FALSE
  BY DEF Values!Becomes, Values!Trusted
<1> QED
  BY <1>1 DEF ValuesInv

LEMMA UsesKeeps ==
  ASSUME Tree(mem), NEW m, NEW D, NEW safe \in BOOLEAN, safe /\ "self" \notin D => Tree(m), ~safe => D # {},
         Values!Uses(D, safe, m)
  PROVE  ValuesInv'
<1>1. /\ mem' = (IF safe THEN m ELSE mem) /\ doubts' = (IF safe THEN D \ {"slot"} ELSE D)
      /\ wild' = ~safe
  BY DEF Values!Uses
<1>2. CASE safe
  <2>1. mem' = m /\ doubts' = D \ {"slot"} /\ wild' = FALSE
    BY <1>1, <1>2
  <2> QED
    BY <1>2, <2>1 DEF ValuesInv
<1>3. CASE ~safe
  <2>1. mem' = mem /\ doubts' = D
    BY <1>1, <1>3
  <2> QED
    BY <1>3, <2>1 DEF ValuesInv
<1> QED
  BY <1>2, <1>3

\* The doubts of a call that reads the capacity of x.
LEMMA UnknownIs == ASSUME NEW x PROVE x.capacity = Unset => Values!Unknown(x) # {}
BY DEF Values!Unknown

LEMMA PlacesAre ==
  ASSUME Tree(mem)
  PROVE  /\ \A r \in Root : r \in All(mem) /\ Alive(mem, r)
         /\ \A l \in Values!Places : l \in All(mem) /\ Alive(mem, l)
<1>1. \A r \in Root : r \in All(mem) /\ Alive(mem, r)
  BY DEF All, Alive
<1>2. ASSUME NEW l \in Values!Places PROVE l \in All(mem) /\ Alive(mem, l)
  <2>1. PICK r \in Root : l \in Values!Inside(mem, r)
    BY <1>2 DEF Values!Places, Values!Everywhere
  <2> QED
    BY <1>1, <2>1, InsideIs
<1> QED
  BY <1>1, <1>2

\* The calls that cannot lead outside a block.
LEMMA PlainKeeps ==
  ASSUME Tree(mem), NEW l \in Values!Places
  PROVE  /\ \A type \in Scalars : Values!SetScalar(l, type) => ValuesInv'
         /\ Values!SetText(l, 1) => ValuesInv'
         /\ \A count \in Nat : Values!SetNewArray(l, count) => ValuesInv'
         /\ Values!PopBack(l) => ValuesInv'
<1>1. Tree(mem) /\ l \in All(mem) /\ Alive(mem, l)
  BY PlacesAre
<1>2. ASSUME NEW type \in Scalars, Values!SetScalar(l, type) PROVE ValuesInv'
  <2>1. Tree(Values!SetSimple(mem, l, Values!Simple(type)))
    BY <1>1, SetSimpleIs, ValueAssumption
  <2> QED
    BY <1>2, <2>1, BecomesKeeps DEF Values!SetScalar
<1>3. ASSUME Values!SetText(l, 1) PROVE ValuesInv'
  <2>1. Tree(Values!SetString(mem, l, 1))
    BY <1>1, <1>3, SetStringIs DEF Values!SetText
  <2> QED
    BY <1>3, <2>1, BecomesKeeps DEF Values!SetText
<1>4. ASSUME NEW count \in Nat, Values!SetNewArray(l, count) PROVE ValuesInv'
  <2>1. Tree(Values!SetArray(mem, l, count))
    BY <1>1, <1>4, SetArrayIs DEF Values!SetNewArray
  <2> QED
    BY <1>4, <2>1, BecomesKeeps DEF Values!SetNewArray
<1>5. ASSUME Values!PopBack(l) PROVE ValuesInv'
  <2> DEFINE x == At(mem, l)
             m == Values!Put(Values!Free(mem, <<x.p, x.size>>), l, [x EXCEPT !.size = @ - 1])
  <2>1. x.type = "array" /\ x.size > 0 /\ Values!Becomes(m)
    BY <1>5 DEF Values!PopBack, Values!IsArray, At
  <2>2. Tree(m)
    BY <1>1, <2>1, PoppedIs
  <2> HIDE DEF m
  <2> QED
    BY <2>1, <2>2, BecomesKeeps
<1> QED
  BY <1>2, <1>3, <1>4, <1>5

LEMMA ParseKeeps ==
  ASSUME Tree(mem), NEW l \in Root, NEW type \in Scalars, Values!ParseArray(l, type) \/ Values!ParseObject(l, type)
  PROVE  ValuesInv'
<1>1. Tree(mem) /\ type # "string"
  BY ValueAssumption
<1>2. CASE Values!ParseArray(l, type)
  <2> DEFINE f == Values!Fresh(mem)
             a == Values!Put(Values!Malloc(mem, 1), l, Values!Value("array", f, 1, Unset))
             m == Values!Put(a, <<f, 1>>, Values!Simple(type))
  <2>1. Values!Pointers(mem, l) = {} /\ Values!Room(mem) /\ Values!Becomes(m)
    BY <1>2 DEF Values!ParseArray, Values!Idle
  <2>2. Tree(m)
    BY <1>1, <2>1, ParsedArrayIs
  <2> HIDE DEF m
  <2> QED
    BY <2>1, <2>2, BecomesKeeps
<1>3. CASE Values!ParseObject(l, type)
  <2> DEFINE f == Values!Fresh(mem)
             o == Values!Put(Values!Malloc(mem, 2), l, Values!Value("object", f, 2, 2))
             m == Values!Put(Values!SetString(o, <<f, 1>>, 1), <<f, 2>>, Values!Simple(type))
  <2>1. Values!Pointers(mem, l) = {} /\ Values!Cardinality(Cell \ DOMAIN mem.heap) >= 2 /\ Values!Becomes(m)
    BY <1>3 DEF Values!ParseObject, Values!Idle
  <2>2. Cardinality(Cell \ Blocks(mem)) >= 2
    BY <2>1, ValuesCount DEF Blocks
  <2>3. Tree(m)
    BY <1>1, <2>1, <2>2, ParsedObjectIs
  <2> HIDE DEF m
  <2> QED
    BY <2>1, <2>3, BecomesKeeps
<1> QED
  BY <1>2, <1>3

LEMMA MoveKeeps ==
  ASSUME Tree(mem), NEW l \in Values!Places \cup Root, NEW r \in Values!Places \cup Root,
         Values!MoveValue(l, r) \/ Values!Swap(l, r)
  PROVE  ValuesInv'
<1>1. Tree(mem) /\ l \in All(mem) /\ Alive(mem, l) /\ r \in All(mem) /\ Alive(mem, r)
  BY PlacesAre
<1>2. CASE Values!Apart(l, r)
  <2>1. l \notin Values!Inside(mem, r) /\ r \notin Values!Inside(mem, l)
    BY <1>2 DEF Values!Apart
  <2>2. Tree(Values!Moved(mem, l, r)) /\ Tree(Values!Swapped(mem, l, r))
    BY <1>1, <2>1, MovedIs, SwappedIs
  <2> QED
    BY <1>2, <2>2, BecomesKeeps DEF Values!MoveValue, Values!Swap
<1>3. CASE ~Values!Apart(l, r)
  <2> DEFINE safe == r \notin Values!Inside(mem, l)
  <2>1. \/ Values!Uses({"self"}, safe, Values!Moved(mem, l, r))
        \/ Values!Uses({"self"}, TRUE, Values!Swapped(mem, l, r))
    BY <1>3 DEF Values!MoveValue, Values!Swap
  <2>2. safe \in BOOLEAN /\ {"self"} # {} /\ "self" \in {"self"}
    OBVIOUS
  <2> HIDE DEF safe
  <2> QED
    BY <1>1, <2>1, <2>2, UsesKeeps
<1> QED
  BY <1>2, <1>3

\* What is read as the capacity of an array: its slots, unless nobody has written it.
LEMMA ReadingIs ==
  ASSUME NEW m, Tree(m), NEW l \in All(m), NEW x, x = At(m, l), x.type = "array", NEW c \in Nat,
         NEW d, d = Values!Capacity(x, c)
  PROVE  /\ d \in Nat /\ x.size \in Nat
         /\ x.capacity # Unset => x.size <= d /\ (d = 0 \/ (x.p # None /\ Dom(m, x.p) = 1..d))
<1>1. Sound(m, x) /\ Shape(m)
  BY DEF Tree
<1>2. x.p = None => x.size = 0 /\ x.capacity = 0
  BY <1>1 DEF Sound
<1>3. x.p # None => /\ x.p \in Blocks(m) /\ 1..x.size \subseteq Dom(m, x.p)
                    /\ x.capacity # Unset => x.capacity \in Nat /\ Dom(m, x.p) = 1..x.capacity
  BY <1>1 DEF Sound, Compounds
<1>4. x.size \in Nat
  BY <1>1 DEF Sound
<1>5. x.capacity # Unset => d = x.capacity
  BY DEF Values!Capacity
<1>6. x.capacity = Unset => d = c
  BY DEF Values!Capacity
<1>7. CASE x.p = None
  <2>1. x.capacity = 0 /\ x.size = 0 /\ Unset # 0
    BY <1>2, <1>7, ValueAssumption
  <2>2. d = 0
    BY <1>5, <2>1
  <2>3. d \in Nat /\ x.size \in Nat /\ x.size <= d
    BY <2>1, <2>2
  <2> QED
    BY <2>2, <2>3
<1>8. CASE x.p # None
  <2>1. x.capacity # Unset => 1..x.size \subseteq 1..x.capacity /\ x.capacity \in Nat
    BY <1>3, <1>8
  <2>2. x.capacity # Unset => x.size <= x.capacity
    BY <1>4, <2>1
  <2> QED
    BY <1>3, <1>4, <1>5, <1>6, <1>8, <2>2
<1> QED
  BY <1>7, <1>8

LEMMA ReadingsAre == ASSUME NEW x, NEW d \in Values!Readings(x) PROVE \E c \in Nat : d = Values!Capacity(x, c)
BY ValueAssumption DEF Values!Readings

LEMMA ReserveKeeps ==
  ASSUME Tree(mem), NEW l \in Values!Places, NEW count \in Nat, Values!Reserve(l, count)
  PROVE  ValuesInv'
<1> DEFINE x == At(mem, l)
<1>1. Tree(mem) /\ l \in All(mem) /\ Alive(mem, l)
  BY PlacesAre
<1>2. /\ x.type = "array" /\ Values!Room(mem)
      /\ \E d \in Values!Readings(x) :
           IF d < count THEN Values!Uses(Values!Unknown(x), x.size <= count, Values!Reserved(mem, l, count))
                        ELSE Values!Uses(Values!Unknown(x), TRUE, mem)
  BY DEF Values!Reserve, Values!IsArray, At
<1>3. PICK d \in Values!Readings(x) :
           IF d < count THEN Values!Uses(Values!Unknown(x), x.size <= count, Values!Reserved(mem, l, count))
                        ELSE Values!Uses(Values!Unknown(x), TRUE, mem)
  BY <1>2
<1>4. d \in Nat /\ x.size \in Nat /\ (x.capacity # Unset => x.size <= d)
  BY <1>1, <1>2, ReadingsAre, ReadingIs
<1>5. CASE d < count
  <2>1. x.size <= count => Tree(Values!Reserved(mem, l, count))
    BY <1>1, <1>2, ReservedIs
  <2>2. ~(x.size <= count) => x.capacity = Unset
    BY <1>4, <1>5
  <2>3. Values!Uses(Values!Unknown(x), x.size <= count, Values!Reserved(mem, l, count))
    BY <1>3, <1>5
  <2>4. (x.size <= count) \in BOOLEAN
    BY <1>4
  <2> HIDE DEF x
  <2> QED
    BY <1>1, <2>1, <2>2, <2>3, <2>4, UnknownIs, UsesKeeps
<1>6. CASE ~(d < count)
  <2>1. Values!Uses(Values!Unknown(x), TRUE, mem)
    BY <1>3, <1>6
  <2> HIDE DEF x
  <2> QED
    BY <1>1, <2>1, UsesKeeps
<1> QED
  BY <1>5, <1>6

LEMMA ShrinkKeeps ==
  ASSUME Tree(mem), NEW l \in Values!Places, Values!Shrink(l)
  PROVE  ValuesInv'
<1> DEFINE x == At(mem, l)
<1>1. Tree(mem) /\ l \in All(mem)
  BY PlacesAre
<1>2. /\ x.type = "array"
      /\ \E d \in Values!Readings(x) :
           Values!Uses(Values!Unknown(x), TRUE, IF d > x.size THEN Values!Shrunk(mem, l) ELSE mem)
  BY DEF Values!Shrink, Values!IsArray, At
<1>3. PICK d \in Values!Readings(x) :
           Values!Uses(Values!Unknown(x), TRUE, IF d > x.size THEN Values!Shrunk(mem, l) ELSE mem)
  BY <1>2
<1>4. Tree(IF d > x.size THEN Values!Shrunk(mem, l) ELSE mem)
  BY <1>1, <1>2, ShrunkIs
<1> HIDE DEF x
<1> QED
  BY <1>1, <1>3, <1>4, UsesKeeps

LEMMA PushKeeps ==
  ASSUME Tree(mem), NEW l \in Values!Places, Values!PushBack(l)
  PROVE  ValuesInv'
<1> DEFINE x == At(mem, l)
           m(d) == IF x.size = d THEN Values!Reserved(mem, l, Values!Doubled(d)) ELSE mem
           y(d) == At(m(d), l)
           n(d) == Values!Put(Values!Put(m(d), <<y(d).p, x.size + 1>>, Values!Null), l, [y(d) EXCEPT !.size = @ + 1])
           safe(d) == x.size + 1 \in Values!Slots(m(d), y(d))
<1>1. Tree(mem) /\ l \in All(mem) /\ Alive(mem, l)
  BY PlacesAre
<1>2. x.type = "array" /\ Values!Room(mem) /\ \E d \in Values!Readings(x) : Values!Uses(Values!Unknown(x), safe(d), n(d))
  BY DEF Values!PushBack, Values!IsArray, At
<1>3. PICK d \in Values!Readings(x) : Values!Uses(Values!Unknown(x), safe(d), n(d))
  BY <1>2
<1>4. /\ d \in Nat /\ x.size \in Nat
      /\ x.capacity # Unset => x.size <= d /\ (d = 0 \/ (x.p # None /\ Dom(mem, x.p) = 1..d))
  BY <1>1, <1>2, ReadingsAre, ReadingIs
<1>5. Values!Doubled(d) \in Nat /\ Values!Doubled(d) >= d + 1
  BY <1>4 DEF Values!Doubled
<1>6. CASE x.size = d
  <2>1. m(d) = Values!Reserved(mem, l, Values!Doubled(d))
    BY <1>6
  <2>2. x.size <= Values!Doubled(d)
    BY <1>4, <1>5, <1>6
  <2>3. /\ Tree(m(d)) /\ l \in All(m(d)) /\ y(d).type = "array" /\ y(d).size = x.size
        /\ y(d).p # None /\ Dom(m(d), y(d).p) = 1..Values!Doubled(d)
    BY <1>1, <1>2, <1>5, <2>1, <2>2, ReservedIs
  <2> HIDE DEF m
  <2>4. safe(d) => Tree(n(d))
    <3>1. y(d) = At(m(d), l)
      OBVIOUS
    <3> HIDE DEF y, x
    <3>2. x.size + 1 = y(d).size + 1
      BY <2>3
    <3> QED
      BY <2>3, <3>1, <3>2, PushedIs
  <2>5. safe(d)
    <3> HIDE DEF x, y
    <3> QED BY <1>4, <1>5, <1>6, <2>3 DEF Values!Slots, Dom
  <2> HIDE DEF safe, n, x
  <2> QED
    BY <1>1, <1>3, <2>4, <2>5, UsesKeeps
<1>7. CASE x.size # d
  <2>1. m(d) = mem /\ y(d) = x
    BY <1>7
  <2>2. safe(d) <=> x.size + 1 \in Values!Slots(mem, x)
    BY <2>1
  <2>3. n(d) = Values!Put(Values!Put(mem, <<x.p, x.size + 1>>, Values!Null), l, [x EXCEPT !.size = @ + 1])
    BY <2>1
  <2>6. safe(d) \in BOOLEAN
    OBVIOUS
  <2> HIDE DEF m, y, safe, n
  <2>4. safe(d) => Tree(n(d))
    BY <1>1, <1>2, <2>2, <2>3, PushedIs
  <2>5. x.capacity # Unset => safe(d)
    <3> HIDE DEF x
    <3>1. ASSUME x.capacity # Unset PROVE x.p # None /\ x.size + 1 \in Dom(mem, x.p)
      BY <1>4, <1>7, <3>1
    <3> QED
      BY <2>2, <3>1 DEF Values!Slots, Dom
  <2> HIDE DEF x
  <2> QED
    BY <1>1, <1>3, <2>4, <2>5, <2>6, UnknownIs, UsesKeeps
<1> QED
  BY <1>6, <1>7

LEMMA CopyOverKeeps ==
  ASSUME Tree(mem), NEW dst \in Values!Places \cup Root, NEW src \in Values!Places \cup Root,
         Values!CopyOver(dst, src), src \notin Values!Inside(mem, dst)
  PROVE  ValuesInv'
<1> DEFINE arrays == {Values!Get(mem, l) : l \in {k \in Through(mem, src) : Values!IsArray(k)}}
           D      == Values!CopyDoubts(dst, src)
           reads  == IF "capacity" \in D THEN 0..MaxCapacity ELSE {0}
           from(c) == Values!Source(dst, src, c)
           fits(c) == \A x \in arrays : x.size <= Values!Capacity(x, c)
<1>1. Tree(mem) /\ dst \in All(mem) /\ src \in All(mem) /\ Alive(mem, dst)
  BY PlacesAre
<1>2. /\ Through(mem, src) \subseteq All(mem) /\ Through(mem, src) \subseteq Values!Inside(mem, src)
      /\ Values!Reach(mem, src, {"array"}) = Through(mem, src)
  BY <1>1, ThroughIs DEF Through
<1>3. ASSUME NEW x \in arrays PROVE \E l \in All(mem) : x = At(mem, l) /\ x.type = "array"
  BY <1>2 DEF Values!IsArray, At
<1>4. ASSUME NEW l \in Through(mem, src), At(mem, l).type = "array" PROVE At(mem, l) \in arrays
  BY <1>4 DEF Values!IsArray, At
<1>5. \A x \in arrays : x.capacity = Unset => "capacity" \in D
  BY <1>2 DEF Values!CopyDoubts, Values!IsArray, Values!Unknown
<1>6. dst \in Values!Inside(mem, src) => "self" \in D
  BY DEF Values!CopyDoubts
<1>7. \/ "slot" \in D /\ Values!Uses(D, FALSE, mem)
      \/ \E c \in reads :
           /\ Values!Cardinality(Cell \ DOMAIN mem.heap) >= Values!Cardinality(Values!Pointers(from(c), src))
           /\ Values!Uses(D, fits(c), Values!Copied(from(c), dst, src, c))
  BY <1>2 DEF Values!CopyOver
<1>8. reads \subseteq Nat
  BY ValueAssumption
<1>9. ASSUME NEW c \in Nat PROVE fits(c) \in BOOLEAN
  OBVIOUS
<1>10. ASSUME NEW c \in Nat PROVE ~fits(c) => D # {}
  <2>1. SUFFICES ASSUME NEW x \in arrays, ~(x.size <= Values!Capacity(x, c)) PROVE x.capacity = Unset
    BY <1>5
  <2>2. PICK l \in All(mem) : x = At(mem, l) /\ x.type = "array"
    BY <1>3
  <2> HIDE DEF arrays
  <2> QED
    BY <1>1, <2>1, <2>2, ReadingIs
<1>11. ASSUME NEW c \in Nat PROVE fits(c) => Roomy(mem, src, c)
  BY <1>4 DEF Roomy
<1>12. dst \notin Values!Inside(mem, src) => \A c : from(c) = mem
  BY <1>2 DEF Values!Source
<1> HIDE DEF arrays, D, reads, fits, from
<1>13. ASSUME NEW c \in Nat, dst \notin Values!Inside(mem, src), fits(c),
              Values!Cardinality(Cell \ DOMAIN mem.heap) >= Values!Cardinality(Values!Pointers(mem, src))
       PROVE  Tree(Values!Copied(mem, dst, src, c))
  <2>1. Values!Pointers(mem, src) = BlocksOf(mem, Values!Inside(mem, src))
    BY <1>1, InsideIs
  <2>2. Cardinality(Cell \ Blocks(mem)) >= Cardinality(BlocksOf(mem, Values!Inside(mem, src)))
    BY <1>13, <2>1, ValuesCount DEF Blocks
  <2>3. IsFiniteSet(Cell \ Blocks(mem)) /\ Values!Inside(mem, src) \in SUBSET All(mem)
    BY <1>1, InsideIs, ValueAssumption, FS_Subset
  <2>4. Cardinality(Cell \ Blocks(mem)) \in Nat /\ Cardinality(BlocksOf(mem, Values!Inside(mem, src))) \in Nat
    BY <1>1, <2>3, OwnedIs, FS_CardinalityType
  <2>5. Cardinality(BlocksOf(mem, Values!Inside(mem, src))) <= Cardinality(Cell \ Blocks(mem))
    BY <2>2, <2>4
  <2> QED
    BY <1>1, <1>11, <1>13, <2>5, CopiedIs
<1>14. CASE "slot" \in D /\ Values!Uses(D, FALSE, mem)
  BY <1>1, <1>14, UsesKeeps
<1>15. ASSUME NEW c \in reads,
              Values!Cardinality(Cell \ DOMAIN mem.heap) >= Values!Cardinality(Values!Pointers(from(c), src)),
              Values!Uses(D, fits(c), Values!Copied(from(c), dst, src, c))
       PROVE  ValuesInv'
  <2>1. c \in Nat
    BY <1>8
  <2>2. fits(c) /\ "self" \notin D => Tree(Values!Copied(from(c), dst, src, c))
    BY <1>6, <1>12, <1>13, <1>15, <2>1
  <2> QED
    BY <1>1, <1>9, <1>10, <1>15, <2>1, <2>2, UsesKeeps
<1> QED
  BY <1>7, <1>14, <1>15

LEMMA CopyKeeps ==
  ASSUME Tree(mem), NEW dst \in Values!Places \cup Root, NEW src \in Values!Places \cup Root, Values!Copy(dst, src)
  PROVE  ValuesInv'
<1>1. CASE Values!Becomes(mem)
  BY <1>1, BecomesKeeps
<1>2. CASE Values!Uses({"self"}, FALSE, mem)
  <2>1. {"self"} # {}
    OBVIOUS
  <2> QED
    BY <1>2, <2>1, UsesKeeps
<1>3. CASE Values!CopyOver(dst, src) /\ src \notin Values!Inside(mem, dst)
  BY <1>3, CopyOverKeeps
<1>4. \/ Values!Becomes(mem)
      \/ Values!Uses({"self"}, FALSE, mem)
      \/ Values!CopyOver(dst, src) /\ src \notin Values!Inside(mem, dst)
  BY DEF Values!Copy
<1> QED
  BY <1>1, <1>2, <1>3, <1>4

LEMMA ValuesStep == ValuesInv /\ Values!Next => ValuesInv'
<1> SUFFICES ASSUME ValuesInv, Values!Next PROVE ValuesInv'
  OBVIOUS
<1>0. Tree(mem)
  BY DEF Values!Next, Values!Trusted, ValuesInv
<1>1. ASSUME NEW l \in Root, NEW type \in Scalars, Values!ParseArray(l, type) \/ Values!ParseObject(l, type)
      PROVE  ValuesInv'
  BY <1>1, <1>0, ParseKeeps
<1>2. ASSUME NEW l \in Values!Places, Values!Call(l) PROVE ValuesInv'
  <2>1. CASE Values!SetText(l, 1) \/ Values!PopBack(l) \/ \E type \in Scalars : Values!SetScalar(l, type)
    BY <2>1, <1>0, PlainKeeps
  <2>2. CASE Values!Shrink(l)
    BY <2>2, <1>0, ShrinkKeeps
  <2>3. CASE Values!PushBack(l)
    BY <2>3, <1>0, PushKeeps
  <2>4. CASE \E n \in {0, MaxCapacity} : Values!SetNewArray(l, n)
    <3>1. {0, MaxCapacity} \subseteq Nat
      BY ValueAssumption
    <3> QED
      BY <2>4, <3>1, <1>0, PlainKeeps
  <2>5. CASE \E n \in 1..MaxCapacity : Values!Reserve(l, n)
    BY <2>5, <1>0, ReserveKeeps
  <2> QED
    BY <1>2, <2>1, <2>2, <2>3, <2>4, <2>5 DEF Values!Call
<1>3. ASSUME NEW l \in Values!Places, NEW r \in Root, Values!Call2(l, r) PROVE ValuesInv'
  <2>1. CASE Values!MoveValue(l, r) \/ Values!Swap(l, r)
    BY <2>1, <1>0, MoveKeeps
  <2>2. CASE Values!MoveValue(r, l)
    BY <2>2, <1>0, MoveKeeps
  <2>3. CASE Values!Copy(l, r)
    BY <2>3, <1>0, CopyKeeps
  <2>4. CASE Values!Copy(r, l)
    BY <2>4, <1>0, CopyKeeps
  <2> QED
    BY <1>3, <2>1, <2>2, <2>3, <2>4 DEF Values!Call2
<1> QED
  BY <1>1, <1>2, <1>3 DEF Values!Next

\* Every block has an owner among the values of the program, and one only.
LEMMA OwnersAre == ASSUME Tree(mem) PROVE Values!OneOwner
<1> DEFINE owned == UNION {Values!Pointers(mem, r) : r \in Root}
           lost  == Blocks(mem) \ owned
<1>1. \A r \in Root : r \in All(mem) /\ Alive(mem, r)
  BY PlacesAre
<1>2. \A r \in Root : /\ Values!Inside(mem, r) \in SUBSET All(mem) /\ ClosedUnder(mem, Compounds, Values!Inside(mem, r))
                      /\ r \in Values!Inside(mem, r)
                      /\ Values!Pointers(mem, r) = BlocksOf(mem, Values!Inside(mem, r))
  BY <1>1, InsideIs
<1>3. owned \subseteq Blocks(mem)
  BY <1>2, OwnedIs
<1>4. lost = {}
  <2>1. ASSUME NEW k \in All(mem), Ptr(mem, k) \in lost PROVE In(k, lost)
    <3>1. Ptr(mem, k) # None
      BY <2>1, NoneIsNoBlock DEF Tree
    <3>2. \A r \in Root : k \notin Values!Inside(mem, r)
      BY <1>2, <2>1, <3>1 DEF BlocksOf
    <3>3. k \notin Root
      BY <1>2, <3>2
    <3>4. \A r \in Root : ~In(k, BlocksOf(mem, Values!Inside(mem, r)))
      BY <1>2, <3>1, <3>2, InOwned
    <3>5. k[1] \in Blocks(mem)
      BY <3>3, AllIs DEF Tree
    <3> QED
      BY <1>2, <3>3, <3>4, <3>5 DEF In
  <2> HIDE DEF lost
  <2>2. lost \in SUBSET Blocks(mem)
    BY DEF lost
  <2> QED
    BY <2>1, <2>2 DEF Tree, Rooted
<1>5. owned = DOMAIN mem.heap
  BY <1>3, <1>4 DEF Blocks
<1>6. ASSUME NEW l \in Values!Places, NEW k \in Values!Places, l # k, Values!Get(mem, l).p # None
      PROVE  Values!Get(mem, l).p # Values!Get(mem, k).p
  <2>1. l \in All(mem) /\ k \in All(mem)
    BY PlacesAre
  <2> QED
    BY <1>6, <2>1 DEF Tree, Unique, Ptr
<1> QED
  BY <1>5, <1>6 DEF Values!OneOwner

\* An array has as many slots as it says.
LEMMA ArraysAre == ASSUME ValuesInv PROVE Values!KnowsItsBlock
<1> SUFFICES ASSUME Values!Trusted => Tree(mem), wild => doubts # {} PROVE Values!KnowsItsBlock
  BY DEF ValuesInv, Values!Trusted
<1>2. ASSUME Values!Trusted, NEW l \in Values!Places, Values!IsArray(l), NEW x, x = Values!Get(mem, l)
      PROVE  /\ x.size <= Values!Cardinality(Values!Slots(mem, x))
             /\ x.capacity \in {Unset, Values!Cardinality(Values!Slots(mem, x))}
  <2>1. l \in All(mem) /\ x = At(mem, l) /\ x.type = "array"
    BY <1>2, PlacesAre DEF Values!IsArray, At
  <2>2. Sound(mem, x) /\ Shape(mem)
    BY <1>2, <2>1 DEF Tree
  <2>3. x.size \in Nat
    BY <2>2 DEF Sound
  <2>4. CASE x.p = None
    <3>1. x.size = 0 /\ x.capacity = 0
      BY <2>2, <2>4 DEF Sound
    <3>2. Values!Cardinality(Values!Slots(mem, x)) = 0
      BY <2>4, ValuesCount, FS_EmptySet DEF Values!Slots
    <3> QED
      BY <3>1, <3>2
  <2>5. CASE x.p # None
    <3>1. /\ x.p \in Blocks(mem) /\ 1..x.size \subseteq Dom(mem, x.p)
          /\ x.capacity # Unset => x.capacity \in Nat /\ Dom(mem, x.p) = 1..x.capacity
      BY <2>1, <2>2, <2>5 DEF Sound, Compounds
    <3>2. PICK n \in Nat : Dom(mem, x.p) = 1..n
      BY <2>2, <3>1 DEF Shape
    <3>3. Cardinality(1..n) = n
      BY FS_Interval
    <3>4. Values!Cardinality(Values!Slots(mem, x)) = n
      BY <2>5, <3>2, <3>3, ValuesCount DEF Values!Slots, Dom
    <3>5. x.size <= n
      BY <2>3, <3>1, <3>2
    <3>6. x.capacity # Unset => x.capacity = n
      <4>1. ASSUME x.capacity # Unset PROVE x.capacity = n
        <5>1. x.capacity \in Nat /\ 1..x.capacity = 1..n
          BY <3>1, <3>2, <4>1
        <5> QED
          BY <5>1, <3>2
      <4> QED
        BY <4>1
    <3> QED
      BY <3>4, <3>5, <3>6
  <2> QED
    BY <2>4, <2>5
<1> QED
  BY <1>2 DEF Values!KnowsItsBlock

\* BlocksSafe: whatever values a program of lept_ calls builds, moves, swaps, copies and frees,
\* each block of the heap has one owner among them, and an array whose capacity somebody has
\* written knows how many slots its block has.  Memory outside a block is used only by a call
\* that reads a capacity lept_parse left unset, that copies an array with elements, whose new
\* slots lept_free looks at before they are written (leptjson.c:1181), or that moves or copies
\* an element over the value it belongs to; after a call that moves, swaps or copies a value
\* into its own elements (leptjson.c:1222, 1234) the blocks of that value may have no owner.
THEOREM BlocksAreSafe == JsonSpec => []BlocksSafe
<1>1. JsonInit => ValuesInv
  BY ValuesInit DEF JsonInit
<1>2. ValuesInv /\ [JsonNext]_<<vars, valueVars>> => ValuesInv'
  <2> SUFFICES ASSUME ValuesInv, [JsonNext]_<<vars, valueVars>> PROVE ValuesInv'
    OBVIOUS
  <2>1. CASE UNCHANGED valueVars
    BY <2>1 DEF ValuesInv, valueVars
  <2>2. CASE Values!Next
    BY <2>2, ValuesStep
  <2> QED
    BY <2>1, <2>2 DEF JsonNext
<1>3. ValuesInv => BlocksSafe
  <2>1. ValuesInv => Values!OneOwner
    <3>1. CASE "self" \in doubts
      BY <3>1 DEF Values!OneOwner
    <3>2. CASE "self" \notin doubts
      BY <3>2, OwnersAre DEF ValuesInv
    <3> QED
      BY <3>1, <3>2
  <2> QED
    BY <2>1, ArraysAre DEF BlocksSafe
<1> QED
  BY <1>1, <1>2, <1>3, PTL DEF JsonSpec
=============================================================================
