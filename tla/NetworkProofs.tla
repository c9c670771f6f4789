---------------------------- MODULE NetworkProofs ----------------------------
(***************************************************************************)
(* Proofs about the programs that read from sockets: the keep-alive of     *)
(* chap-12 for every time, interval and number of probes, the select       *)
(* server of chap-22 for every number of descriptors and size of buffer,   *)
(* the HTTP server for every number of connections and requests, and the   *)
(* growing buffer of the event loop for every size and chunk.              *)
(***************************************************************************)
EXTENDS MCNetwork, SequenceTheorems, TLAPS


-----------------------------------------------------------------------------
(* What is left of a sequence.                                             *)
LeftOf(s, m) == SubSeq(s, m + 1, Len(s))

LEMMA LeftOfFacts ==
  ASSUME NEW X, NEW s \in Seq(X), NEW m \in Nat, m <= Len(s)
  PROVE  /\ LeftOf(s, m) \in Seq(X) /\ Len(LeftOf(s, m)) = Len(s) - m /\ Len(s) \in Nat
         /\ \A k \in 1..(Len(s) - m) : LeftOf(s, m)[k] = s[m + k]
<1>1. Len(s) \in Nat /\ m + 1 \in Int
  BY LenProperties
<1>2. \A k \in (m + 1)..Len(s) : s[k] \in X
  BY <1>1, ElementOfSeq
<1>3. /\ LeftOf(s, m) \in Seq(X)
      /\ Len(LeftOf(s, m)) = IF m + 1 <= Len(s) THEN Len(s) - (m + 1) + 1 ELSE 0
      /\ \A k \in 1..(Len(s) - (m + 1) + 1) : LeftOf(s, m)[k] = s[m + 1 + k - 1]
  BY <1>1, <1>2, SubSeqProperties DEF LeftOf
<1>4. ASSUME NEW k \in 1..(Len(s) - m) PROVE LeftOf(s, m)[k] = s[m + k]
  <2>1. k \in 1..(Len(s) - (m + 1) + 1) /\ m + 1 + k - 1 = m + k
    BY <1>1
  <2> QED
    BY <1>3, <2>1
<1> QED
  BY <1>1, <1>3, <1>4

LEMMA ConcatFacts ==
  ASSUME NEW X, NEW s \in Seq(X), NEW t \in Seq(X)
  PROVE  /\ s \o t \in Seq(X) /\ Len(s \o t) = Len(s) + Len(t) /\ Len(s) \in Nat /\ Len(t) \in Nat
         /\ \A k \in 1..Len(s) : (s \o t)[k] = s[k]
         /\ \A k \in 1..Len(t) : (s \o t)[Len(s) + k] = t[k]
<1>1. Len(s) \in Nat /\ Len(t) \in Nat
  BY LenProperties
<1>2. /\ s \o t \in Seq(X) /\ Len(s \o t) = Len(s) + Len(t)
      /\ \A k \in 1 .. Len(s) + Len(t) : (s \o t)[k] = IF k <= Len(s) THEN s[k] ELSE t[k - Len(s)]
  BY ConcatProperties
<1>3. ASSUME NEW k \in 1..Len(t) PROVE (s \o t)[Len(s) + k] = t[k]
  <2>1. Len(s) + k \in 1 .. Len(s) + Len(t) /\ ~(Len(s) + k <= Len(s)) /\ Len(s) + k - Len(s) = k
    BY <1>1
  <2> QED
    BY <1>2, <2>1
<1> QED
  BY <1>1, <1>2, <1>3

\* Two sequences are equal that agree on the indices of a first part and of the rest.
LEMMA EqualInParts ==
  ASSUME NEW X, NEW s \in Seq(X), NEW t \in Seq(X), NEW m \in Nat, NEW n \in Nat,
         Len(s) = m + n, Len(t) = m + n,
         \A k \in 1..m : s[k] = t[k], \A k \in 1..n : s[m + k] = t[m + k]
  PROVE  s = t
<1>1. ASSUME NEW k \in 1..(m + n) PROVE s[k] = t[k]
  <2>1. CASE k <= m
    BY <2>1
  <2>2. CASE k > m
    <3>1. k - m \in 1..n /\ m + (k - m) = k
      BY <2>2
    <3> QED
      BY <3>1
  <2> QED
    BY <2>1, <2>2
<1> QED
  BY <1>1, SeqEqual

LEMMA LeftOfConcat ==
  ASSUME NEW X, NEW s \in Seq(X), NEW t \in Seq(X), NEW m \in Nat, m <= Len(s)
  PROVE  LeftOf(s \o t, m) = LeftOf(s, m) \o t
<1> DEFINE l == LeftOf(s \o t, m)
           r == LeftOf(s, m) \o t
<1>1. /\ s \o t \in Seq(X) /\ Len(s \o t) = Len(s) + Len(t) /\ Len(s) \in Nat /\ Len(t) \in Nat
      /\ \A k \in 1..Len(s) : (s \o t)[k] = s[k]
      /\ \A k \in 1..Len(t) : (s \o t)[Len(s) + k] = t[k]
  BY ConcatFacts
<1>2. /\ LeftOf(s, m) \in Seq(X) /\ Len(LeftOf(s, m)) = Len(s) - m
      /\ \A k \in 1..(Len(s) - m) : LeftOf(s, m)[k] = s[m + k]
  BY LeftOfFacts
<1>3. /\ l \in Seq(X) /\ Len(l) = Len(s) + Len(t) - m
      /\ \A k \in 1..(Len(s) + Len(t) - m) : l[k] = (s \o t)[m + k]
  <2>1. m <= Len(s \o t)
    BY <1>1
  <2>2. /\ l \in Seq(X) /\ Len(l) = Len(s \o t) - m
        /\ \A k \in 1..(Len(s \o t) - m) : l[k] = (s \o t)[m + k]
    <3> DEFINE u == s \o t
    <3>1. u \in Seq(X) /\ m <= Len(u) /\ l = LeftOf(u, m)
      BY <1>1, <2>1
    <3> HIDE DEF u, l
    <3>2. /\ l \in Seq(X) /\ Len(l) = Len(u) - m
          /\ \A k \in 1..(Len(u) - m) : l[k] = u[m + k]
      BY <3>1, LeftOfFacts
    <3> QED
      BY <3>2 DEF u
  <2> HIDE DEF l
  <2> QED
    BY <1>1, <2>2
<1>4. /\ r \in Seq(X) /\ Len(r) = Len(s) - m + Len(t)
      /\ \A k \in 1..(Len(s) - m) : r[k] = LeftOf(s, m)[k]
      /\ \A k \in 1..Len(t) : r[(Len(s) - m) + k] = t[k]
  <2> DEFINE q == LeftOf(s, m)
  <2>1. /\ r \in Seq(X) /\ Len(r) = Len(q) + Len(t)
        /\ \A k \in 1..Len(q) : r[k] = q[k]
        /\ \A k \in 1..Len(t) : r[Len(q) + k] = t[k]
    <3>1. q \in Seq(X) /\ r = q \o t
      BY <1>2
    <3> HIDE DEF q, r
    <3> QED
      BY <3>1, ConcatFacts
  <2> HIDE DEF r
  <2> QED
    BY <1>2, <2>1
<1> HIDE DEF l, r
<1>5. Len(s) - m \in Nat /\ Len(l) = (Len(s) - m) + Len(t) /\ Len(r) = (Len(s) - m) + Len(t)
  BY <1>1, <1>3, <1>4
<1>6. ASSUME NEW k \in 1..(Len(s) - m) PROVE l[k] = r[k]
  <2>1. k \in 1..(Len(s) + Len(t) - m) /\ m + k \in 1..Len(s)
    BY <1>1
  <2>2. l[k] = (s \o t)[m + k]
    BY <1>3, <2>1
  <2>3. (s \o t)[m + k] = s[m + k]
    BY <1>1, <2>1
  <2>4. r[k] = s[m + k]
    BY <1>2, <1>4
  <2> QED
    BY <2>2, <2>3, <2>4
<1>7. ASSUME NEW k \in 1..Len(t) PROVE l[(Len(s) - m) + k] = r[(Len(s) - m) + k]
  <2>1. (Len(s) - m) + k \in 1..(Len(s) + Len(t) - m) /\ m + ((Len(s) - m) + k) = Len(s) + k
    BY <1>1
  <2>2. l[(Len(s) - m) + k] = (s \o t)[Len(s) + k]
    BY <1>3, <2>1
  <2>3. (s \o t)[Len(s) + k] = t[k]
    BY <1>1
  <2>4. r[(Len(s) - m) + k] = t[k]
    BY <1>4
  <2> QED
    BY <2>2, <2>3, <2>4
<1>8. l = r
  <2> DEFINE a == Len(s) - m
             b == Len(t)
  <2>1. a \in Nat /\ b \in Nat /\ Len(l) = a + b /\ Len(r) = a + b
    BY <1>1, <1>5
  <2>2. l \in Seq(X) /\ r \in Seq(X)
    BY <1>3, <1>4
  <2>3. \A k \in 1..a : l[k] = r[k]
    BY <1>6
  <2>4. \A k \in 1..b : l[a + k] = r[a + k]
    BY <1>7
  <2> HIDE DEF a, b
  <2> QED
    BY <2>1, <2>2, <2>3, <2>4, EqualInParts
<1> QED
  BY <1>8 DEF l, r

\* A first part and what it leaves.
LEMMA PartAndLeft ==
  ASSUME NEW X, NEW s \in Seq(X), NEW p \in Seq(X), Len(p) <= Len(s), \A k \in 1..Len(p) : p[k] = s[k]
  PROVE  p \o LeftOf(s, Len(p)) = s
<1>1. Len(p) \in Nat /\ Len(s) \in Nat
  BY LenProperties
<1>2. /\ LeftOf(s, Len(p)) \in Seq(X) /\ Len(LeftOf(s, Len(p))) = Len(s) - Len(p)
      /\ \A k \in 1..(Len(s) - Len(p)) : LeftOf(s, Len(p))[k] = s[Len(p) + k]
  BY <1>1, LeftOfFacts
<1> DEFINE u == p \o LeftOf(s, Len(p))
<1>3. /\ u \in Seq(X) /\ Len(u) = Len(p) + (Len(s) - Len(p))
      /\ \A k \in 1..Len(p) : u[k] = p[k]
      /\ \A k \in 1..(Len(s) - Len(p)) : u[Len(p) + k] = LeftOf(s, Len(p))[k]
  BY <1>2, ConcatFacts
<1> HIDE DEF u
<1>4. Len(s) - Len(p) \in Nat /\ Len(s) = Len(p) + (Len(s) - Len(p))
  BY <1>1
<1>5. ASSUME NEW k \in 1..(Len(s) - Len(p)) PROVE u[Len(p) + k] = s[Len(p) + k]
  BY <1>2, <1>3
<1>6. ASSUME NEW k \in 1..Len(p) PROVE u[k] = s[k]
  BY <1>3
<1>7. u = s
  BY <1>1, <1>3, <1>4, <1>5, <1>6, EqualInParts
<1> QED
  BY <1>7 DEF u

\* Dropping twice.
LEMMA LeftOfLeft ==
  ASSUME NEW X, NEW s \in Seq(X), NEW m \in Nat, NEW n \in Nat, m + n <= Len(s)
  PROVE  LeftOf(LeftOf(s, m), n) = LeftOf(s, m + n)
<1> DEFINE u == LeftOf(s, m)
           l == LeftOf(u, n)
           r == LeftOf(s, m + n)
           h == Len(s)
           v == Len(u)
           z == h - (m + n)
<1>1. h \in Nat /\ m + n <= h
  BY LenProperties
<1>2. u \in Seq(X) /\ v = h - m /\ \A k \in 1..h - m : u[k] = s[m + k]
  <2>1. m <= Len(s)
    BY <1>1
  <2> QED
    BY <2>1, LeftOfFacts
<1>3. v \in Nat /\ n <= v /\ v - n = z
  <2> HIDE DEF h, u, v
  <2> QED
    BY <1>1, <1>2
<1>4. l \in Seq(X) /\ Len(l) = v - n /\ \A k \in 1..v - n : l[k] = u[n + k]
  <2>1. n <= Len(u) /\ u \in Seq(X)
    BY <1>2, <1>3
  <2> HIDE DEF u
  <2> QED
    BY <2>1, LeftOfFacts
<1>5. r \in Seq(X) /\ Len(r) = z /\ \A k \in 1..z : r[k] = s[(m + n) + k]
  BY LeftOfFacts
<1> HIDE DEF u, l, r, h, v, z
<1>6. ASSUME NEW k \in 1..z PROVE l[k] = r[k]
  <2>1. k \in 1..v - n /\ n + k \in 1..h - m /\ m + (n + k) = (m + n) + k
    BY <1>1, <1>3 DEF z
  <2>2. l[k] = u[n + k] /\ u[n + k] = s[m + (n + k)]
    BY <1>2, <1>4, <2>1
  <2> QED
    BY <1>5, <2>1, <2>2
<1>7. Len(l) = Len(r) /\ \A k \in 1..Len(l) : l[k] = r[k]
  <2>1. Len(l) = z /\ Len(r) = z
    BY <1>3, <1>4, <1>5
  <2> QED
    BY <1>6, <2>1
<1>8. l = r
  BY <1>4, <1>5, <1>7, SeqEqual
<1> QED
  BY <1>8 DEF l, r, u

\* Kept folded where the provers need only know that sequences can be joined.
IsSeq(X, s) == s \in Seq(X)
Join(s, t) == s \o t

LEMMA Joining ==
  ASSUME NEW X
  PROVE  \A s, t, u : IsSeq(X, s) /\ IsSeq(X, t) /\ IsSeq(X, u) => Join(Join(s, t), u) = Join(s, Join(t, u))
<1> SUFFICES ASSUME NEW s, NEW t, NEW u, s \in Seq(X), t \in Seq(X), u \in Seq(X)
             PROVE  Join(Join(s, t), u) = Join(s, Join(t, u))
  BY DEF IsSeq
<1> QED
  BY ConcatAssociative DEF Join

\* What was given and is held is what was there and came; so it stays when some of what
\* is held leaves and more comes.
LEMMA PassedOn ==
  ASSUME NEW X, NEW given, NEW held, NEW first, NEW came, NEW more, NEW away, NEW left,
         IsSeq(X, given), IsSeq(X, held), IsSeq(X, first), IsSeq(X, came), IsSeq(X, more),
         IsSeq(X, away), IsSeq(X, left),
         Join(given, held) = Join(first, came), Join(away, left) = Join(held, more)
  PROVE  Join(Join(given, away), left) = Join(first, Join(came, more))
<1>1. Join(Join(given, away), left) = Join(given, Join(away, left))
  BY Joining
<1>2. Join(given, Join(held, more)) = Join(Join(given, held), more)
  BY Joining
<1>3. Join(Join(first, came), more) = Join(first, Join(came, more))
  BY Joining
<1> QED
  BY <1>1, <1>2, <1>3

LEMMA MoreBytes ==
  ASSUME NEW a \in Nat, NEW b \in Nat, NEW c \in Nat, NEW m \in Nat
  PROVE  /\ a + b > m => a + (b + c) > m
         /\ \A d \in Nat : /\ d <= a + b /\ d + c > m => a + (b + c) > m
                           /\ \A l \in Nat : l <= d + c /\ d <= a + b => l <= a + (b + c)
OBVIOUS

HttpNext ==
  \E c \in Conns :
    \/ \E r \in SmallRequests : Server!Ask(c, r)
    \/ \E n \in 1..Len(todo[c]) : Server!Send(c, n)
    \/ Server!Spin(c) \/ Server!LoopStep(c)

(* A step of the composition is a step of each program, or leaves it       *)
(* alone.                                                                  *)
LEMMA ProgramStep ==
  ASSUME [AnyNext]_allVars
  PROVE  [Alive!Next]_aliveVars /\ [Rot!Next]_rotVars /\ [HttpNext]_httpVars
<1>1. CASE UNCHANGED allVars
  BY <1>1 DEF allVars
<1>2. CASE InBuffer
  BY <1>2 DEF InBuffer
<1>3. CASE AnyNext /\ ~UNCHANGED allVars /\ ~InBuffer
  <2>1. \/ InHttp /\ HttpNext
        \/ InAlive /\ Alive!Next
        \/ InRot /\ Rot!Next
    BY <1>3 DEF AnyNext, HttpNext, Server!LoopStep, Alive!Next, Alive!ClientStep, Alive!ServerStep,
                Rot!Next, Rot!ServerStep
  <2> QED
    BY <2>1 DEF InHttp, InAlive, InRot
<1> QED
  BY <1>1, <1>2, <1>3 DEF AnyNext
-----------------------------------------------------------------------------
(* The keep-alive.                                                         *)

\* How long the client has waited for an answer: the full silence before the probes,
\* then one interval for each probe sent, less what is left of the current wait.
Wait(h) == KEEP_ALIVE_TIME + h * KEEP_ALIVE_INTERVAL
Promised == Wait(KEEP_ALIVE_PROBETIMES)

ClockTypes ==
  /\ heartbeats \in Nat /\ tv \in Nat /\ silence \in Nat

\* The history stops counting just past what is promised.
SilenceInv ==
  \/ silence + tv >= Wait(heartbeats)
  \/ silence >= Promised
ClientInv ==
  /\ client # "dead" => heartbeats <= KEEP_ALIVE_PROBETIMES
  /\ Alive!DeadAfterSilence

PatienceInv == ClockTypes /\ SilenceInv /\ ClientInv

LEMMA WaitFacts ==
  /\ \A h \in Nat : Wait(h) \in Nat /\ Wait(h + 1) = Wait(h) + KEEP_ALIVE_INTERVAL
  /\ Promised \in Nat
  /\ Promised = KEEP_ALIVE_TIME + KEEP_ALIVE_PROBETIMES * KEEP_ALIVE_INTERVAL
  /\ Wait(0) = KEEP_ALIVE_TIME
<1>1. \A h \in Nat : /\ h * KEEP_ALIVE_INTERVAL \in Nat
                     /\ (h + 1) * KEEP_ALIVE_INTERVAL = h * KEEP_ALIVE_INTERVAL + KEEP_ALIVE_INTERVAL
  BY KeepAliveAssumption
<1>2. 0 * KEEP_ALIVE_INTERVAL = 0
  BY KeepAliveAssumption
<1> QED
  BY <1>1, <1>2, KeepAliveAssumption DEF Wait, Promised

LEMMA PatienceStarts == ASSUME Alive!Init PROVE PatienceInv
BY WaitFacts, KeepAliveAssumption
DEF Alive!Init, PatienceInv, ClockTypes, SilenceInv, ClientInv, Alive!DeadAfterSilence

\* Steps that leave the client's clock alone cannot make it give up.
LEMMA ClockLeftAlone ==
  ASSUME PatienceInv, UNCHANGED <<heartbeats, tv, silence>>,
         client' = client \/ (client = "runs" /\ client' = "terminated")
  PROVE  PatienceInv'
BY DEF PatienceInv, ClockTypes, SilenceInv, ClientInv, Alive!DeadAfterSilence, Wait

LEMMA PatienceStep == ASSUME PatienceInv, [Alive!Next]_aliveVars PROVE PatienceInv'
<1> USE DEF PatienceInv
<1>1. CASE Alive!Timeout
  <2>1. /\ heartbeats' = heartbeats + 1 /\ tv = 0 /\ silence' = silence
        /\ client # "dead"
    BY <1>1 DEF Alive!Timeout, Alive!Counted
  <2>2. silence >= Wait(heartbeats) \/ silence >= Promised
    BY <2>1 DEF ClockTypes, SilenceInv, Wait
  <2>3. CASE Alive!TryAgain
    <3>1. tv' = KEEP_ALIVE_INTERVAL /\ client' = client
      BY <1>1, <2>3 DEF Alive!Timeout, Alive!ends
    <3>2. silence' + tv' >= Wait(heartbeats') \/ silence' >= Promised
      BY <2>1, <2>2, <3>1, WaitFacts, KeepAliveAssumption DEF ClockTypes
    <3>3. heartbeats' <= KEEP_ALIVE_PROBETIMES
      BY <2>1, <2>3 DEF Alive!TryAgain, Alive!Counted
    <3> QED
      BY <2>1, <3>1, <3>2, <3>3, KeepAliveAssumption
      DEF ClockTypes, SilenceInv, ClientInv, Alive!DeadAfterSilence
  <2>4. CASE ~Alive!TryAgain
    <3>1. tv' = tv /\ client' = "dead"
      BY <1>1, <2>4 DEF Alive!Timeout
    <3>2. heartbeats = KEEP_ALIVE_PROBETIMES
      BY <2>1, <2>4, KeepAliveAssumption DEF Alive!TryAgain, Alive!Counted, ClockTypes, ClientInv
    <3>3. silence' >= Promised
      BY <2>1, <2>2, <3>2 DEF Promised
    <3> QED
      BY <2>1, <3>1, <3>3, WaitFacts DEF ClockTypes, SilenceInv, ClientInv, Alive!DeadAfterSilence
  <2> QED
    BY <2>3, <2>4
<1>2. CASE Alive!Read
  BY <1>2, WaitFacts, KeepAliveAssumption
  DEF Alive!Read, Alive!HeartbeatsReset, Alive!ends, ClockTypes, SilenceInv, ClientInv,
      Alive!DeadAfterSilence
<1>3. CASE Alive!Tick
  <2>1. /\ tv' = Alive!Less(tv) /\ UNCHANGED <<heartbeats, client>>
        /\ silence' \in {silence, silence + 1}
        /\ silence' = silence => silence > Promised
    <3>1. /\ UNCHANGED <<heartbeats, client>> /\ tv' = Alive!Less(tv)
          /\ silence' = IF silence > Promised THEN silence ELSE silence + 1
      BY <1>3, WaitFacts DEF Alive!Tick, Alive!ends
    <3>2. silence + 1 # silence
      BY DEF ClockTypes
    <3> QED
      BY <3>1, <3>2
  <2>2. tv' \in Nat /\ tv' >= tv - 1
    BY <2>1 DEF Alive!Less, ClockTypes
  <2>3. SilenceInv'
    <3>1. CASE silence' = silence
      BY <2>1, <3>1, WaitFacts DEF SilenceInv, ClockTypes, Promised, Wait
    <3>2. CASE silence' = silence + 1
      BY <2>1, <2>2, <3>2, WaitFacts DEF SilenceInv, ClockTypes, Promised, Wait
    <3> QED
      BY <2>1, <3>1, <3>2
  <2>4. Alive!DeadAfterSilence'
    BY <2>1, WaitFacts DEF ClockTypes, ClientInv, Alive!DeadAfterSilence
  <2> QED
    BY <2>1, <2>2, <2>3, <2>4 DEF ClockTypes, ClientInv
<1>4. CASE UNCHANGED aliveVars
  BY <1>4, ClockLeftAlone DEF aliveVars
<1>5. CASE Alive!ServerTerminated \/ Alive!ServerStep \/ Alive!PressEnter \/ Alive!Cut \/ Alive!Crash
  BY <1>5, ClockLeftAlone
  DEF Alive!ServerTerminated, Alive!ServerStep, Alive!Ping, Alive!Pong, Alive!ClientClosed,
      Alive!PressEnter, Alive!Cut, Alive!Crash, Alive!ends
<1> QED
  BY <1>1, <1>2, <1>3, <1>4, <1>5 DEF Alive!Next, Alive!ClientStep
-----------------------------------------------------------------------------
(* A prompt server sleeps, at its slowest, less than the probes take that  *)
(* the client allows it.                                                   *)
Slowest == sleepingTime + Jitter
Prompt == Slowest < KEEP_ALIVE_PROBETIMES * KEEP_ALIVE_INTERVAL

\* The seconds since the client began to wait, or sent the first probe.
Elapsed == IF heartbeats = 0 THEN KEEP_ALIVE_TIME - tv ELSE heartbeats * KEEP_ALIVE_INTERVAL - tv

ServerTypes ==
  /\ pings \in Nat /\ pongs \in Nat /\ busy \in Nat \cup {Alive!Awake}
  /\ sleepingTime \in Nat
  /\ client \in {"runs", "dead", "terminated"} /\ server \in {"runs", "ended"}
  /\ typed \in BOOLEAN /\ link \in BOOLEAN
  /\ heartbeats \in Nat /\ tv \in Nat
  /\ busy <= Slowest

Together == client = "runs" /\ server = "runs" /\ link

\* While the client waits, the server sleeps off what it was sent in time; it is idle
\* only before the first probe, or in the second in which it is given something to do.
AnswerInv ==
  Together /\ Prompt /\ ~typed /\ pongs = 0 =>
    /\ busy # Alive!Awake => Elapsed + busy <= Slowest
    /\ busy = Alive!Awake => pings = 0 \/ Elapsed = 0
    /\ busy = Alive!Awake /\ heartbeats > 0 => pings > 0

\* Probes do not pile up from one wait to the next.
ProbesInv ==
  Prompt => /\ pings <= KEEP_ALIVE_PROBETIMES
            /\ Together /\ heartbeats > 0 => pings <= heartbeats
GivenUpInv == client = "dead" => ~link \/ server = "ended" \/ ~Prompt

PromptInv == ServerTypes /\ AnswerInv /\ ProbesInv /\ GivenUpInv

LEMMA ProbeProducts ==
  /\ \A h \in Nat : /\ h * KEEP_ALIVE_INTERVAL \in Nat
                    /\ (h + 1) * KEEP_ALIVE_INTERVAL = h * KEEP_ALIVE_INTERVAL + KEEP_ALIVE_INTERVAL
  /\ KEEP_ALIVE_PROBETIMES * KEEP_ALIVE_INTERVAL > 0 =>
       KEEP_ALIVE_INTERVAL > 0 /\ \A h \in Nat : h > 0 => h * KEEP_ALIVE_INTERVAL > 0
<1>1. \A h \in Nat : /\ h * KEEP_ALIVE_INTERVAL \in Nat
                     /\ (h + 1) * KEEP_ALIVE_INTERVAL = h * KEEP_ALIVE_INTERVAL + KEEP_ALIVE_INTERVAL
  BY KeepAliveAssumption
<1>2. KEEP_ALIVE_PROBETIMES * KEEP_ALIVE_INTERVAL > 0 => KEEP_ALIVE_INTERVAL > 0
  BY KeepAliveAssumption
<1>3. KEEP_ALIVE_INTERVAL > 0 => \A h \in Nat : h > 0 => h * KEEP_ALIVE_INTERVAL > 0
  <2> SUFFICES ASSUME KEEP_ALIVE_INTERVAL > 0, NEW h \in Nat, h > 0
               PROVE  h * KEEP_ALIVE_INTERVAL > 0
    OBVIOUS
  <2>1. h - 1 \in Nat /\ h = (h - 1) + 1
    OBVIOUS
  <2>2. h * KEEP_ALIVE_INTERVAL = (h - 1) * KEEP_ALIVE_INTERVAL + KEEP_ALIVE_INTERVAL
    BY <1>1, <2>1
  <2> QED
    BY <1>1, <2>1, <2>2, KeepAliveAssumption
<1> QED
  BY <1>1, <1>2, <1>3

LEMMA PromptStarts == ASSUME Alive!Init PROVE PromptInv
<1>0. sleepingTime \in Nat /\ sleepingTime + Jitter \in Nat /\ Alive!Awake <= sleepingTime + Jitter
  BY KeepAliveAssumption DEF Alive!Init, Alive!Awake
<1>1. ServerTypes
  BY <1>0, KeepAliveAssumption DEF Alive!Init, ServerTypes, Slowest
<1>2. pings = 0 /\ busy = Alive!Awake /\ heartbeats = 0 /\ client = "runs"
  BY DEF Alive!Init
<1> QED
  BY <1>1, <1>2, KeepAliveAssumption, ProbeProducts
  DEF PromptInv, AnswerInv, ProbesInv, GivenUpInv, Prompt, ServerTypes

\* The last probe of a prompt server's client is never in vain: while it is alone with
\* the server and nothing has come, a timeout finds time left to try again.
LEMMA TimeoutPrompt ==
  ASSUME PromptInv, PatienceInv, Alive!Timeout, Prompt, Together
  PROVE  /\ heartbeats = 0 => busy = Alive!Awake /\ pings = 0
         /\ heartbeats > 0 => /\ busy # Alive!Awake
                              /\ heartbeats * KEEP_ALIVE_INTERVAL + busy <= Slowest
                              /\ heartbeats + 1 <= KEEP_ALIVE_PROBETIMES
<1> USE DEF PromptInv
<1>1. tv = 0 /\ ~typed /\ pongs = 0
  BY DEF Alive!Timeout, Alive!SocketReadable, ServerTypes
<1>2. KEEP_ALIVE_PROBETIMES * KEEP_ALIVE_INTERVAL > 0 /\ Slowest \in Nat
  BY KeepAliveAssumption, ProbeProducts DEF Prompt, Slowest, ServerTypes
<1>3. /\ busy # Alive!Awake => Elapsed + busy <= Slowest
      /\ busy = Alive!Awake => pings = 0 \/ Elapsed = 0
      /\ busy = Alive!Awake /\ heartbeats > 0 => pings > 0
  BY <1>1 DEF AnswerInv
<1>4. CASE heartbeats = 0
  <2>1. Elapsed = KEEP_ALIVE_TIME /\ KEEP_ALIVE_TIME > Slowest
    BY <1>1, <1>2, <1>4, KeepAliveAssumption, ProbeProducts DEF Elapsed, Prompt
  <2> QED
    BY <1>2, <1>3, <1>4, <2>1, KeepAliveAssumption DEF ServerTypes
<1>5. CASE heartbeats > 0
  <2>1. Elapsed = heartbeats * KEEP_ALIVE_INTERVAL /\ Elapsed > 0
    BY <1>1, <1>2, <1>5, ProbeProducts DEF Elapsed, ServerTypes
  <2>2. busy # Alive!Awake /\ heartbeats * KEEP_ALIVE_INTERVAL + busy <= Slowest
    BY <1>3, <1>5, <2>1 DEF ServerTypes
  <2>3. heartbeats <= KEEP_ALIVE_PROBETIMES /\ heartbeats # KEEP_ALIVE_PROBETIMES
    <3>1. heartbeats <= KEEP_ALIVE_PROBETIMES
      BY DEF PatienceInv, ClientInv, Together
    <3>2. busy \in Nat
      BY <2>2 DEF ServerTypes
    <3>3. heartbeats * KEEP_ALIVE_INTERVAL < KEEP_ALIVE_PROBETIMES * KEEP_ALIVE_INTERVAL
      BY <1>2, <2>2, <3>2, ProbeProducts, KeepAliveAssumption DEF Prompt, ServerTypes
    <3> QED
      BY <3>1, <3>3, ProbeProducts, KeepAliveAssumption DEF ServerTypes
  <2> QED
    BY <1>5, <2>2, <2>3, KeepAliveAssumption DEF ServerTypes
<1> QED
  BY <1>4, <1>5 DEF ServerTypes

LEMMA ServerTypesStep ==
  ASSUME ServerTypes, [Alive!Next]_aliveVars
  PROVE  ServerTypes' /\ sleepingTime' = sleepingTime
<1> USE DEF ServerTypes, Slowest, Alive!Awake
<1>1. CASE Alive!Timeout
  BY <1>1, KeepAliveAssumption DEF Alive!Timeout, Alive!Counted, Alive!ends
<1>2. CASE Alive!Read
  BY <1>2, KeepAliveAssumption DEF Alive!Read, Alive!HeartbeatsReset, Alive!ends
<1>3. CASE Alive!ServerTerminated
  BY <1>3 DEF Alive!ServerTerminated
<1>4. CASE Alive!Ping
  BY <1>4, KeepAliveAssumption DEF Alive!Ping, Alive!ends
<1>5. CASE Alive!Pong
  BY <1>5, KeepAliveAssumption DEF Alive!Pong, Alive!ends
<1>6. CASE Alive!ClientClosed
  BY <1>6 DEF Alive!ClientClosed
<1>7. CASE Alive!Tick
  BY <1>7, KeepAliveAssumption DEF Alive!Tick, Alive!Less, Alive!ends
<1>8. CASE Alive!PressEnter \/ Alive!Cut \/ Alive!Crash
  BY <1>8 DEF Alive!PressEnter, Alive!Cut, Alive!Crash, Alive!ends
<1>9. CASE UNCHANGED aliveVars
  BY <1>9 DEF aliveVars
<1> QED
  BY <1>1, <1>2, <1>3, <1>4, <1>5, <1>6, <1>7, <1>8, <1>9
  DEF Alive!Next, Alive!ClientStep, Alive!ServerStep

LEMMA AnswerStep ==
  ASSUME PromptInv, PatienceInv, [Alive!Next]_aliveVars
  PROVE  AnswerInv' /\ ProbesInv' /\ GivenUpInv'
<1>0. ServerTypes /\ ServerTypes' /\ sleepingTime' = sleepingTime
  BY ServerTypesStep DEF PromptInv
<1>a. (Prompt' <=> Prompt) /\ Slowest' = Slowest /\ Slowest \in Nat
  BY <1>0, KeepAliveAssumption DEF Prompt, Slowest, ServerTypes
<1>b. CASE ~Prompt
  BY <1>a, <1>b DEF AnswerInv, ProbesInv, GivenUpInv
<1>c. CASE Prompt
  <2> USE <1>c
  <2>a. KEEP_ALIVE_PROBETIMES * KEEP_ALIVE_INTERVAL > 0 /\ KEEP_ALIVE_INTERVAL > 0
    BY <1>a, ProbeProducts, KeepAliveAssumption DEF Prompt
  \* Steps that neither bring the parties together nor change what a wait is about.
  <2>b. ASSUME heartbeats' = heartbeats, tv' = tv, pings' = pings, pongs' = pongs, busy' = busy,
               client' = "dead" => client = "dead", Together' => Together, ~typed' => ~typed,
               link' => link, server' = "runs" => server = "runs"
        PROVE  AnswerInv' /\ ProbesInv' /\ GivenUpInv'
    <3>1. Elapsed' = Elapsed
      BY <2>b DEF Elapsed
    <3>2. AnswerInv'
      BY <1>a, <2>b, <3>1 DEF PromptInv, AnswerInv, Alive!Awake
    <3>3. ProbesInv'
      BY <1>a, <2>b DEF PromptInv, ProbesInv
    <3>4. GivenUpInv'
      BY <1>0, <1>a, <2>b DEF PromptInv, GivenUpInv, ServerTypes
    <3> QED
      BY <3>2, <3>3, <3>4
  <2>1. CASE Alive!Timeout
    <3>0. /\ client = "runs" /\ tv = 0 /\ ~typed /\ pongs = 0 /\ heartbeats' = heartbeats + 1
          /\ UNCHANGED <<server, typed, link, pongs, busy>>
      BY <2>1, <1>0 DEF Alive!Timeout, Alive!Counted, Alive!ends, Alive!SocketReadable, ServerTypes
    <3>1. CASE Together
      <4>1. /\ heartbeats = 0 => busy = Alive!Awake /\ pings = 0
            /\ heartbeats > 0 => /\ busy # Alive!Awake
                                 /\ heartbeats * KEEP_ALIVE_INTERVAL + busy <= Slowest
                                 /\ heartbeats + 1 <= KEEP_ALIVE_PROBETIMES
        BY <2>1, <3>1, TimeoutPrompt
      <4>2. heartbeats + 1 <= KEEP_ALIVE_PROBETIMES
        BY <1>0, <2>a, <4>1, KeepAliveAssumption, ProbeProducts DEF ServerTypes
      <4>3. client' = client /\ pings' = pings + 1 /\ tv' = KEEP_ALIVE_INTERVAL
        BY <2>1, <3>1, <4>2 DEF Alive!Timeout, Alive!TryAgain, Alive!Counted, Alive!ends, Together
      <4>4. Elapsed' = heartbeats * KEEP_ALIVE_INTERVAL
        BY <1>0, <3>0, <4>3, ProbeProducts, KeepAliveAssumption DEF Elapsed, ServerTypes
      <4>5. AnswerInv'
        <5>1. CASE heartbeats = 0
          <6>1. Elapsed' = 0 /\ busy' = Alive!Awake /\ pings' > 0
            BY <1>0, <3>0, <4>1, <4>3, <4>4, <5>1, ProbeProducts, KeepAliveAssumption DEF ServerTypes
          <6> QED
            BY <6>1 DEF AnswerInv, Alive!Awake
        <5>2. CASE heartbeats > 0
          BY <1>a, <3>0, <4>1, <4>4, <5>2 DEF AnswerInv, Alive!Awake
        <5> QED
          BY <1>0, <5>1, <5>2 DEF ServerTypes
      <4>6. ProbesInv'
        <5>1. heartbeats > 0 => pings <= heartbeats
          BY <3>1 DEF PromptInv, ProbesInv
        <5>2. pings' <= heartbeats'
          BY <1>0, <3>0, <4>1, <4>3, <5>1 DEF ServerTypes
        <5> QED
          BY <1>0, <3>0, <4>2, <5>2, KeepAliveAssumption DEF ProbesInv, ServerTypes
      <4>7. GivenUpInv'
        BY <3>0, <4>3 DEF GivenUpInv
      <4> QED
        BY <4>5, <4>6, <4>7
    <3>2. CASE ~Together
      <4>1. ~(link /\ server = "runs") /\ ~Together' /\ pings' = pings
        BY <2>1, <3>0, <3>2 DEF Alive!Timeout, Together
      <4>2. ~link \/ server = "ended"
        BY <1>0, <4>1 DEF ServerTypes
      <4> QED
        BY <1>a, <3>0, <4>1, <4>2 DEF PromptInv, AnswerInv, ProbesInv, GivenUpInv
    <3> QED
      BY <3>1, <3>2
  <2>2. CASE Alive!Read
    <3>1. /\ pongs' = 0 /\ heartbeats' = 0 /\ tv' = KEEP_ALIVE_TIME
          /\ UNCHANGED <<client, server, typed, link, pings, busy>>
      BY <2>2 DEF Alive!Read, Alive!HeartbeatsReset, Alive!ends
    <3>2. Elapsed' = 0
      BY <3>1, KeepAliveAssumption DEF Elapsed
    <3>3. AnswerInv'
      BY <1>0, <1>a, <3>1, <3>2 DEF AnswerInv, ServerTypes, Alive!Awake
    <3> QED
      BY <1>a, <3>1, <3>3 DEF PromptInv, ProbesInv, GivenUpInv
  <2>3. CASE Alive!Ping
    <3>0. /\ busy = Alive!Awake /\ pings > 0 /\ pings' = pings - 1 /\ busy' # Alive!Awake
          /\ busy' <= Slowest
          /\ UNCHANGED <<client, server, heartbeats, tv, typed, link, pongs>>
      BY <1>0, <2>3, KeepAliveAssumption DEF Alive!Ping, Alive!ends, Alive!Awake, ServerTypes, Slowest
    <3>1. Elapsed' = Elapsed
      BY <3>0 DEF Elapsed
    <3>2. AnswerInv'
      <4>1. Together /\ ~typed /\ pongs = 0 => Elapsed = 0
        BY <3>0 DEF PromptInv, AnswerInv, ServerTypes
      <4>2. Together /\ ~typed /\ pongs = 0 => Elapsed + busy' <= Slowest
        <5>1. Elapsed = 0 => Elapsed + busy' <= Slowest
          <6>1. busy' \in Nat /\ busy' <= Slowest
            BY <1>0, <3>0 DEF ServerTypes
          <6> QED
            BY <6>1
        <5> QED
          BY <4>1, <5>1
      <4>3. /\ Together' <=> Together
            /\ typed' <=> typed
            /\ pongs' = pongs /\ Elapsed' = Elapsed /\ busy' # Alive!Awake /\ Slowest' = Slowest
        BY <1>a, <3>0, <3>1 DEF Together
      <4>4. Together' /\ ~typed' /\ pongs' = 0 => Elapsed' + busy' <= Slowest'
        BY <4>2, <4>3
      <4> QED
        BY <4>3, <4>4 DEF AnswerInv
    <3>3. ProbesInv'
      <4>1. (Together' <=> Together) /\ pings' <= pings
        BY <1>0, <3>0 DEF Together, ServerTypes
      <4> QED
        BY <1>0, <1>a, <3>0, <4>1, KeepAliveAssumption DEF PromptInv, ProbesInv, ServerTypes
    <3> QED
      BY <1>a, <3>0, <3>2, <3>3 DEF PromptInv, GivenUpInv
  <2>4. CASE Alive!Pong
    <3>0. /\ UNCHANGED <<client, server, heartbeats, tv, typed, link, pings>>
          /\ Together => pongs' = pongs + 1
      BY <2>4 DEF Alive!Pong, Alive!ends, Together
    <3>1. AnswerInv'
      BY <1>0, <3>0 DEF AnswerInv, Together, ServerTypes
    <3> QED
      BY <1>a, <3>0, <3>1 DEF PromptInv, ProbesInv, GivenUpInv, Together
  <2>5. CASE Alive!Tick
    <3>0. /\ ~Alive!ServerCanAct /\ ~Alive!ClientCanAct
          /\ tv' = Alive!Less(tv) /\ busy' = Alive!Less(busy)
          /\ UNCHANGED <<client, server, heartbeats, typed, link, pings, pongs>>
      BY <2>5 DEF Alive!Tick, Alive!ends
    <3>1. AnswerInv'
      <4> SUFFICES ASSUME Together, ~typed, pongs = 0
                   PROVE  /\ busy' # Alive!Awake => Elapsed' + busy' <= Slowest
                          /\ busy' = Alive!Awake => pings = 0 \/ Elapsed' = 0
                          /\ busy' = Alive!Awake /\ heartbeats > 0 => pings > 0
        BY <1>a, <3>0 DEF AnswerInv, Together
      <4>0. /\ busy # Alive!Awake => Elapsed + busy <= Slowest
            /\ busy = Alive!Awake => pings = 0 \/ Elapsed = 0
            /\ busy = Alive!Awake /\ heartbeats > 0 => pings > 0
        BY DEF PromptInv, AnswerInv
      <4>1. tv > 0 /\ tv' = tv - 1
        BY <1>0, <3>0 DEF Alive!ClientCanAct, Together, Alive!Less, ServerTypes
      <4>2. busy # 0 /\ (busy = Alive!Awake => pings = 0)
        BY <1>0, <3>0 DEF Alive!ServerCanAct, Together, ServerTypes
      <4>3. CASE busy = Alive!Awake
        <5>1. busy' = Alive!Awake
          BY <3>0, <4>3 DEF Alive!Less, Alive!Awake
        <5> QED
          BY <4>0, <4>2, <4>3, <5>1
      <4>4. CASE busy # Alive!Awake
        <5>1. busy \in Nat /\ busy' = busy - 1 /\ busy' \in Nat
          BY <1>0, <3>0, <4>2, <4>4 DEF Alive!Less, ServerTypes
        <5>2. Elapsed' = Elapsed + 1 /\ Elapsed \in Int
          BY <1>0, <3>0, <4>1, ProbeProducts, KeepAliveAssumption DEF Elapsed, ServerTypes
        <5> QED
          BY <1>a, <4>0, <4>4, <5>1, <5>2 DEF Alive!Awake
      <4> QED
        BY <4>3, <4>4
    <3> QED
      BY <1>a, <3>0, <3>1 DEF PromptInv, ProbesInv, GivenUpInv, Together
  <2>6. CASE \/ Alive!ServerTerminated \/ Alive!ClientClosed \/ Alive!PressEnter \/ Alive!Cut
             \/ Alive!Crash \/ UNCHANGED aliveVars
    <3>1. /\ heartbeats' = heartbeats /\ tv' = tv /\ pings' = pings /\ pongs' = pongs /\ busy' = busy
          /\ client' = "dead" => client = "dead"
          /\ ~typed' => ~typed
          /\ link' => link
      BY <2>6 DEF Alive!ServerTerminated, Alive!ClientClosed, Alive!PressEnter, Alive!Cut, Alive!Crash,
                  Alive!ends, aliveVars
    <3>2. (Together' => Together) /\ (server' = "runs" => server = "runs")
      BY <2>6 DEF Alive!ServerTerminated, Alive!ClientClosed, Alive!PressEnter, Alive!Cut, Alive!Crash,
                  Alive!ends, aliveVars, Together
    <3> QED
      BY <2>b, <3>1, <3>2
  <2> QED
    BY <2>1, <2>2, <2>3, <2>4, <2>5, <2>6 DEF Alive!Next, Alive!ClientStep, Alive!ServerStep
<1> QED
  BY <1>b, <1>c

(* ping_client.c gives the connection up only after KEEP_ALIVE_TIME and as *)
(* many intervals as it sent probes, all without reading anything: a pong  *)
(* that is read in between, however late it was sent, starts the count     *)
(* anew. A server that is there and sleeps less than the probes take is    *)
(* never given up, and never has more probes to answer than one wait sends.*)
THEOREM GivenUpAfterSilence == AnySpec => []GivenUpRightly
<1>1. AnyInit => PatienceInv /\ PromptInv
  BY PatienceStarts, PromptStarts DEF AnyInit
<1>2. PatienceInv /\ PromptInv /\ [AnyNext]_allVars => PatienceInv' /\ PromptInv'
  BY ProgramStep, PatienceStep, ServerTypesStep, AnswerStep DEF PromptInv
<1>3. PatienceInv /\ PromptInv => GivenUpRightly
  <2> SUFFICES ASSUME PatienceInv, PromptInv PROVE GivenUpRightly
    OBVIOUS
  <2>1. Alive!DeadAfterSilence
    BY DEF PatienceInv, ClientInv
  <2>2. Prompt <=> ~(sleepingTime + Jitter >= KEEP_ALIVE_PROBETIMES * KEEP_ALIVE_INTERVAL)
    BY KeepAliveAssumption, ProbeProducts DEF PromptInv, ServerTypes, Prompt, Slowest
  <2>3. Alive!PromptServerLives
    BY <2>2 DEF PromptInv, ProbesInv, GivenUpInv, Prompt, Slowest, Alive!PromptServerLives
  <2> QED
    BY <2>1, <2>3 DEF GivenUpRightly
<1> QED
  BY <1>1, <1>2, <1>3, PTL DEF AnySpec
-----------------------------------------------------------------------------
(* The select server.                                                      *)
Char == {"a", "n", "eol"}
Buffers == [connect_fd : Nat, data : Seq(Char), readIndex : Nat, readable : BOOLEAN]
Sockets == [open : BOOLEAN, in : Seq(Char), out : Seq(Char), eof : BOOLEAN]

EchoTypes ==
  /\ buffer \in [Rot!Fds -> Buffers]
  /\ sockets \in [Rot!Fds -> Sockets]
  /\ got \in [Rot!Fds -> Seq(Char)] /\ gave \in [Rot!Fds -> Seq(Char)]
  /\ inherited \in [Rot!Fds -> Buffers]
  /\ dropped \in [Rot!Fds -> BOOLEAN]

\* connect_fd is set as long as the descriptor is open, and only then.
TakenInv ==
  /\ \A f \in Rot!Fds : sockets[f].open <=> buffer[f].connect_fd # 0
  /\ end # "too many connections"

\* A Buffer holds no more than it held for others and was given since.
SizeInv(f) ==
  /\ buffer[f].readIndex <= Len(buffer[f].data)
  /\ sockets[f].open => Len(buffer[f].data) <= Len(inherited[f].data) + Len(got[f])
Echoed(f) ==
  IF dropped[f] THEN Rot!Full(f)
                ELSE gave[f] \o Rot!Pending(buffer[f]) = Rot!Pending(inherited[f]) \o Rot!Rot13(got[f])
StreamInv(f) == sockets[f].open => Echoed(f)

EchoInv == EchoTypes /\ TakenInv /\ \A f \in Rot!Fds : SizeInv(f) /\ StreamInv(f)

LEMMA UpToFacts ==
  ASSUME NEW X, NEW s \in Seq(X), NEW n \in Int
  PROVE  /\ Rot!UpTo(s, n) \in Seq(X) /\ Len(Rot!UpTo(s, n)) <= Len(s)
         /\ n >= Len(s) => Rot!UpTo(s, n) = s
         /\ \A k \in 1..Len(Rot!UpTo(s, n)) : Rot!UpTo(s, n)[k] = s[k]
<1>1. CASE n >= Len(s)
  <2>1. Rot!UpTo(s, n) = SubSeq(s, 1, Len(s))
    BY <1>1 DEF Rot!UpTo
  <2>2. SubSeq(s, 1, Len(s)) = s
    BY SubSeqFull
  <2> QED
    BY <2>1, <2>2
<1>2. CASE n < Len(s)
  <2>1. Rot!UpTo(s, n) = SubSeq(s, 1, n)
    BY <1>2 DEF Rot!UpTo
  <2>2. CASE n >= 0
    BY <1>2, <2>1, <2>2, SubSeqProperties
  <2>3. CASE n < 0
    <3>1. SubSeq(s, 1, n) = <<>>
      BY <2>3, SubSeqEmpty
    <3> QED
      BY <1>2, <2>1, <3>1
  <2> QED
    BY <2>2, <2>3
<1> QED
  BY <1>1, <1>2

LEMMA Rot13Facts ==
  ASSUME NEW s \in Seq(Char)
  PROVE  Rot!Rot13(s) \in Seq(Char) /\ Len(Rot!Rot13(s)) = Len(s)
<1>1. \A k \in 1..Len(s) : Rot!rot13_char[s[k]] \in Char
  BY DEF Rot!rot13_char, Char
<1>2. Rot!Rot13(s) \in [1..Len(s) -> Char]
  BY <1>1 DEF Rot!Rot13
<1> QED
  BY <1>2, LenProperties

\* A text is turned byte by byte.
LEMMA Rot13Splits ==
  ASSUME NEW s \in Seq(Char), NEW t \in Seq(Char)
  PROVE  Rot!Rot13(s \o t) = Rot!Rot13(s) \o Rot!Rot13(t)
<1> DEFINE u == Rot!Rot13(s) \o Rot!Rot13(t)
           w == Rot!Rot13(s \o t)
<1>1. /\ s \o t \in Seq(Char) /\ Len(s \o t) = Len(s) + Len(t) /\ Len(s) \in Nat /\ Len(t) \in Nat
      /\ \A k \in 1..Len(s) : (s \o t)[k] = s[k]
      /\ \A k \in 1..Len(t) : (s \o t)[Len(s) + k] = t[k]
  BY ConcatFacts
<1>2. w \in Seq(Char) /\ Len(w) = Len(s) + Len(t)
  BY <1>1, Rot13Facts
<1>3. /\ u \in Seq(Char) /\ Len(u) = Len(s) + Len(t)
      /\ \A k \in 1..Len(s) : u[k] = Rot!Rot13(s)[k]
      /\ \A k \in 1..Len(t) : u[Len(s) + k] = Rot!Rot13(t)[k]
  <2>1. /\ Rot!Rot13(s) \in Seq(Char) /\ Len(Rot!Rot13(s)) = Len(s)
        /\ Rot!Rot13(t) \in Seq(Char) /\ Len(Rot!Rot13(t)) = Len(t)
    BY Rot13Facts
  <2>2. /\ u \in Seq(Char) /\ Len(u) = Len(Rot!Rot13(s)) + Len(Rot!Rot13(t))
        /\ \A k \in 1..Len(Rot!Rot13(s)) : u[k] = Rot!Rot13(s)[k]
        /\ \A k \in 1..Len(Rot!Rot13(t)) : u[Len(Rot!Rot13(s)) + k] = Rot!Rot13(t)[k]
    <3> DEFINE p == Rot!Rot13(s)
               q == Rot!Rot13(t)
    <3>1. p \in Seq(Char) /\ q \in Seq(Char) /\ u = p \o q
      BY <2>1
    <3> HIDE DEF p, q, u
    <3>2. /\ u \in Seq(Char) /\ Len(u) = Len(p) + Len(q)
          /\ \A k \in 1..Len(p) : u[k] = p[k]
          /\ \A k \in 1..Len(q) : u[Len(p) + k] = q[k]
      BY <3>1, ConcatFacts
    <3> QED
      BY <3>2 DEF p, q
  <2> HIDE DEF u
  <2> QED
    BY <2>1, <2>2
<1>4. ASSUME NEW k \in 1..Len(s) PROVE w[k] = u[k]
  <2>1. k \in 1..Len(s \o t)
    BY <1>1
  <2>2. w[k] = Rot!rot13_char[(s \o t)[k]] /\ Rot!Rot13(s)[k] = Rot!rot13_char[s[k]]
    BY <2>1 DEF Rot!Rot13
  <2> QED
    BY <1>1, <1>3, <2>2
<1>5. ASSUME NEW k \in 1..Len(t) PROVE w[Len(s) + k] = u[Len(s) + k]
  <2>1. Len(s) + k \in 1..Len(s \o t)
    BY <1>1
  <2>2. w[Len(s) + k] = Rot!rot13_char[(s \o t)[Len(s) + k]] /\ Rot!Rot13(t)[k] = Rot!rot13_char[t[k]]
    BY <2>1 DEF Rot!Rot13
  <2> QED
    BY <1>1, <1>3, <2>2
<1> HIDE DEF u, w
<1>6. w = u
  BY <1>1, <1>2, <1>3, <1>4, <1>5, EqualInParts
<1> QED
  BY <1>6 DEF u, w

\* What onSocketRead does to a Buffer, and what onSocketWrite takes from it.
LEMMA ReadKeeps ==
  ASSUME NEW b \in Buffers, b.readIndex <= Len(b.data), NEW s \in Seq(Char)
  PROVE  /\ Rot!AfterRead(b, s) \in Buffers
         /\ Rot!AfterRead(b, s).readIndex <= Len(Rot!AfterRead(b, s).data)
         /\ Rot!AfterRead(b, s).connect_fd = b.connect_fd
         /\ Len(Rot!AfterRead(b, s).data) <= Len(b.data) + Len(s)
         /\ Rot!Fitting(b, s) # s => Len(b.data) + Len(s) > MAX_LINE
         /\ Rot!Fitting(b, s) = s =>
              Rot!Pending(Rot!AfterRead(b, s)) = Rot!Pending(b) \o Rot!Rot13(s)
<1> DEFINE room == MAX_LINE - Len(b.data)
           fit == Rot!Fitting(b, s)
           r == Rot!AfterRead(b, s)
<1>1. room \in Int /\ b.data \in Seq(Char) /\ Len(b.data) \in Nat /\ Len(s) \in Nat /\ b.readIndex \in Nat
  BY EchoAssumption, LenProperties DEF Buffers
<1>2. fit \in Seq(Char) /\ Len(fit) <= Len(s) /\ (room >= Len(s) => fit = s)
  BY <1>1, UpToFacts DEF Rot!Fitting
<1>3. Rot!Rot13(fit) \in Seq(Char) /\ Len(Rot!Rot13(fit)) = Len(fit)
  BY <1>2, Rot13Facts
<1> DEFINE d == b.data \o Rot!Rot13(fit)
<1>4. d \in Seq(Char) /\ Len(d) = Len(b.data) + Len(fit) /\ Len(fit) \in Nat
  <2> DEFINE q == Rot!Rot13(fit)
  <2>1. q \in Seq(Char) /\ Len(q) = Len(fit) /\ d = b.data \o q
    BY <1>3
  <2> HIDE DEF q, d
  <2>2. d \in Seq(Char) /\ Len(d) = Len(b.data) + Len(q)
    BY <1>1, <2>1, ConcatFacts
  <2>3. Len(fit) \in Nat
    BY <1>2, LenProperties
  <2> QED
    BY <2>1, <2>2, <2>3
<1>5. /\ r.data = d /\ r.readIndex = b.readIndex
      /\ r.connect_fd = b.connect_fd /\ r \in Buffers
  <2> HIDE DEF d
  <2>1. (b.readable \/ \E k \in DOMAIN s : s[k] = "eol") \in BOOLEAN
    BY DEF Buffers
  <2>2. r = [b EXCEPT !.data = d, !.readable = @ \/ \E k \in DOMAIN s : s[k] = "eol"]
    BY DEF Rot!AfterRead, d
  <2>3. r = [connect_fd |-> b.connect_fd, data |-> d, readIndex |-> b.readIndex,
             readable |-> (b.readable \/ \E k \in DOMAIN s : s[k] = "eol")]
    BY <2>2 DEF Buffers
  <2> QED
    BY <1>4, <2>1, <2>3 DEF Buffers
<1>6. Rot!Fitting(b, s) # s => Len(b.data) + Len(s) > MAX_LINE
  BY <1>1, <1>2, EchoAssumption
<1>7. ASSUME fit = s
      PROVE  Rot!Pending(r) = Rot!Pending(b) \o Rot!Rot13(s)
  <2>1. Rot!Pending(r) = LeftOf(d, b.readIndex)
    <3> HIDE DEF d, r
    <3> QED BY <1>5 DEF Rot!Pending, LeftOf
  <2>2. Rot!Pending(b) = LeftOf(b.data, b.readIndex) /\ d = b.data \o Rot!Rot13(s)
    BY <1>7 DEF Rot!Pending, LeftOf
  <2>3. Rot!Rot13(s) \in Seq(Char)
    BY <1>3, <1>7
  <2> HIDE DEF d, r
  <2> DEFINE t == Rot!Rot13(s)
             e == b.data
             pos == b.readIndex
  <2>4. e \in Seq(Char) /\ t \in Seq(Char) /\ pos \in Nat /\ pos <= Len(e)
    BY <1>1, <2>3
  <2> HIDE DEF t, e, pos
  <2>5. LeftOf(e \o t, pos) = LeftOf(e, pos) \o t
    BY <2>4, LeftOfConcat
  <2> QED
    BY <2>1, <2>2, <2>5 DEF t, e, pos
<1> HIDE DEF r, d, fit
<1>8. r.readIndex <= Len(r.data) /\ Len(r.data) <= Len(b.data) + Len(s)
  BY <1>1, <1>2, <1>4, <1>5
<1> QED
  BY <1>5, <1>6, <1>7, <1>8 DEF r, fit

LEMMA WriteKeeps ==
  ASSUME NEW b \in Buffers, b.readIndex <= Len(b.data), NEW t \in Seq(Char)
  PROVE  LET s == Rot!Sendable(b, t)
             r == Rot!AfterWrite(b, Len(s))
         IN  /\ s \in Seq(Char) /\ r \in Buffers /\ r.readIndex <= Len(r.data)
             /\ r.connect_fd = b.connect_fd /\ Len(r.data) <= Len(b.data)
             /\ s \o Rot!Pending(r) = Rot!Pending(b)
<1> DEFINE s == Rot!Sendable(b, t)
           r == Rot!AfterWrite(b, Len(s))
           p == Rot!Pending(b)
<1>1. /\ b.data \in Seq(Char) /\ Len(b.data) \in Nat /\ b.readIndex \in Nat
      /\ Window - Len(t) \in Int /\ p = LeftOf(b.data, b.readIndex)
  BY EchoAssumption, LenProperties DEF Buffers, Rot!Pending, LeftOf
<1>2. p \in Seq(Char) /\ Len(p) = Len(b.data) - b.readIndex
  BY <1>1, LeftOfFacts
<1>3. s \in Seq(Char) /\ Len(s) <= Len(p) /\ \A k \in 1..Len(s) : s[k] = p[k]
  BY <1>1, <1>2, UpToFacts DEF Rot!Sendable
<1>b. Len(s) \in Nat
  BY <1>3, LenProperties
<1>c. s \o LeftOf(p, Len(s)) = p
  <2> HIDE DEF s, p
  <2> QED BY <1>2, <1>3, PartAndLeft
<1>4. CASE Len(s) = Len(p)
  <2>1. s = p
    BY <1>2, <1>3, <1>4, SeqEqual
  <2>2. r = [b EXCEPT !.data = <<>>, !.readIndex = 0, !.readable = FALSE]
    BY <1>4 DEF Rot!AfterWrite
  <2>3. r = [connect_fd |-> b.connect_fd, data |-> <<>>, readIndex |-> 0, readable |-> FALSE]
    BY <2>2 DEF Buffers
  <2>4. /\ r.data = <<>> /\ r.readIndex = 0 /\ r.connect_fd = b.connect_fd /\ r \in Buffers
        /\ Len(r.data) = 0
    <3>1. <<>> \in Seq(Char) /\ Len(<<>>) = 0
      BY EmptySeq
    <3> HIDE DEF r
    <3> QED
      BY <2>3, <3>1 DEF Buffers
  <2> HIDE DEF r
  <2>5. Rot!Pending(r) = <<>>
    BY <2>4, SubSeqEmpty DEF Rot!Pending
  <2>6. s \o Rot!Pending(r) = p
    BY <1>3, <2>1, <2>5, ConcatEmptySeq
  <2> QED
    BY <1>1, <1>3, <2>4, <2>6 DEF r
<1>5. CASE Len(s) # Len(p)
  <2>1. r = [b EXCEPT !.readIndex = @ + Len(s)]
    BY <1>5 DEF Rot!AfterWrite
  <2>2. r = [connect_fd |-> b.connect_fd, data |-> b.data, readIndex |-> b.readIndex + Len(s),
             readable |-> b.readable]
    BY <2>1 DEF Buffers
  <2>3. /\ r.data = b.data /\ r.readIndex = b.readIndex + Len(s)
        /\ r.connect_fd = b.connect_fd /\ r \in Buffers
    <3> HIDE DEF r, s
    <3> QED
      BY <1>b, <2>2 DEF Buffers
  <2> HIDE DEF r, s
  <2>4. r.readIndex <= Len(r.data)
    BY <1>1, <1>2, <1>3, <1>b, <2>3
  <2>5. Rot!Pending(r) = LeftOf(b.data, b.readIndex + Len(s))
    BY <2>3 DEF Rot!Pending, LeftOf
  <2>6. LeftOf(b.data, b.readIndex + Len(s)) = LeftOf(p, Len(s))
    BY <1>1, <1>b, <2>3, <2>4, LeftOfLeft
  <2> QED
    BY <1>1, <1>3, <1>c, <2>3, <2>4, <2>5, <2>6 DEF r, s
<1> QED
  BY <1>4, <1>5

LEMMA PendingType ==
  ASSUME NEW b \in Buffers
  PROVE  Rot!Pending(b) \in Seq(Char)
<1>1. b.data \in Seq(Char) /\ b.readIndex \in Nat /\ Len(b.data) \in Nat
  BY LenProperties DEF Buffers
<1>2. \A k \in (b.readIndex + 1)..Len(b.data) : b.data[k] \in Char
  BY <1>1, ElementOfSeq
<1> QED
  BY <1>1, <1>2, SubSeqProperties DEF Rot!Pending

LEMMA EchoStarts == ASSUME Rot!Init PROVE EchoInv
<1>1. <<>> \in Seq(Char) /\ Len(<<>>) = 0
  BY EmptySeq
<1>2. Rot!EmptyBuffer \in Buffers /\ Rot!Closed \in Sockets
  BY <1>1 DEF Rot!EmptyBuffer, Rot!Closed, Buffers, Sockets
<1>3. EchoTypes
  BY <1>1, <1>2 DEF Rot!Init, EchoTypes
<1>4. \A f \in Rot!Fds : /\ buffer[f].connect_fd = 0 /\ buffer[f].readIndex = 0 /\ buffer[f].data = <<>>
                         /\ ~sockets[f].open
  BY DEF Rot!Init, Rot!EmptyBuffer, Rot!Closed
<1>5. TakenInv
  BY <1>4 DEF TakenInv, Rot!Init
<1>6. ASSUME NEW f \in Rot!Fds PROVE SizeInv(f) /\ StreamInv(f)
  <2>1. 0 <= Len(buffer[f].data)
    BY <1>1, <1>4
  <2> QED
    BY <1>4, <2>1 DEF SizeInv, StreamInv
<1> QED
  BY <1>3, <1>5, <1>6 DEF EchoInv

\* A descriptor whose Buffer and history stay, and which is open only if it was.
LEMMA DescriptorLeftAlone ==
  ASSUME NEW f \in Rot!Fds, SizeInv(f), StreamInv(f),
         buffer'[f] = buffer[f], got'[f] = got[f], gave'[f] = gave[f],
         inherited'[f] = inherited[f], dropped'[f] = dropped[f],
         sockets'[f].open => sockets[f].open
  PROVE  SizeInv(f)' /\ StreamInv(f)'
<1>1. SizeInv(f)'
  BY DEF SizeInv
<1>2. ASSUME sockets'[f].open PROVE Echoed(f)'
  <2>1. Echoed(f)
    BY <1>2 DEF StreamInv
  <2>2. Rot!Full(f)' <=> Rot!Full(f)
    BY DEF Rot!Full
  <2>3. Rot!Pending(buffer[f])' = Rot!Pending(buffer[f]) /\ Rot!Pending(inherited[f])' = Rot!Pending(inherited[f])
    BY DEF Rot!Pending
  <2>4. Rot!Rot13(got[f])' = Rot!Rot13(got[f])
    BY DEF Rot!Rot13
  <2> QED
    BY <2>1, <2>2, <2>3, <2>4 DEF Echoed
<1> QED
  BY <1>1, <1>2 DEF StreamInv

LEMMA AllLeftAlone ==
  ASSUME EchoInv, UNCHANGED <<buffer, got, gave, inherited, dropped>>,
         sockets' \in [Rot!Fds -> Sockets], \A f \in Rot!Fds : sockets'[f].open <=> sockets[f].open,
         end' = end \/ end' = "overrun"
  PROVE  EchoInv'
<1>1. EchoTypes'
  BY DEF EchoInv, EchoTypes
<1>2. TakenInv'
  BY DEF EchoInv, TakenInv
<1>3. ASSUME NEW f \in Rot!Fds PROVE SizeInv(f)' /\ StreamInv(f)'
  BY DescriptorLeftAlone DEF EchoInv
<1> QED
  BY <1>1, <1>2, <1>3 DEF EchoInv

\* A new connection finds what the last one left in the Buffer.
LEMMA AcceptKeeps ==
  ASSUME EchoInv, NEW f \in Rot!Fds, Rot!Accept(f)
  PROVE  EchoInv'
<1>1. ~sockets[f].open /\ buffer[f].connect_fd = 0
  BY DEF Rot!Accept, Rot!Lowest, Rot!FreeFds, EchoInv, TakenInv
<1>2. /\ sockets' = [sockets EXCEPT ![f] = [Rot!Closed EXCEPT !.open = TRUE]]
      /\ buffer' = [buffer EXCEPT ![f].connect_fd = f] /\ end' = end
      /\ got' = [got EXCEPT ![f] = <<>>] /\ gave' = [gave EXCEPT ![f] = <<>>]
      /\ inherited' = [inherited EXCEPT ![f] = buffer[f]] /\ dropped' = [dropped EXCEPT ![f] = FALSE]
  BY <1>1 DEF Rot!Accept
<1>3. <<>> \in Seq(Char) /\ Len(<<>>) = 0
  BY EmptySeq
<1>4. f \in Nat /\ f # 0
  BY EchoAssumption DEF Rot!Fds
<1> DEFINE s == [Rot!Closed EXCEPT !.open = TRUE]
           b == [buffer[f] EXCEPT !.connect_fd = f]
<1>5. s \in Sockets /\ s.open
  BY <1>3 DEF Rot!Closed, Sockets
<1>6. /\ b \in Buffers /\ b.connect_fd = f /\ b.data = buffer[f].data /\ b.readIndex = buffer[f].readIndex
      /\ buffer[f] \in Buffers
  <2>1. buffer[f] \in Buffers
    BY DEF EchoInv, EchoTypes
  <2>2. b = [connect_fd |-> f, data |-> buffer[f].data, readIndex |-> buffer[f].readIndex,
             readable |-> buffer[f].readable]
    BY <2>1 DEF Buffers
  <2> QED
    BY <1>4, <2>1, <2>2 DEF Buffers
<1> HIDE DEF s, b
<1>7. sockets' = [sockets EXCEPT ![f] = s] /\ buffer' = [buffer EXCEPT ![f] = b]
  BY <1>2 DEF s, b
<1>8. EchoTypes'
  <2>1. buffer' \in [Rot!Fds -> Buffers] /\ sockets' \in [Rot!Fds -> Sockets]
    BY <1>5, <1>6, <1>7 DEF EchoInv, EchoTypes
  <2>2. /\ got' \in [Rot!Fds -> Seq(Char)] /\ gave' \in [Rot!Fds -> Seq(Char)]
        /\ inherited' \in [Rot!Fds -> Buffers]
    BY <1>2, <1>3, <1>6 DEF EchoInv, EchoTypes
  <2>3. dropped' \in [Rot!Fds -> BOOLEAN]
    BY <1>2 DEF EchoInv, EchoTypes
  <2> QED
    BY <2>1, <2>2, <2>3 DEF EchoTypes
<1>9. TakenInv'
  BY <1>2, <1>4, <1>5, <1>6, <1>7 DEF EchoInv, EchoTypes, TakenInv
<1>10. ASSUME NEW g \in Rot!Fds PROVE SizeInv(g)' /\ StreamInv(g)'
  <2>0. SizeInv(g) /\ StreamInv(g) /\ SizeInv(f)
    BY DEF EchoInv
  <2>1. CASE g # f
    <3>1. /\ buffer'[g] = buffer[g] /\ got'[g] = got[g] /\ gave'[g] = gave[g]
          /\ inherited'[g] = inherited[g] /\ dropped'[g] = dropped[g] /\ sockets'[g] = sockets[g]
      BY <1>2, <1>7, <2>1 DEF EchoInv, EchoTypes
    <3> QED
      BY <2>0, <3>1, DescriptorLeftAlone
  <2>2. CASE g = f
    <3>1. /\ buffer'[g] = b /\ got'[g] = <<>> /\ gave'[g] = <<>>
          /\ inherited'[g] = buffer[f] /\ dropped'[g] = FALSE
      BY <1>2, <1>7, <2>2 DEF EchoInv, EchoTypes
    <3>2. SizeInv(g)'
      <4>1. buffer[f].data \in Seq(Char) /\ Len(buffer[f].data) \in Nat
        BY <1>6, LenProperties DEF Buffers
      <4> QED
        BY <1>3, <1>6, <2>0, <2>2, <3>1, <4>1 DEF SizeInv
    <3>3. Rot!Pending(b) = Rot!Pending(buffer[f]) /\ Rot!Pending(buffer[f]) \in Seq(Char)
      <4>1. Rot!Pending(b) = Rot!Pending(buffer[f])
        BY <1>6 DEF Rot!Pending
      <4> QED
        BY <1>6, <4>1, PendingType
    <3>4. Rot!Rot13(<<>>) = <<>>
      BY <1>3, Rot13Facts, EmptySeq
    <3>5. <<>> \o Rot!Pending(b) = Rot!Pending(buffer[f]) \o Rot!Rot13(<<>>)
      BY <3>3, <3>4, ConcatEmptySeq
    <3>6. Rot!Pending(buffer[g])' = Rot!Pending(b) /\ Rot!Pending(inherited[g])' = Rot!Pending(buffer[f])
          /\ Rot!Rot13(got[g])' = Rot!Rot13(<<>>)
      BY <3>1 DEF Rot!Pending, Rot!Rot13
    <3> QED
      BY <3>1, <3>2, <3>5, <3>6 DEF StreamInv, Echoed
  <2> QED
    BY <2>1, <2>2
<1> QED
  BY <1>8, <1>9, <1>10 DEF EchoInv

LEMMA ServeKeeps ==
  ASSUME EchoInv, NEW f \in Rot!Fds, Rot!Serve(f)
  PROVE  EchoInv'
<1> DEFINE
      inn == IF f \in readset THEN sockets[f].in ELSE <<>>
      gone == f \in readset /\ sockets[f].eof
      b == IF f \in readset THEN Rot!AfterRead(buffer[f], inn) ELSE buffer[f]
      out == IF f \in writeset /\ ~gone THEN Rot!Sendable(b, sockets[f].out) ELSE <<>>
      c == IF f \in writeset /\ ~gone THEN Rot!AfterWrite(b, Len(out)) ELSE b
      lost == f \in readset /\ Rot!Fitting(buffer[f], inn) # inn
      nb == IF gone THEN [c EXCEPT !.connect_fd = 0] ELSE c
      ns == IF gone THEN Rot!Closed
            ELSE [sockets[f] EXCEPT !.in = IF f \in readset THEN <<>> ELSE @, !.out = @ \o out]
<1>1. /\ got' = [got EXCEPT ![f] = @ \o inn]
      /\ gave' = [gave EXCEPT ![f] = @ \o out]
      /\ dropped' = [dropped EXCEPT ![f] = @ \/ lost]
      /\ buffer' = [buffer EXCEPT ![f] = nb]
      /\ sockets' = [sockets EXCEPT ![f] = ns]
      /\ end' = end /\ inherited' = inherited
  <2>1. got' = [got EXCEPT ![f] = @ \o inn] /\ gave' = [gave EXCEPT ![f] = @ \o out]
    BY DEF Rot!Serve
  <2>2. dropped' = [dropped EXCEPT ![f] = @ \/ lost]
    BY DEF Rot!Serve
  <2>3. buffer' = [buffer EXCEPT ![f] = nb]
    BY DEF Rot!Serve
  <2>4. sockets' = [sockets EXCEPT ![f] = ns]
    BY DEF Rot!Serve
  <2>5. end' = end /\ inherited' = inherited
    BY DEF Rot!Serve
  <2> QED
    BY <2>1, <2>2, <2>3, <2>4, <2>5
<1>2. /\ buffer[f] \in Buffers /\ sockets[f] \in Sockets
      /\ got[f] \in Seq(Char) /\ gave[f] \in Seq(Char) /\ inherited[f] \in Buffers
      /\ buffer[f].readIndex <= Len(buffer[f].data)
      /\ Len(buffer[f].data) \in Nat /\ Len(inherited[f].data) \in Nat
      /\ Len(got[f]) \in Nat
  BY LenProperties DEF EchoInv, EchoTypes, SizeInv, Buffers
<1>3. <<>> \in Seq(Char) /\ Len(<<>>) = 0
  BY EmptySeq
<1>4. inn \in Seq(Char) /\ sockets[f].out \in Seq(Char) /\ Len(inn) \in Nat
  <2>1. inn \in Seq(Char) /\ sockets[f].out \in Seq(Char)
    BY <1>2, <1>3 DEF Sockets
  <2> HIDE DEF inn
  <2> QED
    BY <2>1, LenProperties
<1>5. /\ b \in Buffers /\ b.readIndex <= Len(b.data) /\ b.connect_fd = buffer[f].connect_fd
      /\ Len(b.data) <= Len(buffer[f].data) + Len(inn)
      /\ lost => Len(buffer[f].data) + Len(inn) > MAX_LINE
      /\ ~lost => Rot!Pending(b) = Rot!Pending(buffer[f]) \o Rot!Rot13(inn)
  <2>1. CASE f \in readset
    <3>1. b = Rot!AfterRead(buffer[f], inn)
      BY <2>1
    <3> HIDE DEF inn, b
    <3> QED
      BY <1>2, <1>4, <2>1, <3>1, ReadKeeps
  <2>2. CASE f \notin readset
    <3>1. b = buffer[f] /\ inn = <<>> /\ ~lost
      BY <2>2
    <3>2. Rot!Rot13(<<>>) = <<>>
      BY <1>3, Rot13Facts, EmptySeq
    <3>3. Rot!Pending(buffer[f]) \in Seq(Char)
      BY <1>2, PendingType
    <3>4. Rot!Pending(buffer[f]) = Rot!Pending(buffer[f]) \o Rot!Rot13(<<>>)
      BY <3>2, <3>3, ConcatEmptySeq
    <3> HIDE DEF b, inn, lost
    <3> QED
      BY <1>2, <1>3, <3>1, <3>4
  <2> QED
    BY <2>1, <2>2
<1> HIDE DEF b, inn, lost
<1>b. /\ Len(buffer[f].data) \in Nat /\ Len(inherited[f].data) \in Nat /\ Len(got[f]) \in Nat
      /\ Len(inn) \in Nat /\ MAX_LINE \in Nat
  BY <1>2, <1>4, EchoAssumption
<1>6. /\ out \in Seq(Char) /\ c \in Buffers /\ c.readIndex <= Len(c.data)
      /\ c.connect_fd = b.connect_fd /\ Len(c.data) <= Len(b.data)
      /\ out \o Rot!Pending(c) = Rot!Pending(b)
  <2>1. CASE f \in writeset /\ ~gone
    <3>1. out = Rot!Sendable(b, sockets[f].out) /\ c = Rot!AfterWrite(b, Len(Rot!Sendable(b, sockets[f].out)))
      BY <2>1
    <3> HIDE DEF out, c
    <3> QED
      BY <1>4, <1>5, <3>1, WriteKeeps
  <2>2. CASE ~(f \in writeset /\ ~gone)
    <3>1. out = <<>> /\ c = b
      BY <2>2
    <3>2. Rot!Pending(b) \in Seq(Char) /\ Len(b.data) \in Nat
      BY <1>5, PendingType, LenProperties DEF Buffers
    <3> HIDE DEF out, c
    <3> QED
      BY <1>3, <1>5, <3>1, <3>2, ConcatEmptySeq
  <2> QED
    BY <2>1, <2>2
<1> HIDE DEF out, c
<1>7. /\ nb \in Buffers /\ nb.data = c.data /\ nb.readIndex = c.readIndex
      /\ nb.connect_fd = IF gone THEN 0 ELSE c.connect_fd
  <2>1. CASE gone
    <3>1. nb = [connect_fd |-> 0, data |-> c.data, readIndex |-> c.readIndex, readable |-> c.readable]
      BY <1>6, <2>1 DEF Buffers
    <3> HIDE DEF nb, gone
    <3> QED
      BY <1>6, <2>1, <3>1 DEF Buffers
  <2>2. CASE ~gone
    BY <1>6, <2>2
  <2> QED
    BY <2>1, <2>2
<1>8. ns \in Sockets /\ (ns.open <=> ~gone /\ sockets[f].open)
  <2>1. CASE gone
    <3>1. ns = [open |-> FALSE, in |-> <<>>, out |-> <<>>, eof |-> FALSE]
      BY <2>1 DEF Rot!Closed
    <3> HIDE DEF ns, gone
    <3> QED
      BY <1>3, <2>1, <3>1 DEF Sockets
  <2>2. CASE ~gone
    <3>1. ns = [open |-> sockets[f].open, in |-> IF f \in readset THEN <<>> ELSE sockets[f].in,
                out |-> sockets[f].out \o out, eof |-> sockets[f].eof]
      BY <1>2, <2>2 DEF Sockets
    <3>2. sockets[f].out \o out \in Seq(Char)
      BY <1>4, <1>6, ConcatFacts
    <3> HIDE DEF ns, gone
    <3> QED
      BY <1>2, <1>3, <2>2, <3>1, <3>2 DEF Sockets
  <2> QED
    BY <2>1, <2>2
<1> HIDE DEF nb, ns, gone
<1>9. /\ got[f] \o inn \in Seq(Char) /\ Len(got[f] \o inn) = Len(got[f]) + Len(inn)
      /\ gave[f] \o out \in Seq(Char)
  BY <1>2, <1>4, <1>6, ConcatFacts
<1>a. dropped[f] \in BOOLEAN /\ lost \in BOOLEAN
  BY DEF EchoInv, EchoTypes, lost
<1>10. EchoTypes'
  <2>1. /\ buffer' \in [Rot!Fds -> Buffers] /\ sockets' \in [Rot!Fds -> Sockets]
        /\ got' \in [Rot!Fds -> Seq(Char)] /\ gave' \in [Rot!Fds -> Seq(Char)]
        /\ inherited' \in [Rot!Fds -> Buffers]
    BY <1>1, <1>7, <1>8, <1>9 DEF EchoInv, EchoTypes
  <2>2. dropped' \in [Rot!Fds -> BOOLEAN]
    BY <1>1, <1>a DEF EchoInv, EchoTypes
  <2> QED
    BY <2>1, <2>2 DEF EchoTypes
<1>11. TakenInv'
  <2>1. ASSUME NEW g \in Rot!Fds PROVE sockets'[g].open <=> buffer'[g].connect_fd # 0
    <3>1. CASE g = f
      <4>1. sockets'[g] = ns /\ buffer'[g] = nb
        BY <1>1, <3>1 DEF EchoInv, EchoTypes
      <4>2. sockets[f].open <=> c.connect_fd # 0
        BY <1>5, <1>6 DEF EchoInv, TakenInv
      <4> QED
        BY <1>7, <1>8, <4>1, <4>2
    <3>2. CASE g # f
      BY <1>1, <3>2 DEF EchoInv, EchoTypes, TakenInv
    <3> QED
      BY <3>1, <3>2
  <2> QED
    BY <1>1, <2>1 DEF EchoInv, TakenInv
<1>12. ASSUME NEW g \in Rot!Fds PROVE SizeInv(g)' /\ StreamInv(g)'
  <2>0. SizeInv(g) /\ StreamInv(g) /\ SizeInv(f) /\ StreamInv(f)
    BY DEF EchoInv
  <2>1. CASE g # f
    <3>1. /\ buffer'[g] = buffer[g] /\ got'[g] = got[g] /\ gave'[g] = gave[g]
          /\ inherited'[g] = inherited[g] /\ dropped'[g] = dropped[g] /\ sockets'[g] = sockets[g]
      BY <1>1, <2>1 DEF EchoInv, EchoTypes
    <3> QED
      BY <2>0, <3>1, DescriptorLeftAlone
  <2>2. CASE g = f
    <3>1. /\ buffer'[f] = nb /\ got'[f] = got[f] \o inn /\ gave'[f] = gave[f] \o out
          /\ inherited'[f] = inherited[f] /\ sockets'[f] = ns
      BY <1>1 DEF EchoInv, EchoTypes
    <3>2. dropped'[f] <=> dropped[f] \/ lost
      BY <1>1 DEF EchoInv, EchoTypes
    <3>3. sockets'[f].open => sockets[f].open
      BY <1>8, <3>1
    <3>4. SizeInv(f)'
      <4>1. Len(c.data) \in Nat /\ Len(b.data) \in Nat
        BY <1>5, <1>6, LenProperties DEF Buffers
      <4>2. sockets[f].open => Len(buffer[f].data) <= Len(inherited[f].data) + Len(got[f])
        BY <2>0 DEF SizeInv
      <4>3. sockets'[f].open => Len(c.data) <= Len(inherited[f].data) + (Len(got[f]) + Len(inn))
        <5> DEFINE u == Len(c.data)
                   v == Len(b.data)
                   x == Len(buffer[f].data)
                   y == Len(inn)
                   held == Len(inherited[f].data)
                   given == Len(got[f])
        <5>1. u <= v /\ v <= x + y
          BY <1>5, <1>6
        <5>2. u \in Nat /\ v \in Nat /\ x \in Nat /\ y \in Nat /\ held \in Nat /\ given \in Nat
          BY <1>b, <4>1
        <5>3. sockets'[f].open => x <= held + given
          BY <3>3, <4>2
        <5> HIDE DEF u, v, x, y, held, given
        <5>4. sockets'[f].open => u <= held + (given + y)
          BY <5>1, <5>2, <5>3
        <5> QED
          BY <5>4 DEF u, y, held, given
      <4> QED
        BY <1>6, <1>7, <1>9, <3>1, <4>3 DEF SizeInv
    <3>5. ASSUME sockets'[f].open PROVE Echoed(f)'
      <4>0. sockets[f].open
        BY <3>3, <3>5
      <4>1. CASE dropped'[f]
        <5>1. Len(inherited[f].data) + (Len(got[f]) + Len(inn)) > MAX_LINE
          <6>1. CASE dropped[f]
            <7>1. Len(inherited[f].data) + Len(got[f]) > MAX_LINE
              BY <2>0, <4>0, <6>1 DEF StreamInv, Echoed, Rot!Full
            <7> QED
              BY <1>b, <7>1, MoreBytes
          <6>2. CASE lost
            <7>1. Len(buffer[f].data) <= Len(inherited[f].data) + Len(got[f])
              BY <2>0, <4>0 DEF SizeInv
            <7>2. Len(buffer[f].data) + Len(inn) > MAX_LINE
              BY <1>5, <6>2
            <7> QED
              BY <1>b, <7>1, <7>2, MoreBytes
          <6> QED
            BY <3>2, <4>1, <6>1, <6>2
        <5>2. Rot!Full(f)'
          BY <1>9, <3>1, <5>1 DEF Rot!Full
        <5> QED
          BY <4>1, <5>2 DEF Echoed
      <4>2. CASE ~dropped'[f]
        <5>1. ~lost /\ gave[f] \o Rot!Pending(buffer[f]) = Rot!Pending(inherited[f]) \o Rot!Rot13(got[f])
          BY <2>0, <3>2, <4>0, <4>2 DEF StreamInv, Echoed
        <5>2. (gave[f] \o out) \o Rot!Pending(c) = Rot!Pending(inherited[f]) \o Rot!Rot13(got[f] \o inn)
          <6>1. /\ Rot!Pending(c) \in Seq(Char) /\ Rot!Pending(buffer[f]) \in Seq(Char)
                /\ Rot!Pending(inherited[f]) \in Seq(Char)
            BY <1>2, <1>6, PendingType
          <6>2. Rot!Rot13(inn) \in Seq(Char) /\ Rot!Rot13(got[f]) \in Seq(Char)
            BY <1>2, <1>4, Rot13Facts
          <6>3. gave[f] \in Seq(Char) /\ out \in Seq(Char)
            BY <1>2, <1>6
          <6>4. out \o Rot!Pending(c) = Rot!Pending(buffer[f]) \o Rot!Rot13(inn)
            BY <1>5, <1>6, <5>1
          <6>5. Rot!Rot13(got[f] \o inn) = Rot!Rot13(got[f]) \o Rot!Rot13(inn)
            BY <1>2, <1>4, Rot13Splits
          <6>6. (gave[f] \o out) \o Rot!Pending(c)
                  = Rot!Pending(inherited[f]) \o (Rot!Rot13(got[f]) \o Rot!Rot13(inn))
            <7>1. /\ IsSeq(Char, gave[f]) /\ IsSeq(Char, out) /\ IsSeq(Char, Rot!Pending(c))
                  /\ IsSeq(Char, Rot!Pending(inherited[f])) /\ IsSeq(Char, Rot!Pending(buffer[f]))
                  /\ IsSeq(Char, Rot!Rot13(got[f])) /\ IsSeq(Char, Rot!Rot13(inn))
              BY <6>1, <6>2, <6>3 DEF IsSeq
            <7>2. /\ Join(gave[f], Rot!Pending(buffer[f])) = Join(Rot!Pending(inherited[f]), Rot!Rot13(got[f]))
                  /\ Join(out, Rot!Pending(c)) = Join(Rot!Pending(buffer[f]), Rot!Rot13(inn))
              BY <5>1, <6>4 DEF Join
            <7>3. Join(Join(gave[f], out), Rot!Pending(c))
                    = Join(Rot!Pending(inherited[f]), Join(Rot!Rot13(got[f]), Rot!Rot13(inn)))
              BY <7>1, <7>2, PassedOn
            <7> QED
              BY <7>3 DEF Join
          <6> QED
            BY <6>5, <6>6
        <5>3. /\ Rot!Pending(buffer[f])' = Rot!Pending(c)
              /\ Rot!Pending(inherited[f])' = Rot!Pending(inherited[f])
              /\ Rot!Rot13(got[f])' = Rot!Rot13(got[f] \o inn)
          BY <1>7, <3>1 DEF Rot!Pending, Rot!Rot13
        <5> QED
          BY <3>1, <4>2, <5>2, <5>3 DEF Echoed
      <4> QED
        BY <4>1, <4>2
    <3> QED
      BY <2>2, <3>4, <3>5 DEF StreamInv
  <2> QED
    BY <2>1, <2>2
<1> QED
  BY <1>10, <1>11, <1>12 DEF EchoInv

LEMMA EchoStep == ASSUME EchoInv, [Rot!Next]_rotVars PROVE EchoInv'
<1>0. buffer \in [Rot!Fds -> Buffers] /\ sockets \in [Rot!Fds -> Sockets]
  BY DEF EchoInv, EchoTypes
<1>1. ASSUME NEW f \in Rot!Fds, Rot!Serve(f) PROVE EchoInv'
  BY <1>1, ServeKeeps
<1>2. CASE Rot!Listening
  <2>1. CASE \E f \in Rot!Fds : Rot!Accept(f)
    BY <2>1, AcceptKeeps
  <2>2. CASE ~\E f \in Rot!Fds : Rot!Accept(f)
    <3>1. UNCHANGED <<buffer, sockets, got, gave, inherited, dropped>> /\ (end' = end \/ end' = "overrun")
      BY <1>2, <2>2 DEF Rot!Listening, Rot!AcceptTooMany
    <3> QED
      BY <1>0, <3>1, AllLeftAlone
  <2> QED
    BY <2>1, <2>2
<1>3. CASE Rot!Select \/ Rot!Connect \/ UNCHANGED rotVars
  <2>1. UNCHANGED <<buffer, sockets, got, gave, inherited, dropped, end>>
    BY <1>3 DEF Rot!Select, Rot!Connect, Rot!history, rotVars
  <2> QED
    BY <1>0, <2>1, AllLeftAlone
<1>4. ASSUME NEW f \in Rot!Fds,
             Rot!HalfClose(f) \/ Rot!ReadAnswer(f) \/ \E x \in {"a", "eol"} : Rot!SendByte(f, x)
      PROVE  EchoInv'
  <2>1. UNCHANGED <<buffer, got, gave, inherited, dropped, end>>
    BY <1>4 DEF Rot!HalfClose, Rot!ReadAnswer, Rot!SendByte, Rot!history
  <2>2. \E s \in Sockets : sockets' = [sockets EXCEPT ![f] = s] /\ s.open = sockets[f].open
    <3>0. sockets[f] \in Sockets
      BY <1>0
    <3>1. CASE Rot!HalfClose(f)
      <4>1. /\ [sockets[f] EXCEPT !.eof = TRUE] \in Sockets
            /\ [sockets[f] EXCEPT !.eof = TRUE].open = sockets[f].open
        BY <3>0 DEF Sockets
      <4> QED
        BY <3>1, <4>1 DEF Rot!HalfClose
    <3>2. CASE Rot!ReadAnswer(f)
      <4>1. /\ [sockets[f] EXCEPT !.out = <<>>] \in Sockets
            /\ [sockets[f] EXCEPT !.out = <<>>].open = sockets[f].open
        BY <3>0, EmptySeq DEF Sockets
      <4> QED
        BY <3>2, <4>1 DEF Rot!ReadAnswer
    <3>3. ASSUME NEW x \in {"a", "eol"}, Rot!SendByte(f, x)
          PROVE  \E s \in Sockets : sockets' = [sockets EXCEPT ![f] = s] /\ s.open = sockets[f].open
      <4>1. Append(sockets[f].in, x) \in Seq(Char)
        BY <3>0, AppendProperties DEF Sockets, Char
      <4>2. /\ [sockets[f] EXCEPT !.in = Append(sockets[f].in, x)] \in Sockets
            /\ [sockets[f] EXCEPT !.in = Append(sockets[f].in, x)].open = sockets[f].open
        BY <3>0, <4>1 DEF Sockets
      <4> QED
        BY <3>3, <4>2 DEF Rot!SendByte
    <3> QED
      BY <1>4, <3>1, <3>2, <3>3
  <2>3. /\ sockets' \in [Rot!Fds -> Sockets]
        /\ \A g \in Rot!Fds : sockets'[g].open = sockets[g].open
    BY <1>0, <2>2
  <2> QED
    BY <2>1, <2>3, AllLeftAlone
<1> QED
  BY <1>1, <1>2, <1>3, <1>4 DEF Rot!Next, Rot!ServerStep

(* nonblocking_server.c gives every connection its own bytes in rot13, in  *)
(* order and after what the connection before it left in the Buffer; bytes *)
(* are lost only when more came than the Buffer has room for; and main     *)
(* never finds the Buffer of a new connection taken.                       *)
THEOREM BytesAreEchoed == AnySpec => []StreamEchoed
<1>1. AnyInit => EchoInv
  BY EchoStarts DEF AnyInit
<1>2. EchoInv /\ [AnyNext]_allVars => EchoInv'
  BY ProgramStep, EchoStep
<1>3. EchoInv => StreamEchoed
  BY DEF EchoInv, TakenInv, StreamInv, Echoed, StreamEchoed, Rot!StreamEchoed
<1> QED
  BY <1>1, <1>2, <1>3, PTL DEF AnySpec
-----------------------------------------------------------------------------
(* The HTTP server.                                                        *)
Fields == {"close", "bare", "host", "keep-alive"}
Token == {Server!CRLF, Server!Rest} \cup {Server!Status(r) : r \in SmallRequests}
           \cup {Server!Header(h) : h \in Fields}
Urls == {r.url : r \in SmallRequests} \cup {None}
Versions == {r.version : r \in SmallRequests} \cup {None}

Parsers == [current_state : {"STATUS", "HEADERS", "DONE"}, url : Urls, version : Versions,
            headers : Seq(Fields)]
Pages == [url : Urls, found : BOOLEAN]

HttpTypes ==
  /\ asked \in [Conns -> Seq(SmallRequests)]
  /\ todo \in [Conns -> Seq(Token)] /\ socket \in [Conns -> Seq(Token)] /\ input \in [Conns -> Seq(Token)]
  /\ request \in [Conns -> Parsers] /\ answers \in [Conns -> Seq(Pages)]
  /\ shut \in [Conns -> BOOLEAN]

\* What the server has not parsed of c, wherever it is.
Flow(c) == input[c] \o (socket[c] \o todo[c])

\* F, of n tokens, carries the requests of A, of which there are m, from the one after the
\* k-th on; `at' says where each of them begins in F, which may be before its first token.
Size(r) == Len(Server!Text(r))
Carries(F, n, A, m, k, at) ==
  /\ \A q \in (k + 1)..m : at[q + 1] = at[q] + Size(A[q])
  /\ at[m + 1] = n
  /\ \A q \in (k + 1)..(m + 1) : at[q] <= n
  /\ \A q \in (k + 1)..m : \A j \in 1..Size(A[q]) : at[q] + j >= 1 => F[at[q] + j] = Server!Text(A[q])[j]
\* p tokens of the first of them are gone.
Carried(F, A, k, p) == \E at \in [Nat -> Int] : Carries(F, Len(F), A, Len(A), k, at) /\ at[k + 1] + p = 0

\* The request that is parsed, and how many of its tokens are gone.
Asked(c) == asked[c][Len(answers[c]) + 1]
Parsed(c) ==
  CASE request[c].current_state = "STATUS" -> 0
    [] request[c].current_state = "HEADERS" -> 2 + 2 * Len(request[c].headers)
    [] OTHER -> Size(Asked(c))
NoneBare(c) == \A q \in 1..Len(answers[c]) : ~Server!IsBare(asked[c][q])

\* What has been parsed so far is what the client asked.
RequestInv(c) ==
  /\ request[c].current_state = "STATUS" => request[c] = Server!NewRequest
  /\ request[c].current_state # "STATUS" =>
       /\ Len(answers[c]) < Len(asked[c])
       /\ request[c].url = Asked(c).url /\ request[c].version = Asked(c).version
       /\ Len(request[c].headers) <= Len(Asked(c).headers)
       /\ \A j \in 1..Len(request[c].headers) :
            request[c].headers[j] = Asked(c).headers[j] /\ request[c].headers[j] # "bare"
  /\ request[c].current_state = "DONE" => Len(request[c].headers) = Len(Asked(c).headers)

OnTrack(c) == Carried(Flow(c), asked[c], Len(answers[c]), Parsed(c)) /\ NoneBare(c) /\ RequestInv(c)

\* A header without blank was taken for the last one.
Derailed(c) ==
  /\ input[c] # <<>> /\ Head(input[c]) = Server!Rest
  /\ \/ /\ request[c].current_state = "DONE" /\ NoneBare(c)
        /\ Len(answers[c]) < Len(asked[c])
        /\ request[c].url = Asked(c).url /\ Server!IsBare(Asked(c))
     \/ /\ request[c].current_state = "STATUS"
        /\ Len(answers[c]) \in 1..Len(asked[c]) /\ Server!IsBare(asked[c][Len(answers[c])])

\* What AnswersFollowRequests says of one connection.
AnsweredRightly(c) ==
  /\ Len(answers[c]) <= Len(asked[c])
  /\ Len(answers[c]) > Server!Sent(c) => Server!IsBare(asked[c][Len(asked[c])])
  /\ \A q \in 1..Len(answers[c]) :
       /\ answers[c][q].url = asked[c][q].url
       /\ Server!IsBare(asked[c][q]) => q = Len(answers[c])
       /\ Server!CloseConnection(asked[c][q]) => q = Len(answers[c])
\* Of a bare request the server may not see the header that asks to close.
ShutRightly(c) ==
  /\ \A q \in 1..Len(answers[c]) :
       Server!CloseConnection(asked[c][q]) => shut[c] \/ Server!IsBare(asked[c][q])
  /\ shut[c] => \E q \in 1..Len(answers[c]) :
                  Server!CloseConnection(asked[c][q]) \/ Server!IsBare(asked[c][q])

HttpInv ==
  /\ HttpTypes
  /\ fate = "running" => \A c \in Conns : OnTrack(c) \/ Derailed(c)
  /\ \A c \in Conns : AnsweredRightly(c) /\ ShutRightly(c)
  /\ fate # "running" => Server!FatalAsked

LEMMA TokenFacts ==
  /\ Server!CRLF.kind = "crlf" /\ Server!Rest.kind = "rest"
  /\ \A r \in SmallRequests : /\ Server!Status(r).kind = "status" /\ Server!Status(r).url = r.url
                              /\ Server!Status(r).version = r.version
                              /\ Server!Status(r).tight = r.tight
  /\ \A h : Server!Header(h).kind = "header" /\ Server!Header(h).field = h
BY DEF Server!CRLF, Server!Rest, Server!Status, Server!Header

LEMMA RequestFacts ==
  ASSUME NEW r \in SmallRequests
  PROVE  r.headers \in Seq(Fields) /\ r.url \in Urls /\ r.version \in Versions /\ Len(r.headers) \in Nat
<1>1. r.headers \in {<<>>, <<"close">>, <<"bare">>, <<"host", "host">>, <<"keep-alive">>}
  BY DEF SmallRequests, Ask, Tight
<1>2. r.headers \in Seq(Fields)
  <2>1. "close" \in Fields /\ "bare" \in Fields /\ "host" \in Fields /\ "keep-alive" \in Fields
    BY DEF Fields
  <2>2. \A x \in Fields : <<x>> \in Seq(Fields)
    OBVIOUS
  <2>3. \A x \in Fields : <<x, x>> \in Seq(Fields)
    OBVIOUS
  <2>4. <<>> \in Seq(Fields)
    OBVIOUS
  <2> QED
    BY <1>1, <2>1, <2>2, <2>3, <2>4
<1>3. Len(r.headers) \in Nat
  BY <1>2, LenProperties
<1>4. r.url \in Urls /\ r.version \in Versions
  BY DEF Urls, Versions
<1> QED
  BY <1>2, <1>3, <1>4

LEMMA TextFacts ==
  ASSUME NEW r \in SmallRequests
  PROVE  /\ Server!Text(r) \in Seq(Token) /\ Len(Server!Text(r)) = 2 * Len(r.headers) + 3
         /\ Len(r.headers) \in Nat
         /\ Server!Text(r)[1] = Server!Status(r)
         /\ \A j \in 1..Len(r.headers) : Server!Text(r)[2 * j + 1] = Server!Header(r.headers[j])
         /\ Server!Text(r)[2 * Len(r.headers) + 3] = Server!CRLF
<1> DEFINE last == 2 * Len(r.headers) + 3
<1>1. Len(r.headers) \in Nat /\ last \in Nat /\ last >= 3 /\ r.headers \in Seq(Fields)
  BY RequestFacts
<1> HIDE DEF last
<1>2. Server!Text(r) = [k \in 1..last |-> IF k = 1 THEN Server!Status(r)
                          ELSE IF k % 2 = 1 /\ k < last THEN Server!Header(r.headers[k \div 2])
                               ELSE Server!CRLF]
  BY DEF Server!Text, last
<1>3. ASSUME NEW k \in 1..last PROVE Server!Text(r)[k] \in Token
  <2>1. CASE k = 1
    BY <1>2, <2>1 DEF Token
  <2>2. CASE k # 1 /\ k % 2 = 1 /\ k < last
    <3>1. k \div 2 \in 1..Len(r.headers)
      BY <1>1, <2>2 DEF last
    <3>2. r.headers[k \div 2] \in Fields
      BY <1>1, <3>1, ElementOfSeq
    <3> QED
      BY <1>2, <2>2, <3>2 DEF Token
  <2>3. CASE k # 1 /\ ~(k % 2 = 1 /\ k < last)
    BY <1>2, <2>3 DEF Token
  <2> QED
    BY <2>1, <2>2, <2>3
<1>4. Server!Text(r) \in [1..last -> Token]
  BY <1>2, <1>3
<1>5. Server!Text(r) \in Seq(Token) /\ Len(Server!Text(r)) = last
  <2>1. Server!Text(r) \in Seq(Token)
    BY <1>1, <1>4
  <2>2. DOMAIN Server!Text(r) = 1..last
    BY <1>4
  <2> QED
    BY <1>1, <2>1, <2>2, LenProperties
<1>6. ASSUME NEW j \in 1..Len(r.headers) PROVE Server!Text(r)[2 * j + 1] = Server!Header(r.headers[j])
  <2>1. /\ 2 * j + 1 \in 1..last /\ 2 * j + 1 # 1 /\ (2 * j + 1) % 2 = 1 /\ 2 * j + 1 < last
        /\ (2 * j + 1) \div 2 = j
    BY <1>1 DEF last
  <2> QED
    BY <1>2, <2>1
<1>7. Server!Text(r)[1] = Server!Status(r) /\ Server!Text(r)[last] = Server!CRLF
  BY <1>1, <1>2
<1> QED
  BY <1>1, <1>5, <1>6, <1>7 DEF last

\* What the parser and the clients do to what is carried, on the functions alone.
Sized(A, m) == \A q \in 1..m : Size(A[q]) \in Nat
Alike(G, F, n) == \A x \in 1..n : G[x] = F[x]
Shifted(L, F, d, e) == \A x \in 1..e : L[x] = F[d + x]
Places(at) == at \in [Nat -> Int]
Back(on, at, d) == \A q \in Nat : on[q] = at[q] - d
IsSum(n, d, e) == n \in Nat /\ d \in Nat /\ e \in Nat /\ n = d + e
LEMMA CarriesOn ==
  ASSUME NEW F, NEW L, NEW A, NEW n, NEW m \in Nat, NEW k \in Nat, NEW d, NEW e, IsSum(n, d, e),
         NEW at, Places(at), Carries(F, n, A, m, k, at), NEW on, Places(on), Back(on, at, d),
         Shifted(L, F, d, e), Sized(A, m)
  PROVE  Carries(L, e, A, m, k, on)
<1> USE DEF Sized, Shifted, Places, Back, IsSum
<1>1. \A q \in Nat : on[q] = at[q] - d /\ at[q] \in Int /\ on[q] \in Int
  OBVIOUS
<1>2. ASSUME NEW q \in (k + 1)..m
      PROVE  /\ on[q + 1] = on[q] + Size(A[q])
             /\ \A j \in 1..Size(A[q]) : on[q] + j >= 1 => L[on[q] + j] = Server!Text(A[q])[j]
  <2>1. q \in Nat /\ q + 1 \in Nat /\ q + 1 \in (k + 1)..(m + 1) /\ q \in 1..m
    OBVIOUS
  <2>2. /\ at[q + 1] = at[q] + Size(A[q]) /\ at[q + 1] <= n
        /\ \A j \in 1..Size(A[q]) : at[q] + j >= 1 => F[at[q] + j] = Server!Text(A[q])[j]
    BY <2>1 DEF Carries
  <2>3. Size(A[q]) \in Nat
    BY <2>1
  <2> DEFINE z == Size(A[q])
             a == at[q]
  <2>4. z \in Nat /\ a \in Int /\ on[q] = a - d /\ on[q + 1] = a + z - d /\ a + z <= n
    BY <1>1, <2>1, <2>2, <2>3
  <2> HIDE DEF z, a
  <2>5. on[q + 1] = on[q] + z
    BY <2>4
  <2>6. ASSUME NEW j \in 1..z, on[q] + j >= 1 PROVE L[on[q] + j] = Server!Text(A[q])[j]
    <3>1. on[q] + j \in 1..(e) /\ d + (on[q] + j) = a + j /\ a + j >= 1
      BY <2>4, <2>6
    <3>2. F[a + j] = Server!Text(A[q])[j]
      BY <2>2, <3>1 DEF a, z
    <3>3. L[on[q] + j] = F[d + (on[q] + j)]
      BY <3>1
    <3> QED
      BY <3>1, <3>2, <3>3
  <2> QED
    BY <2>5, <2>6 DEF z
<1>3. on[m + 1] = e
  <2>1. at[m + 1] = n /\ m + 1 \in Nat
    BY DEF Carries
  <2> QED
    BY <1>1, <2>1
<1>4. ASSUME NEW q \in (k + 1)..(m + 1) PROVE on[q] <= e
  <2>1. at[q] <= n /\ q \in Nat
    BY DEF Carries
  <2> QED
    BY <1>1, <2>1
<1> QED
  BY <1>2, <1>3, <1>4 DEF Carries

LEMMA CarriesMore ==
  ASSUME NEW F, NEW G, NEW A, NEW B, NEW n \in Nat, NEW m \in Nat, NEW k \in Nat, k <= m,
         NEW l \in Nat, NEW u \in Nat,
         NEW at \in [Nat -> Int], Carries(F, n, A, m, k, at),
         NEW z \in Nat, z = Size(B[u]), u = m + 1, l = n + z,
         Sized(A, m), Alike(B, A, m),
         NEW on \in [Nat -> Int], Alike(on, at, u), on[m + 2] = l,
         Alike(G, F, n), Shifted(Server!Text(B[u]), G, n, z)
  PROVE  Carries(G, l, B, u, k, on)
<1>1. /\ \A q \in 1..m : B[q] = A[q] /\ Size(A[q]) \in Nat
      /\ \A x \in 1..n : G[x] = F[x]
      /\ \A x \in 1..z : G[n + x] = Server!Text(B[u])[x]
  BY DEF Sized, Shifted, Alike
<1>2. /\ on \in [Nat -> Int] /\ on[m + 2] = n + z
      /\ \A q \in (k + 1)..(m + 1) : on[q] = at[q] /\ at[q] \in Int
  BY DEF Alike
<1>3. at[m + 1] = n /\ on[m + 1] = n
  <2>1. at[m + 1] = n
    BY DEF Carries
  <2> QED
    BY <1>2, <2>1
<1>4. ASSUME NEW q \in (k + 1)..(m + 1)
      PROVE  /\ on[q + 1] = on[q] + Size(B[q])
             /\ \A j \in 1..Size(B[q]) : on[q] + j >= 1 => G[on[q] + j] = Server!Text(B[q])[j]
  <2>1. CASE q = m + 1
    <3>1. on[q] = n /\ on[q + 1] = n + z
      <4>1. q + 1 = m + 2
        BY <2>1
      <4> QED
        BY <1>2, <1>3, <2>1, <4>1
    <3>2. \A j \in 1..z : G[n + j] = Server!Text(B[m + 1])[j]
      BY <1>1
    <3> QED
      BY <2>1, <3>1, <3>2
  <2>2. CASE q # m + 1
    <3>1. /\ q \in (k + 1)..m /\ q \in 1..m /\ q \in Nat /\ q <= m + 1
          /\ q + 1 \in (k + 1)..(m + 1) /\ q + 1 \in Nat /\ q + 1 <= m + 1
      BY <2>2
    <3>2. /\ at[q + 1] = at[q] + Size(A[q]) /\ at[q + 1] <= n
          /\ \A j \in 1..Size(A[q]) : at[q] + j >= 1 => F[at[q] + j] = Server!Text(A[q])[j]
      BY <3>1 DEF Carries
    <3> DEFINE y == Size(A[q])
               a == at[q]
    <3>3. y \in Nat /\ a \in Int /\ B[q] = A[q] /\ on[q] = a /\ on[q + 1] = a + y /\ a + y <= n
      BY <1>1, <1>2, <3>1, <3>2
    <3> HIDE DEF y, a
    <3>4. ASSUME NEW j \in 1..y, a + j >= 1 PROVE G[a + j] = Server!Text(A[q])[j]
      <4>1. a + j \in 1..n
        BY <3>3, <3>4
      <4>2. F[a + j] = Server!Text(A[q])[j]
        BY <3>2, <3>4 DEF a, y
      <4> QED
        BY <1>1, <4>1, <4>2
    <3> QED
      BY <3>3, <3>4 DEF y
  <2> QED
    BY <2>1, <2>2
<1>5. ASSUME NEW q \in (k + 1)..(m + 2) PROVE on[q] <= n + z
  <2>1. CASE q = m + 2
    BY <1>2, <2>1
  <2>2. CASE q # m + 2
    <3>1. q \in (k + 1)..(m + 1) /\ at[q] <= n
      BY <2>2 DEF Carries
    <3> QED
      BY <1>2, <3>1
  <2> QED
    BY <2>1, <2>2
<1>6. Carries(G, n + z, B, m + 1, k, on)
  <2>1. m + 1 + 1 = m + 2
    OBVIOUS
  <2> QED
    BY <1>2, <1>4, <1>5, <2>1 DEF Carries
<1> QED
  BY <1>6

\* The same of the sequences.
LEMMA SizesKnown ==
  ASSUME NEW A \in Seq(SmallRequests)
  PROVE  Len(A) \in Nat /\ \A q \in 1..Len(A) : A[q] \in SmallRequests /\ Size(A[q]) \in Nat
<1>1. Len(A) \in Nat /\ \A q \in 1..Len(A) : A[q] \in SmallRequests
  BY LenProperties, ElementOfSeq
<1>2. \A r \in SmallRequests : Size(r) \in Nat
  <2> SUFFICES ASSUME NEW r \in SmallRequests PROVE Size(r) \in Nat
    OBVIOUS
  <2>1. Server!Text(r) \in Seq(Token)
    BY TextFacts
  <2> QED
    BY <2>1, LenProperties DEF Size
<1> QED
  BY <1>1, <1>2

LEMMA CarriedNothing == Carried(<<>>, <<>>, 0, 0)
<1> DEFINE at == [q \in Nat |-> 0]
<1>1. at \in [Nat -> Int] /\ at[1] = 0 /\ Len(<<>>) = 0
  OBVIOUS
<1> HIDE DEF at
<1>2. Carries(<<>>, 0, <<>>, 0, 0, at) /\ at[0 + 1] + 0 = 0
  BY <1>1 DEF Carries
<1> QED
  BY <1>1, <1>2 DEF Carried

LEMMA CarriedOn ==
  ASSUME NEW F, IsSeq(Token, F), NEW A, IsSeq(SmallRequests, A), NEW k \in Nat, NEW p \in Nat,
         Carried(F, A, k, p), NEW d \in Nat, d <= Len(F)
  PROVE  Carried(LeftOf(F, d), A, k, p + d)
<1> DEFINE n == Len(F)
           m == Len(A)
           L == LeftOf(F, d)
<1>1. PICK at \in [Nat -> Int] : Carries(F, n, A, m, k, at) /\ at[k + 1] + p = 0
  BY DEF Carried
<1>2. n \in Nat /\ m \in Nat /\ \A q \in 1..m : Size(A[q]) \in Nat
  BY SizesKnown, LenProperties DEF IsSeq
<1>3. Len(L) = n - d /\ \A x \in 1..(n - d) : L[x] = F[d + x]
  BY LeftOfFacts DEF IsSeq
<1> DEFINE on == [q \in Nat |-> at[q] - d]
<1>4. d <= n
  OBVIOUS
<1>5. on \in [Nat -> Int] /\ \A q \in Nat : on[q] = at[q] - d
  OBVIOUS
<1> HIDE DEF n, m, L, on
<1>a. Carries(L, n - d, A, m, k, on)
  <2> DEFINE e == n - d
  <2>1. IsSum(n, d, e)
    BY <1>2, <1>4 DEF IsSum
  <2>2. Shifted(L, F, d, e) /\ Sized(A, m)
    BY <1>2, <1>3 DEF Shifted, Sized
  <2>4. Places(at) /\ Places(on) /\ Back(on, at, d)
    BY <1>5 DEF Places, Back
  <2>5. m \in Nat /\ Carries(F, n, A, m, k, at)
    BY <1>1, <1>2
  <2> HIDE DEF e
  <2>3. Carries(L, e, A, m, k, on)
    BY <2>1, <2>2, <2>4, <2>5, CarriesOn
  <2> QED
    BY <2>3 DEF e
<1>6. on \in [Nat -> Int] /\ on[k + 1] + (p + d) = 0
  <2> DEFINE a == at[k + 1]
             b == on[k + 1]
  <2>1. k + 1 \in Nat
    OBVIOUS
  <2>2. b = a - d /\ a \in Int
    BY <1>5, <2>1
  <2>3. a + p = 0
    BY <1>1
  <2> HIDE DEF a, b
  <2>4. b + (p + d) = 0
    BY <2>2, <2>3
  <2> QED
    BY <1>5, <2>4 DEF b
<1>7. Carries(L, Len(L), A, Len(A), k, on)
  BY <1>3, <1>a DEF m
<1> QED
  BY <1>6, <1>7 DEF Carried, L

LEMMA CarriedWhole ==
  ASSUME NEW F, IsSeq(Token, F), NEW A, IsSeq(SmallRequests, A), NEW k \in Nat, k < Len(A),
         Carried(F, A, k, Size(A[k + 1]))
  PROVE  Carried(F, A, k + 1, 0)
<1> DEFINE n == Len(F)
           m == Len(A)
           z == Size(A[k + 1])
<1>1. PICK at \in [Nat -> Int] : Carries(F, n, A, m, k, at) /\ at[k + 1] + z = 0
  BY DEF Carried
<1>2. n \in Nat /\ m \in Nat /\ k < m /\ z \in Nat
  <2>1. m \in Nat /\ n \in Nat /\ k < m
    BY LenProperties DEF IsSeq
  <2>2. k + 1 \in 1..m
    BY <2>1
  <2> QED
    BY <2>1, <2>2, SizesKnown DEF IsSeq
<1> HIDE DEF n, m, z
<1>3. at[k + 1 + 1] + 0 = 0
  <2>1. k + 1 \in (k + 1)..m
    BY <1>2
  <2>2. at[k + 1 + 1] = at[k + 1] + z
    BY <1>1, <2>1 DEF Carries, z
  <2> QED
    BY <1>1, <1>2, <2>2
<1>4. Carries(F, n, A, m, k + 1, at)
  <2> DEFINE h == k + 1
  <2>1. /\ h \in Nat /\ \A q \in (h + 1)..m : q \in h..m
        /\ \A q \in (h + 1)..(m + 1) : q \in h..(m + 1)
    BY <1>2
  <2>2. /\ \A q \in h..m : at[q + 1] = at[q] + Size(A[q])
        /\ at[m + 1] = n
        /\ \A q \in h..(m + 1) : at[q] <= n
        /\ \A q \in h..m : \A j \in 1..Size(A[q]) :
              at[q] + j >= 1 => F[at[q] + j] = Server!Text(A[q])[j]
    BY <1>1 DEF Carries
  <2> HIDE DEF h
  <2>3. Carries(F, n, A, m, h, at)
    BY <2>1, <2>2 DEF Carries
  <2> QED
    BY <2>3 DEF h
<1> QED
  BY <1>3, <1>4 DEF Carried, n, m

LEMMA CarriedLast ==
  ASSUME NEW F, IsSeq(Token, F), NEW A, IsSeq(SmallRequests, A), NEW p \in Nat, Carried(F, A, Len(A), p)
  PROVE  F = <<>> /\ p = 0
<1> DEFINE n == Len(F)
           m == Len(A)
<1>1. PICK at \in [Nat -> Int] : Carries(F, n, A, m, m, at) /\ at[m + 1] + p = 0
  BY DEF Carried
<1>2. n \in Nat
  BY LenProperties DEF IsSeq
<1>3. n = 0 => F = <<>>
  BY EmptySeq DEF IsSeq
<1> HIDE DEF n, m
<1>4. n + p = 0
  BY <1>1 DEF Carries
<1> QED
  BY <1>2, <1>3, <1>4

LEMMA CarriedHead ==
  ASSUME NEW F, IsSeq(Token, F), NEW A, IsSeq(SmallRequests, A), NEW k \in Nat, NEW p \in Nat,
         k < Len(A), Carried(F, A, k, p), p < Size(A[k + 1])
  PROVE  F[1] = Server!Text(A[k + 1])[p + 1]
<1> DEFINE n == Len(F)
           m == Len(A)
           z == Size(A[k + 1])
<1>1. PICK at \in [Nat -> Int] : Carries(F, n, A, m, k, at) /\ at[k + 1] + p = 0
  BY DEF Carried
<1>2. n \in Nat /\ m \in Nat /\ k < m /\ z \in Nat /\ p < z
  <2>1. m \in Nat /\ n \in Nat /\ k < m
    BY LenProperties DEF IsSeq
  <2>2. k + 1 \in 1..m
    BY <2>1
  <2> QED
    BY <2>1, <2>2, SizesKnown DEF IsSeq
<1> HIDE DEF n, m, z
<1>3. k + 1 \in (k + 1)..m /\ p + 1 \in 1..z /\ at[k + 1] + (p + 1) = 1
  <2> DEFINE a == at[k + 1]
  <2>1. a \in Int /\ a + p = 0
    BY <1>1
  <2> HIDE DEF a
  <2>a. a + (p + 1) = 1
    BY <2>1
  <2>2. at[k + 1] + (p + 1) = 1
    BY <2>a DEF a
  <2>3. k + 1 \in (k + 1)..m /\ p + 1 \in 1..z
    BY <1>2
  <2> QED
    BY <2>2, <2>3
<1>4. F[at[k + 1] + (p + 1)] = Server!Text(A[k + 1])[p + 1]
  <2> DEFINE h == k + 1
             o == p + 1
  <2>1. h \in h..m /\ o \in 1..Size(A[h]) /\ at[h] + o = 1 /\ 1 >= 1
    BY <1>3 DEF z
  <2>2. \A q \in h..m : \A j \in 1..Size(A[q]) :
          at[q] + j >= 1 => F[at[q] + j] = Server!Text(A[q])[j]
    BY <1>1 DEF Carries
  <2> HIDE DEF h, o
  <2>3. F[at[h] + o] = Server!Text(A[h])[o]
    BY <2>1, <2>2
  <2> QED
    BY <2>3 DEF h, o
<1> QED
  BY <1>3, <1>4

LEMMA CarriedMore ==
  ASSUME NEW F, IsSeq(Token, F), NEW A, IsSeq(SmallRequests, A), NEW k \in Nat, NEW p \in Nat,
         k <= Len(A), Carried(F, A, k, p), NEW r \in SmallRequests
  PROVE  Carried(F \o Server!Text(r), Append(A, r), k, p)
<1> DEFINE n == Len(F)
           m == Len(A)
           G == F \o Server!Text(r)
           B == Append(A, r)
<1>1. PICK at \in [Nat -> Int] : Carries(F, n, A, m, k, at) /\ at[k + 1] + p = 0
  BY DEF Carried
<1>2. n \in Nat /\ m \in Nat /\ k <= m /\ \A q \in 1..m : Size(A[q]) \in Nat
  BY SizesKnown, LenProperties DEF IsSeq
<1>3. Server!Text(r) \in Seq(Token)
  BY TextFacts
<1>4. /\ G \in Seq(Token) /\ Len(G) = n + Size(r) /\ Size(r) \in Nat
      /\ \A x \in 1..n : G[x] = F[x]
      /\ \A x \in 1..Size(r) : G[n + x] = Server!Text(r)[x]
  <2> DEFINE t == Server!Text(r)
  <2>1. t \in Seq(Token) /\ G = F \o t /\ F \in Seq(Token)
    BY <1>3 DEF IsSeq
  <2> HIDE DEF t, G
  <2>2. /\ G \in Seq(Token) /\ Len(G) = Len(F) + Len(t) /\ Len(t) \in Nat
        /\ \A x \in 1..Len(F) : G[x] = F[x]
        /\ \A x \in 1..Len(t) : G[Len(F) + x] = t[x]
    BY <2>1, ConcatFacts DEF IsSeq
  <2> QED
    BY <2>2 DEF t, Size
<1>5. Len(B) = m + 1 /\ B[m + 1] = r /\ \A q \in 1..m : B[q] = A[q]
  BY AppendProperties DEF IsSeq
<1> DEFINE z == Size(B[m + 1])
           on == [at EXCEPT ![m + 2] = n + z]
<1> HIDE DEF n, m, G, B, on, z
<1>6. on \in [Nat -> Int] /\ on[k + 1] = at[k + 1] /\ Carries(G, n + z, B, m + 1, k, on)
  <2> DEFINE l == n + z
             u == m + 1
  <2>1. /\ z \in Nat /\ z = Size(B[u]) /\ Sized(A, m) /\ Alike(B, A, m)
        /\ Alike(G, F, n) /\ Shifted(Server!Text(B[u]), G, n, z)
    BY <1>2, <1>4, <1>5 DEF z, Sized, Shifted, Alike
  <2>a. z \in Nat
    BY <1>4, <1>5 DEF z
  <2>3. l \in Nat /\ u \in Nat /\ u = m + 1 /\ l = n + z
    BY <1>2, <2>a
  <2>2. on \in [Nat -> Int] /\ Alike(on, at, u) /\ on[m + 2] = l
    BY <1>2, <2>a DEF on, Alike
  <2> HIDE DEF l, u
  <2>b. n \in Nat /\ m \in Nat /\ k <= m
    BY <1>2
  <2>c. Carries(F, n, A, m, k, at)
    BY <1>1
  <2>4. Carries(G, l, B, u, k, on)
    BY <2>1, <2>2, <2>3, <2>b, <2>c, CarriesMore
  <2>5. on[k + 1] = at[k + 1]
    BY <2>2, <2>3, <2>b DEF Alike
  <2> QED
    BY <2>2, <2>4, <2>5 DEF l, u
<1>7. Carries(G, Len(G), B, Len(B), k, on) /\ on[k + 1] + p = 0
  BY <1>1, <1>4, <1>5, <1>6 DEF z
<1> QED
  BY <1>6, <1>7 DEF Carried, G, B

\* A connection, and what is to be parsed of it.
LEMMA ConnFacts ==
  ASSUME HttpTypes, NEW c \in Conns
  PROVE  /\ IsSeq(Token, input[c]) /\ IsSeq(Token, socket[c]) /\ IsSeq(Token, todo[c])
         /\ IsSeq(Token, Flow(c)) /\ IsSeq(SmallRequests, asked[c])
         /\ Len(asked[c]) \in Nat /\ Len(answers[c]) \in Nat
         /\ request[c] \in Parsers /\ Len(request[c].headers) \in Nat
         /\ \A q \in 1..Len(asked[c]) : asked[c][q] \in SmallRequests
<1>1. /\ input[c] \in Seq(Token) /\ socket[c] \in Seq(Token) /\ todo[c] \in Seq(Token)
      /\ asked[c] \in Seq(SmallRequests) /\ answers[c] \in Seq(Pages) /\ request[c] \in Parsers
  BY DEF HttpTypes
<1>2. Flow(c) \in Seq(Token)
  <2>1. socket[c] \o todo[c] \in Seq(Token)
    BY <1>1, ConcatProperties
  <2> QED
    BY <1>1, <2>1, ConcatProperties DEF Flow
<1>3. Len(asked[c]) \in Nat /\ Len(answers[c]) \in Nat
  BY <1>1, LenProperties
<1>4. Len(request[c].headers) \in Nat
  <2>1. request[c].headers \in Seq(Fields)
    BY <1>1 DEF Parsers
  <2> QED
    BY <2>1, LenProperties
<1>5. \A q \in 1..Len(asked[c]) : asked[c][q] \in SmallRequests
  BY <1>1, ElementOfSeq
<1> QED
  BY <1>1, <1>2, <1>3, <1>4, <1>5 DEF IsSeq

LEMMA HeadOfFlow ==
  ASSUME NEW X, NEW s \in Seq(X), NEW t \in Seq(X), s # <<>>
  PROVE  /\ s \o t # <<>> /\ (s \o t)[1] = Head(s) /\ Head(s) = s[1] /\ Head(s) \in X
         /\ Len(s) >= 1 /\ Len(s) \in Nat
<1>1. Len(s) \in Nat /\ Len(s) # 0
  BY LenProperties, EmptySeq
<1>2. Len(s) >= 1
  BY <1>1
<1>3. (s \o t)[1] = s[1] /\ Len(s \o t) = Len(s) + Len(t) /\ Len(t) \in Nat
  BY <1>1, <1>2, ConcatFacts
<1>4. Len(s \o t) # 0
  BY <1>1, <1>3
<1>5. s \o t # <<>>
  BY <1>4, EmptySeq
<1>6. Head(s) = s[1] /\ s[1] \in X
  BY <1>1, <1>2, ElementOfSeq, HeadTailProperties
<1> QED
  BY <1>1, <1>2, <1>3, <1>5, <1>6

LEMMA LineAhead ==
  ASSUME HttpTypes, NEW c \in Conns, Server!HasLine(c)
  PROVE  /\ input[c] # <<>> /\ Head(input[c]) \in Token /\ Flow(c) # <<>> /\ Flow(c)[1] = Head(input[c])
         /\ 1 <= Len(input[c]) /\ (Head(input[c]) # Server!CRLF => 2 <= Len(input[c]))
<1> DEFINE s == input[c]
           t == socket[c] \o todo[c]
<1>1. s \in Seq(Token) /\ t \in Seq(Token)
  <2>1. s \in Seq(Token) /\ socket[c] \in Seq(Token) /\ todo[c] \in Seq(Token)
    BY DEF HttpTypes
  <2> QED
    BY <2>1, ConcatProperties
<1>2. PICK x \in DOMAIN s : s[x] = Server!CRLF
  BY DEF Server!HasLine, Server!ToSet
<1>3. Len(s) \in Nat /\ x \in 1..Len(s)
  BY <1>1, LenProperties
<1>4. s # <<>>
  BY <1>3, EmptySeq
<1> HIDE DEF s, t
<1>5. /\ s \o t # <<>> /\ (s \o t)[1] = Head(s) /\ Head(s) = s[1] /\ Head(s) \in Token
  BY <1>1, <1>4, HeadOfFlow
<1>6. Head(s) # Server!CRLF => 2 <= Len(s)
  BY <1>2, <1>3, <1>5
<1>7. 1 <= Len(s)
  BY <1>3
<1>8. Flow(c) = s \o t
  BY DEF Flow, s, t
<1> QED
  BY <1>4, <1>5, <1>6, <1>7, <1>8 DEF s

LEMMA FlowConsumed ==
  ASSUME HttpTypes, NEW c \in Conns, NEW m \in Nat, m <= Len(input[c]),
         input'[c] = LeftOf(input[c], m), socket'[c] = socket[c], todo'[c] = todo[c]
  PROVE  Flow(c)' = LeftOf(Flow(c), m) /\ m <= Len(Flow(c))
<1> DEFINE s == input[c]
           t == socket[c] \o todo[c]
<1>1. s \in Seq(Token) /\ t \in Seq(Token)
  <2>1. s \in Seq(Token) /\ socket[c] \in Seq(Token) /\ todo[c] \in Seq(Token)
    BY DEF HttpTypes
  <2> QED
    BY <2>1, ConcatProperties
<1>2. Flow(c) = s \o t /\ Flow(c)' = LeftOf(s, m) \o t
  BY DEF Flow
<1>3. m <= Len(s)
  OBVIOUS
<1> HIDE DEF s, t
<1>4. LeftOf(s \o t, m) = LeftOf(s, m) \o t
  BY <1>1, <1>3, LeftOfConcat
<1>5. m <= Len(s \o t)
  <2>1. Len(s \o t) = Len(s) + Len(t) /\ Len(s) \in Nat /\ Len(t) \in Nat
    BY <1>1, ConcatFacts
  <2> QED
    BY <1>3, <2>1
<1> QED
  BY <1>2, <1>4, <1>5

\* The tokens are told apart by their kinds.
LEMMA KindsOfToken ==
  ASSUME NEW x \in Token
  PROVE  /\ x.kind = "status" => \E r \in SmallRequests : x = Server!Status(r)
         /\ x.kind = "header" => \E f \in Fields : x = Server!Header(f)
         /\ x.kind # "status" => \A r \in SmallRequests : x # Server!Status(r)
         /\ Server!CRLF.kind = "crlf"
<1>1. x = Server!CRLF \/ x = Server!Rest \/ (\E r \in SmallRequests : x = Server!Status(r))
      \/ \E f \in Fields : x = Server!Header(f)
  BY DEF Token
<1> QED
  BY <1>1, TokenFacts

\* What is parsed stays parsed when only the clients act.
LEMMA AskedStays ==
  ASSUME HttpTypes, NEW c \in Conns, Len(answers[c]) <= Len(asked[c]),
         Len(asked[c])' \in Nat, Len(asked[c]) <= Len(asked[c])',
         \A q \in 1..Len(asked[c]) : asked'[c][q] = asked[c][q],
         answers'[c] = answers[c], request'[c] = request[c]
  PROVE  /\ NoneBare(c) => NoneBare(c)'
         /\ RequestInv(c) => RequestInv(c)' /\ Parsed(c)' = Parsed(c)
         /\ Derailed(c) /\ input'[c] # <<>> /\ Head(input'[c]) = Head(input[c]) => Derailed(c)'
<1>1. Len(asked[c]) \in Nat /\ Len(answers[c]) \in Nat
  BY ConnFacts
<1>2. \A q \in 1..Len(answers[c]) : asked'[c][q] = asked[c][q]
  <2> DEFINE k == Len(answers[c])
             m == Len(asked[c])
  <2>1. k \in Nat /\ m \in Nat /\ k <= m /\ \A q \in 1..m : asked'[c][q] = asked[c][q]
    BY <1>1
  <2> HIDE DEF k, m
  <2>2. \A q \in 1..k : asked'[c][q] = asked[c][q]
    BY <2>1
  <2> QED
    BY <2>2 DEF k
<1>3. Len(answers[c]) < Len(asked[c]) => Asked(c)' = Asked(c) /\ Len(answers[c])' < Len(asked[c])'
  <2> SUFFICES ASSUME Len(answers[c]) < Len(asked[c])
               PROVE  Asked(c)' = Asked(c) /\ Len(answers[c])' < Len(asked[c])'
    OBVIOUS
  <2>1. Len(answers[c]) + 1 \in 1..Len(asked[c]) /\ Len(answers[c]) < Len(asked[c])'
    BY <1>1
  <2> QED
    BY <2>1 DEF Asked
<1>4. NoneBare(c) => NoneBare(c)'
  BY <1>2 DEF NoneBare
<1>5. RequestInv(c) => RequestInv(c)' /\ Parsed(c)' = Parsed(c)
  <2> SUFFICES ASSUME RequestInv(c) PROVE RequestInv(c)' /\ Parsed(c)' = Parsed(c)
    OBVIOUS
  <2>1. CASE request[c].current_state = "STATUS"
    BY <2>1 DEF RequestInv, Parsed
  <2>2. CASE request[c].current_state # "STATUS"
    <3>1. Len(answers[c]) < Len(asked[c])
      BY <2>2 DEF RequestInv
    <3>2. Asked(c)' = Asked(c) /\ Len(answers[c])' < Len(asked[c])'
      BY <1>3, <3>1
    <3>3. RequestInv(c)'
      BY <2>2, <3>2 DEF RequestInv
    <3>4. Size(Asked(c))' = Size(Asked(c))
      BY <3>2 DEF Size, Server!Text, Server!Status, Server!Header, Server!CRLF
    <3>5. Parsed(c)' = Parsed(c)
      BY <3>4 DEF Parsed
    <3> QED
      BY <3>3, <3>5
  <2> QED
    BY <2>1, <2>2
<1>6. ASSUME Derailed(c), input'[c] # <<>>, Head(input'[c]) = Head(input[c]) PROVE Derailed(c)'
  <2>1. Head(input'[c]) = Server!Rest
    BY <1>6 DEF Derailed
  <2>2. CASE /\ request[c].current_state = "DONE" /\ NoneBare(c)
             /\ Len(answers[c]) < Len(asked[c])
             /\ request[c].url = Asked(c).url /\ Server!IsBare(Asked(c))
    <3>1. Asked(c)' = Asked(c) /\ Len(answers[c])' < Len(asked[c])' /\ NoneBare(c)'
      BY <1>3, <1>4, <2>2
    <3>2. Server!IsBare(Asked(c))'
      BY <2>2, <3>1 DEF Server!IsBare, Server!ToSet
    <3> QED
      BY <1>6, <2>1, <2>2, <3>1, <3>2 DEF Derailed, Server!Rest
  <2>3. CASE /\ request[c].current_state = "STATUS"
             /\ Len(answers[c]) \in 1..Len(asked[c]) /\ Server!IsBare(asked[c][Len(answers[c])])
    <3>1. Len(answers[c])' \in 1..Len(asked[c])' /\ asked'[c][Len(answers[c])'] = asked[c][Len(answers[c])]
      BY <1>1, <1>2, <2>3
    <3>2. Server!IsBare(asked[c][Len(answers[c])])'
      BY <2>3, <3>1 DEF Server!IsBare, Server!ToSet
    <3> QED
      BY <1>6, <2>1, <2>3, <3>1, <3>2 DEF Derailed, Server!Rest
  <2> QED
    BY <1>6, <2>2, <2>3 DEF Derailed
<1> QED
  BY <1>4, <1>5, <1>6

\* What a step of the server or of a client owes a connection.
Advances(c) == fate' = "running" => OnTrack(c)' \/ Derailed(c)'
AnswersKept(c) == AnsweredRightly(c)' /\ ShutRightly(c)'

LEMMA AnswersLeft ==
  ASSUME HttpTypes, NEW c \in Conns, AnsweredRightly(c), ShutRightly(c),
         answers'[c] = answers[c], asked'[c] = asked[c], shut'[c] = shut[c],
         Server!Sent(c) \in Int, Server!Sent(c)' \in Int, Server!Sent(c) <= Server!Sent(c)',
         Server!FatalAsked => Server!FatalAsked', fate' = "running" => fate = "running"
  PROVE  AnswersKept(c)
<1>1. Len(answers[c]) \in Nat
  BY ConnFacts
<1>2. \A q : Server!IsBare(asked[c][q])' <=> Server!IsBare(asked[c][q])
  BY DEF Server!IsBare, Server!ToSet
<1>3. \A q : Server!CloseConnection(asked[c][q])' <=> Server!CloseConnection(asked[c][q])
  BY DEF Server!CloseConnection, Server!ConnectionHeader
<1>4. AnsweredRightly(c)'
  <2>1. Len(answers[c])' <= Len(asked[c])'
    BY DEF AnsweredRightly
  <2>2. Len(answers[c])' > Server!Sent(c)' => Server!IsBare(asked[c][Len(asked[c])])'
    <3> DEFINE k == Len(answers[c])
               p == Server!Sent(c)
               o == Server!Sent(c)'
    <3>1. k \in Nat /\ p \in Int /\ o \in Int /\ p <= o
      BY <1>1
    <3>2. k > p => Server!IsBare(asked[c][Len(asked[c])])
      BY DEF AnsweredRightly
    <3>3. k > o => k > p
      <4> HIDE DEF k, p, o
      <4> QED
        BY <3>1
    <3>4. Server!IsBare(asked[c][Len(asked[c])])' <=> Server!IsBare(asked[c][Len(asked[c])])
      BY DEF Server!IsBare, Server!ToSet
    <3> QED
      BY <3>2, <3>3, <3>4
  <2>3. \A q \in 1..Len(answers[c]) : /\ answers'[c][q].url = asked'[c][q].url
                                      /\ Server!IsBare(asked[c][q])' => q = Len(answers[c])'
                                      /\ Server!CloseConnection(asked[c][q])' => q = Len(answers[c])'
    BY <1>2, <1>3 DEF AnsweredRightly
  <2> QED
    BY <2>1, <2>2, <2>3 DEF AnsweredRightly
<1>5. ShutRightly(c)'
  BY <1>2, <1>3 DEF ShutRightly
<1> QED
  BY <1>4, <1>5 DEF AnswersKept

LEMMA SentFacts ==
  ASSUME HttpTypes, NEW c \in Conns
  PROVE  Server!Sent(c) \in Int /\ Server!Sent(c) <= Len(asked[c])
         /\ (todo[c] = <<>> => Server!Sent(c) = Len(asked[c]))
         /\ (todo[c] # <<>> => Server!Sent(c) = Len(asked[c]) - 1)
<1>1. Len(asked[c]) \in Nat
  BY ConnFacts
<1> DEFINE m == Len(asked[c])
<1>2. Server!Sent(c) = m - (IF todo[c] = <<>> THEN 0 ELSE 1) /\ m \in Nat
  BY <1>1 DEF Server!Sent
<1> HIDE DEF m
<1>3. CASE todo[c] = <<>>
  <2>1. Server!Sent(c) = m - 0
    BY <1>2, <1>3
  <2>2. Server!Sent(c) = m
    BY <1>2, <2>1
  <2> QED
    BY <1>2, <1>3, <2>2 DEF m
<1>4. CASE todo[c] # <<>>
  <2>1. Server!Sent(c) = m - 1
    BY <1>2, <1>4
  <2> QED
    BY <1>2, <1>4, <2>1 DEF m
<1> QED
  BY <1>3, <1>4

\* A connection the step has nothing to do with.
Untouched(c) ==
  /\ asked'[c] = asked[c] /\ todo'[c] = todo[c] /\ socket'[c] = socket[c] /\ input'[c] = input[c]
  /\ request'[c] = request[c] /\ answers'[c] = answers[c] /\ shut'[c] = shut[c]

LEMMA FlowKept ==
  ASSUME HttpTypes, HttpInv, NEW c \in Conns, Flow(c)' = Flow(c), asked'[c] = asked[c],
         request'[c] = request[c], answers'[c] = answers[c], fate' = "running" => fate = "running",
         input[c] # <<>> => input'[c] # <<>> /\ Head(input'[c]) = Head(input[c])
  PROVE  Advances(c)
<1>1. Len(answers[c]) <= Len(asked[c])
  BY DEF HttpInv, AnsweredRightly
<1>2. Len(asked[c]) \in Nat
  BY ConnFacts
<1>3. Len(asked[c])' \in Nat /\ Len(asked[c]) <= Len(asked[c])'
      /\ \A q \in 1..Len(asked[c]) : asked'[c][q] = asked[c][q]
  BY <1>2
<1>5. Derailed(c) => Derailed(c)'
  <2>1. Derailed(c) => input'[c] # <<>> /\ Head(input'[c]) = Head(input[c])
    BY DEF Derailed
  <2> QED
    BY <1>1, <1>3, <2>1, AskedStays
<1>6. OnTrack(c) => OnTrack(c)'
  <2> SUFFICES ASSUME OnTrack(c) PROVE OnTrack(c)'
    OBVIOUS
  <2>1. NoneBare(c)' /\ RequestInv(c)' /\ Parsed(c)' = Parsed(c)
    BY <1>1, <1>3, AskedStays DEF OnTrack
  <2>2. Carried(Flow(c), asked[c], Len(answers[c]), Parsed(c))
    BY DEF OnTrack
  <2>3. Carried(Flow(c)', asked'[c], Len(answers'[c]), Parsed(c)')
    BY <2>1, <2>2
  <2> QED
    BY <2>1, <2>3 DEF OnTrack, Carried, Carries, Size, Server!Text, Server!Status, Server!Header, Server!CRLF
<1> QED
  BY <1>5, <1>6 DEF Advances, HttpInv

LEMMA OthersLeftAlone ==
  ASSUME HttpTypes, HttpInv, NEW c \in Conns, Untouched(c),
         Server!FatalAsked => Server!FatalAsked', fate' = "running" => fate = "running"
  PROVE  Advances(c) /\ AnswersKept(c)
<1>1. Advances(c)
  BY FlowKept DEF Untouched, Flow
<1>2. Server!Sent(c) \in Int /\ Server!Sent(c)' \in Int /\ Server!Sent(c) <= Server!Sent(c)'
  <2>1. Server!Sent(c)' = Server!Sent(c)
    BY DEF Untouched, Server!Sent
  <2>2. Server!Sent(c) \in Int
    BY SentFacts
  <2> QED
    BY <2>1, <2>2
<1>3. AnswersKept(c)
  BY <1>2, AnswersLeft DEF HttpInv, Untouched
<1> QED
  BY <1>1, <1>3

\* Where the tokens are does not matter.
LEMMA Sending ==
  ASSUME NEW X, NEW s \in Seq(X), NEW t \in Seq(X), NEW n \in 1..Len(t)
  PROVE  (s \o SubSeq(t, 1, n)) \o LeftOf(t, n) = s \o t
<1> DEFINE p == SubSeq(t, 1, n)
           l == LeftOf(t, n)
<1>1. Len(t) \in Nat /\ n \in Nat /\ n <= Len(t)
  BY LenProperties
<1>2. p \in Seq(X) /\ Len(p) = n /\ \A k \in 1..n : p[k] = t[k]
  <2>1. \A k \in 1..n : t[k] \in X
    BY <1>1, ElementOfSeq
  <2>2. /\ p \in Seq(X)
        /\ Len(p) = IF 1 <= n THEN n - 1 + 1 ELSE 0
        /\ \A k \in 1..(n - 1 + 1) : p[k] = t[1 + k - 1]
    BY <1>1, <2>1, SubSeqProperties
  <2> QED
    BY <1>1, <2>2
<1>3. l \in Seq(X)
  BY <1>1, LeftOfFacts
<1>4. p \o l = t
  <2>1. p \o LeftOf(t, Len(p)) = t
    BY <1>1, <1>2, PartAndLeft
  <2> QED
    BY <1>2, <2>1
<1> HIDE DEF p, l
<1>5. (s \o p) \o l = s \o (p \o l)
  <2>1. IsSeq(X, s) /\ IsSeq(X, p) /\ IsSeq(X, l)
    BY <1>2, <1>3 DEF IsSeq
  <2>2. Join(Join(s, p), l) = Join(s, Join(p, l))
    BY <2>1, Joining
  <2> QED
    BY <2>2 DEF Join
<1> QED
  BY <1>4, <1>5 DEF p, l

LEMMA FatalStays ==
  ASSUME HttpTypes, NEW c \in Conns, NEW r \in SmallRequests,
         asked' = asked \/ asked' = [asked EXCEPT ![c] = Append(asked[c], r)]
  PROVE  Server!FatalAsked => Server!FatalAsked'
<1> SUFFICES ASSUME Server!FatalAsked PROVE Server!FatalAsked'
  OBVIOUS
<1>1. PICK d \in Conns : \E q \in DOMAIN asked[d] : Server!Fatal(asked[d][q]) \/ Server!AfterClose(d, q)
  BY DEF Server!FatalAsked
<1>2. PICK q \in DOMAIN asked[d] : Server!Fatal(asked[d][q]) \/ Server!AfterClose(d, q)
  BY <1>1
<1>a. asked[d] \in Seq(SmallRequests)
  BY DEF HttpTypes
<1>3. \A j \in DOMAIN asked[d] : j \in DOMAIN asked'[d] /\ asked'[d][j] = asked[d][j]
  <2>1. CASE asked'[d] = asked[d]
    BY <2>1
  <2>2. CASE asked'[d] = Append(asked[d], r)
    <3>2. /\ Append(asked[d], r) \in Seq(SmallRequests)
          /\ Len(Append(asked[d], r)) = Len(asked[d]) + 1 /\ Len(asked[d]) \in Nat
          /\ \A k \in 1..Len(asked[d]) : Append(asked[d], r)[k] = asked[d][k]
      BY <1>a, AppendProperties, LenProperties
    <3>3. DOMAIN asked[d] = 1..Len(asked[d]) /\ DOMAIN Append(asked[d], r) = 1..Len(Append(asked[d], r))
      BY <1>a, <3>2, LenProperties
    <3>4. \A j \in 1..Len(asked[d]) : j \in 1..Len(Append(asked[d], r))
      BY <3>2
    <3> QED
      BY <2>2, <3>2, <3>3, <3>4
  <2>3. asked'[d] = asked[d] \/ asked'[d] = Append(asked[d], r)
    BY DEF HttpTypes
  <2> QED
    BY <2>1, <2>2, <2>3
<1>4. Server!Fatal(asked'[d][q]) <=> Server!Fatal(asked[d][q])
  BY <1>3
<1>5. Server!AfterClose(d, q) => \E j \in 1..q - 1 : Server!CloseConnection(asked'[d][j])
  <2> SUFFICES ASSUME NEW j \in 1..q - 1, Server!CloseConnection(asked[d][j])
               PROVE  Server!CloseConnection(asked'[d][j])
    BY DEF Server!AfterClose
  <2>1. j \in DOMAIN asked[d]
    <3>1. q \in 1..Len(asked[d]) /\ Len(asked[d]) \in Nat /\ DOMAIN asked[d] = 1..Len(asked[d])
      BY <1>a, LenProperties
    <3> QED
      BY <3>1
  <2> QED
    BY <1>3, <2>1
<1>6. \E k \in DOMAIN asked'[d] : Server!Fatal(asked'[d][k])
                                \/ \E j \in 1..k - 1 : Server!CloseConnection(asked'[d][j])
  BY <1>2, <1>3, <1>4, <1>5
<1> QED
  BY <1>6 DEF Server!FatalAsked, Server!AfterClose, Server!Fatal, Server!IsBare, Server!ToSet,
              Server!NullCompared, Server!ConnectionHeader, Server!CloseConnection

LEMMA FatalSame ==
  ASSUME asked' = asked
  PROVE  Server!FatalAsked' <=> Server!FatalAsked
BY DEF Server!FatalAsked, Server!AfterClose, Server!Fatal, Server!IsBare, Server!ToSet, Server!NullCompared,
       Server!ConnectionHeader, Server!CloseConnection

LEMMA SendKeeps ==
  ASSUME HttpTypes, HttpInv, NEW c \in Conns, NEW n \in 1..Len(todo[c]), Server!Send(c, n)
  PROVE  Advances(c) /\ AnswersKept(c)
<1>1. /\ socket'[c] = socket[c] \o SubSeq(todo[c], 1, n)
      /\ todo'[c] = LeftOf(todo[c], n)
      /\ UNCHANGED <<asked, input, request, answers, shut, fate>>
  BY DEF Server!Send, Server!server, HttpTypes, LeftOf
<1>2. socket'[c] \o todo'[c] = socket[c] \o todo[c]
  <2>1. socket[c] \in Seq(Token) /\ todo[c] \in Seq(Token)
    BY DEF HttpTypes
  <2>2. (socket[c] \o SubSeq(todo[c], 1, n)) \o LeftOf(todo[c], n) = socket[c] \o todo[c]
    BY <2>1, Sending
  <2> QED
    BY <1>1, <2>2
<1>3. Flow(c)' = Flow(c)
  BY <1>1, <1>2 DEF Flow
<1>4. Advances(c)
  BY <1>1, <1>3, FlowKept
<1>5. Server!Sent(c) \in Int /\ Server!Sent(c)' \in Int /\ Server!Sent(c) <= Server!Sent(c)'
  <2> DEFINE m == Len(asked[c])
  <2>1. m \in Nat /\ todo[c] # <<>>
    <3>1. m \in Nat
      BY ConnFacts
    <3>2. Len(todo[c]) # 0
      <4>1. Len(todo[c]) \in Nat
        BY ConnFacts, LenProperties DEF IsSeq
      <4> QED
        BY <4>1
    <3>3. todo[c] # <<>>
      BY <3>2, EmptySeq
    <3> QED
      BY <3>1, <3>3
  <2>2. Server!Sent(c) = m - 1 /\ Server!Sent(c)' = m - (IF todo'[c] = <<>> THEN 0 ELSE 1)
    BY <1>1, <2>1 DEF Server!Sent
  <2> HIDE DEF m
  <2>3. CASE todo'[c] = <<>>
    BY <2>1, <2>2, <2>3
  <2>4. CASE todo'[c] # <<>>
    BY <2>1, <2>2, <2>4
  <2> QED
    BY <2>3, <2>4
<1>6. Server!FatalAsked => Server!FatalAsked'
  BY <1>1, FatalSame
<1>7. AnswersKept(c)
  BY <1>1, <1>5, <1>6, AnswersLeft DEF HttpInv
<1> QED
  BY <1>4, <1>7

LEMMA MessageKeeps ==
  ASSUME HttpTypes, HttpInv, NEW c \in Conns, Server!OnMessage(c)
  PROVE  Advances(c) /\ AnswersKept(c)
<1>1. /\ input'[c] = input[c] \o socket[c] /\ socket'[c] = <<>>
      /\ UNCHANGED <<asked, todo, request, answers, shut, fate>>
  BY DEF Server!OnMessage, Server!client, HttpTypes
<1>2. input[c] \in Seq(Token) /\ socket[c] \in Seq(Token) /\ todo[c] \in Seq(Token)
  BY DEF HttpTypes
<1>3. Flow(c)' = Flow(c)
  <2>1. Flow(c)' = (input[c] \o socket[c]) \o (<<>> \o todo[c])
    BY <1>1 DEF Flow
  <2>2. <<>> \o todo[c] = todo[c]
    BY <1>2, ConcatEmptySeq
  <2>3. (input[c] \o socket[c]) \o todo[c] = input[c] \o (socket[c] \o todo[c])
    <3>1. IsSeq(Token, input[c]) /\ IsSeq(Token, socket[c]) /\ IsSeq(Token, todo[c])
      BY <1>2 DEF IsSeq
    <3>2. Join(Join(input[c], socket[c]), todo[c]) = Join(input[c], Join(socket[c], todo[c]))
      BY <3>1, Joining
    <3> QED
      BY <3>2 DEF Join
  <2> QED
    BY <2>1, <2>2, <2>3 DEF Flow
<1>4. input[c] # <<>> => input'[c] # <<>> /\ Head(input'[c]) = Head(input[c])
  <2> SUFFICES ASSUME input[c] # <<>> PROVE input'[c] # <<>> /\ Head(input'[c]) = Head(input[c])
    OBVIOUS
  <2>1. input'[c] \in Seq(Token) /\ input'[c] # <<>> /\ input'[c][1] = Head(input[c])
    <3> DEFINE s == input[c]
               t == socket[c]
    <3>1. s \in Seq(Token) /\ t \in Seq(Token) /\ s # <<>> /\ input'[c] = s \o t
      BY <1>1, <1>2
    <3> HIDE DEF s, t
    <3>2. s \o t \in Seq(Token) /\ s \o t # <<>> /\ (s \o t)[1] = Head(s)
      BY <3>1, HeadOfFlow, ConcatFacts
    <3> QED
      BY <3>1, <3>2 DEF s
  <2>2. Head(input'[c]) = input'[c][1]
    BY <2>1, HeadTailProperties
  <2> QED
    BY <2>1, <2>2
<1>5. Advances(c)
  BY <1>1, <1>3, <1>4, FlowKept
<1>6. Server!Sent(c) \in Int /\ Server!Sent(c)' = Server!Sent(c)
  <2>1. Server!Sent(c) \in Int
    BY SentFacts
  <2>2. Server!Sent(c)' = Server!Sent(c)
    BY <1>1 DEF Server!Sent
  <2> QED
    BY <2>1, <2>2
<1>7. Server!FatalAsked => Server!FatalAsked'
  BY <1>1, FatalSame
<1>8. AnswersKept(c)
  <2>1. Server!Sent(c)' \in Int /\ Server!Sent(c) <= Server!Sent(c)'
    BY <1>6
  <2> QED
    BY <1>1, <1>6, <1>7, <2>1, AnswersLeft DEF HttpInv
<1> QED
  BY <1>5, <1>8

\* How much of a request is parsed.
LEMMA ParsedFacts ==
  ASSUME HttpTypes, NEW c \in Conns, RequestInv(c)
  PROVE  /\ Parsed(c) \in Nat
         /\ request[c].current_state = "STATUS" => Parsed(c) = 0 /\ request[c].headers = <<>>
         /\ request[c].current_state = "HEADERS" => Parsed(c) = 2 + 2 * Len(request[c].headers)
         /\ request[c].current_state = "DONE" => Parsed(c) = Size(Asked(c))
         /\ request[c].current_state # "STATUS" => Asked(c) \in SmallRequests
         /\ Len(answers[c]) < Len(asked[c]) => Asked(c) \in SmallRequests
<1>1. Len(answers[c]) < Len(asked[c]) => Asked(c) \in SmallRequests
  <2> DEFINE k == Len(answers[c])
             m == Len(asked[c])
  <2>1. k \in Nat /\ m \in Nat /\ \A q \in 1..m : asked[c][q] \in SmallRequests
    BY ConnFacts
  <2> HIDE DEF k, m
  <2>2. k < m => asked[c][k + 1] \in SmallRequests
    BY <2>1
  <2> QED
    BY <2>2 DEF k, m, Asked
<1>2. request[c].current_state # "STATUS" => Asked(c) \in SmallRequests
  BY <1>1 DEF RequestInv
<1>3. \A r \in SmallRequests : Size(r) \in Nat
  <2> SUFFICES ASSUME NEW r \in SmallRequests PROVE Size(r) \in Nat
    OBVIOUS
  <2> QED
    BY TextFacts, LenProperties DEF Size
<1>4. Len(request[c].headers) \in Nat /\ request[c].current_state \in {"STATUS", "HEADERS", "DONE"}
  BY ConnFacts DEF Parsers
<1>5. CASE request[c].current_state = "STATUS"
  BY <1>1, <1>5 DEF Parsed, RequestInv, Server!NewRequest
<1>6. CASE request[c].current_state = "HEADERS"
  <2>1. 2 + 2 * Len(request[c].headers) \in Nat
    BY <1>4
  <2>2. Parsed(c) = 2 + 2 * Len(request[c].headers)
    BY <1>6 DEF Parsed
  <2> QED
    BY <1>1, <1>2, <1>6, <2>1, <2>2
<1>7. CASE request[c].current_state = "DONE"
  <2>1. Parsed(c) = Size(Asked(c))
    BY <1>7 DEF Parsed
  <2> QED
    BY <1>1, <1>2, <1>3, <1>7, <2>1
<1> QED
  BY <1>4, <1>5, <1>6, <1>7

\* The parser finds what the client asked.
LEMMA NextToken ==
  ASSUME HttpTypes, NEW c \in Conns, OnTrack(c), Len(answers[c]) <= Len(asked[c]), Server!HasLine(c),
         request[c].current_state # "DONE"
  PROVE  /\ Len(answers[c]) < Len(asked[c]) /\ Asked(c) \in SmallRequests
         /\ Head(input[c]) = Server!Text(Asked(c))[Parsed(c) + 1]
<1> DEFINE k == Len(answers[c])
           m == Len(asked[c])
<1>1. k \in Nat /\ m \in Nat /\ k <= m /\ IsSeq(Token, Flow(c)) /\ IsSeq(SmallRequests, asked[c])
  BY ConnFacts
<1>2. Flow(c) # <<>> /\ Flow(c)[1] = Head(input[c])
  BY LineAhead
<1>3. Carried(Flow(c), asked[c], k, Parsed(c)) /\ RequestInv(c)
  BY DEF OnTrack
<1>4. Parsed(c) \in Nat
  BY <1>3, ParsedFacts
<1>5. k < m
  <2> SUFFICES ASSUME k = m PROVE FALSE
    <3> HIDE DEF k, m
    <3> QED
      BY <1>1
  <2>1. Carried(Flow(c), asked[c], m, Parsed(c))
    BY <1>3
  <2> QED
    BY <1>1, <1>2, <1>4, <2>1, CarriedLast
<1>6. Asked(c) \in SmallRequests
  BY <1>3, <1>5, ParsedFacts
<1>7. Parsed(c) < Size(Asked(c))
  <2> DEFINE h == Len(request[c].headers)
             o == Len(Asked(c).headers)
  <2>1. o \in Nat /\ h \in Nat
    BY <1>6, RequestFacts, ConnFacts
  <2>2. Size(Asked(c)) = 2 * o + 3
    BY <1>6, TextFacts DEF Size
  <2>3. Parsed(c) = 0 \/ (Parsed(c) = 2 + 2 * h /\ h <= o)
    <3>1. request[c].current_state = "STATUS" \/ request[c].current_state = "HEADERS"
      BY ConnFacts DEF Parsers
    <3> QED
      BY <1>3, <3>1, ParsedFacts DEF RequestInv
  <2> HIDE DEF h, o
  <2> QED
    BY <2>1, <2>2, <2>3
<1>8. Flow(c)[1] = Server!Text(Asked(c))[Parsed(c) + 1]
  <2> DEFINE F == Flow(c)
             A == asked[c]
             p == Parsed(c)
  <2>1. IsSeq(Token, F) /\ IsSeq(SmallRequests, A) /\ k \in Nat /\ p \in Nat /\ Carried(F, A, k, p)
    BY <1>1, <1>3, <1>4
  <2>2. k < Len(A) /\ p < Size(A[k + 1]) /\ Asked(c) = A[k + 1]
    BY <1>5, <1>7 DEF Asked
  <2> HIDE DEF F, A, p, k
  <2>3. F[1] = Server!Text(A[k + 1])[p + 1]
    BY <2>1, <2>2, CarriedHead
  <2> QED
    BY <2>2, <2>3 DEF F, p
<1> QED
  BY <1>2, <1>5, <1>6, <1>8

LEMMA AskKeeps ==
  ASSUME HttpTypes, HttpInv, NEW c \in Conns, NEW r \in SmallRequests, Server!Ask(c, r),
         Server!FatalAsked => Server!FatalAsked'
  PROVE  Advances(c) /\ AnswersKept(c)
<1>1. /\ todo[c] = <<>> /\ todo'[c] = Server!Text(r) /\ asked'[c] = Append(asked[c], r)
      /\ UNCHANGED <<input, socket, request, answers, shut, fate>>
  <2>1. /\ todo[c] = <<>>
        /\ asked' = [asked EXCEPT ![c] = Append(@, r)]
        /\ todo' = [todo EXCEPT ![c] = Server!Text(r)]
        /\ UNCHANGED <<socket, Server!server, cut, piled>>
    BY DEF Server!Ask
  <2> QED
    BY <2>1 DEF HttpTypes, Server!server
<1> DEFINE k == Len(answers[c])
           m == Len(asked[c])
<1>2. k \in Nat /\ m \in Nat /\ k <= m
  BY ConnFacts DEF HttpInv, AnsweredRightly
<1>3. /\ Len(asked'[c]) = m + 1 /\ asked'[c][m + 1] = r
      /\ \A q \in 1..m : asked'[c][q] = asked[c][q]
  <2>1. asked[c] \in Seq(SmallRequests)
    BY DEF HttpTypes
  <2> QED
    BY <1>1, <2>1, AppendProperties
<1>4. /\ Len(answers[c]) <= Len(asked[c]) /\ Len(asked[c])' \in Nat /\ Len(asked[c]) <= Len(asked[c])'
      /\ \A q \in 1..Len(asked[c]) : asked'[c][q] = asked[c][q]
  <2> HIDE DEF k, m
  <2>1. k <= m /\ Len(asked'[c]) \in Nat /\ m <= Len(asked'[c])
    BY <1>2, <1>3
  <2> QED
    BY <1>3, <2>1 DEF k, m
<1>5. Flow(c)' = Flow(c) \o Server!Text(r)
  <2>1. IsSeq(Token, input[c]) /\ IsSeq(Token, socket[c]) /\ IsSeq(Token, Server!Text(r))
    BY ConnFacts, TextFacts DEF IsSeq
  <2>2. socket[c] \o <<>> = socket[c]
    BY <2>1, ConcatEmptySeq DEF IsSeq
  <2>3. Join(Join(input[c], socket[c]), Server!Text(r)) = Join(input[c], Join(socket[c], Server!Text(r)))
    BY <2>1, Joining
  <2>4. Flow(c) = input[c] \o socket[c] /\ Flow(c)' = input[c] \o (socket[c] \o Server!Text(r))
    BY <1>1, <2>2 DEF Flow
  <2> QED
    BY <2>3, <2>4 DEF Join
<1>6. OnTrack(c) => OnTrack(c)'
  <2> SUFFICES ASSUME OnTrack(c) PROVE OnTrack(c)'
    OBVIOUS
  <2>1. NoneBare(c)' /\ RequestInv(c)' /\ Parsed(c)' = Parsed(c)
    BY <1>1, <1>4, AskedStays DEF OnTrack
  <2>2. Parsed(c) \in Nat
    BY ParsedFacts DEF OnTrack
  <2>3. Carried(Flow(c), asked[c], k, Parsed(c))
    BY DEF OnTrack
  <2>4. IsSeq(Token, Flow(c)) /\ IsSeq(SmallRequests, asked[c])
    BY ConnFacts
  <2>5. Carried(Flow(c) \o Server!Text(r), Append(asked[c], r), k, Parsed(c))
    BY <1>2, <2>2, <2>3, <2>4, CarriedMore
  <2>6. Carried(Flow(c)', asked'[c], Len(answers'[c]), Parsed(c)')
    BY <1>1, <1>5, <2>1, <2>5
  <2> QED
    BY <2>1, <2>6 DEF OnTrack, Carried, Carries, Size, Server!Text, Server!Status, Server!Header, Server!CRLF
<1>7. Derailed(c) => Derailed(c)'
  <2>1. Derailed(c) => input'[c] # <<>> /\ Head(input'[c]) = Head(input[c])
    BY <1>1 DEF Derailed
  <2> QED
    BY <1>1, <1>4, <2>1, AskedStays
<1>8. Advances(c)
  BY <1>1, <1>6, <1>7 DEF Advances, HttpInv
<1>9. \A q \in 1..k : q \in 1..m /\ asked'[c][q] = asked[c][q]
  <2> HIDE DEF k, m
  <2> QED
    BY <1>2, <1>3
<1>10. AnsweredRightly(c)'
  <2>1. Server!Sent(c)' = m
    <3>1. Server!Text(r) # <<>>
      <4>1. Len(Server!Text(r)) # 0
        BY TextFacts
      <4> QED
        BY <4>1, EmptySeq
    <3>2. Server!Sent(c)' = Len(asked'[c]) - 1
      BY <1>1, <3>1 DEF Server!Sent
    <3> HIDE DEF m
    <3> QED
      BY <1>2, <1>3, <3>2
  <2>2. ~(k > Server!Sent(c)') /\ k <= Len(asked'[c])
    <3> HIDE DEF k, m
    <3> QED
      BY <1>2, <1>3, <2>1
  <2>3. \A q \in 1..k : /\ answers'[c][q].url = asked'[c][q].url
                        /\ Server!IsBare(asked[c][q])' => q = k
    BY <1>1, <1>9 DEF HttpInv, AnsweredRightly, Server!IsBare, Server!ToSet
  <2>4. \A q \in 1..k : Server!CloseConnection(asked[c][q])' => q = k
    BY <1>1, <1>9 DEF HttpInv, AnsweredRightly, Server!CloseConnection, Server!ConnectionHeader
  <2> QED
    BY <1>1, <2>2, <2>3, <2>4 DEF AnsweredRightly
<1>11. ShutRightly(c)'
  <2>1. \A q \in 1..k : Server!CloseConnection(asked[c][q])' <=> Server!CloseConnection(asked[c][q])
    BY <1>9 DEF Server!CloseConnection, Server!ConnectionHeader
  <2>2. \A q \in 1..k : Server!IsBare(asked[c][q])' <=> Server!IsBare(asked[c][q])
    BY <1>9 DEF Server!IsBare, Server!ToSet
  <2> QED
    BY <1>1, <2>1, <2>2 DEF HttpInv, ShutRightly
<1> QED
  BY <1>8, <1>10, <1>11 DEF AnswersKept

\* What the parser leaves alone.
Parses(c) ==
  /\ UNCHANGED <<asked, todo, socket, answers, shut>>
  /\ fate = "running" /\ turn = c

LEMMA ParsingAnswers ==
  ASSUME HttpTypes, HttpInv, NEW c \in Conns, Parses(c)
  PROVE  AnswersKept(c)
<1>1. Server!Sent(c) \in Int
  BY SentFacts
<1>2. Server!Sent(c)' = Server!Sent(c)
  BY DEF Parses, Server!Sent
<1>3. Server!Sent(c)' \in Int /\ Server!Sent(c) <= Server!Sent(c)'
  BY <1>1, <1>2
<1>4. Server!FatalAsked => Server!FatalAsked'
  BY FatalSame DEF Parses
<1> QED
  BY <1>1, <1>3, <1>4, AnswersLeft DEF Parses, HttpInv

LEMMA OneIsFatal ==
  ASSUME HttpTypes, NEW c \in Conns, NEW q \in 1..Len(asked[c]), Server!Fatal(asked[c][q])
  PROVE  Server!FatalAsked
<1>1. asked[c] \in Seq(SmallRequests)
  BY DEF HttpTypes
<1>2. q \in DOMAIN asked[c]
  BY <1>1, LenProperties
<1> QED
  BY <1>2 DEF Server!FatalAsked

LEMMA LaterIsFatal ==
  ASSUME HttpTypes, NEW c \in Conns, NEW q \in 1..Len(asked[c]), NEW j \in 1..q - 1,
         Server!CloseConnection(asked[c][j])
  PROVE  Server!FatalAsked
<1>1. asked[c] \in Seq(SmallRequests)
  BY DEF HttpTypes
<1>2. q \in DOMAIN asked[c]
  BY <1>1, LenProperties
<1> QED
  BY <1>2 DEF Server!FatalAsked, Server!AfterClose

\* The request under way is one of those asked.
LEMMA AskedIsFatal ==
  ASSUME HttpTypes, NEW c \in Conns, Len(answers[c]) < Len(asked[c]), Server!Fatal(Asked(c))
  PROVE  Server!FatalAsked
<1> DEFINE k == Len(answers[c])
           m == Len(asked[c])
<1>1. k \in Nat /\ m \in Nat /\ k < m
  BY ConnFacts
<1>2. k + 1 \in 1..m
  <2> HIDE DEF k, m
  <2> QED
    BY <1>1
<1> QED
  BY <1>2, OneIsFatal DEF Asked

LEMMA TrackAdvanced ==
  ASSUME HttpTypes, NEW c \in Conns, Parses(c), NEW p \in Nat, NEW d \in Nat, d <= Len(input[c]),
         Carried(Flow(c), asked[c], Len(answers[c]), p), input'[c] = LeftOf(input[c], d),
         Parsed(c)' = p + d, NoneBare(c), RequestInv(c)'
  PROVE  OnTrack(c)'
<1>1. IsSeq(Token, Flow(c)) /\ IsSeq(SmallRequests, asked[c]) /\ Len(answers[c]) \in Nat
  BY ConnFacts
<1>2. Flow(c)' = LeftOf(Flow(c), d) /\ d <= Len(Flow(c))
  BY FlowConsumed DEF Parses
<1>3. Carried(LeftOf(Flow(c), d), asked[c], Len(answers[c]), p + d)
  BY <1>1, <1>2, CarriedOn
<1>4. Carried(Flow(c)', asked'[c], Len(answers'[c]), Parsed(c)')
  BY <1>2, <1>3 DEF Parses
<1>5. NoneBare(c)'
  BY DEF NoneBare, Parses, Server!IsBare, Server!ToSet
<1> QED
  BY <1>4, <1>5 DEF OnTrack, Carried, Carries, Size, Server!Text, Server!Status, Server!Header, Server!CRLF

LEMMA StatusKeeps ==
  ASSUME HttpTypes, HttpInv, NEW c \in Conns, Server!ProcessStatusLine(c)
  PROVE  Advances(c) /\ AnswersKept(c) /\ (fate' # "running" => Server!FatalAsked)
<1>1. /\ Parses(c) /\ request[c].current_state = "STATUS" /\ Server!HasLine(c)
      /\ Head(input[c]).kind = "status" /\ input'[c] = LeftOf(input[c], 2)
  BY DEF Server!ProcessStatusLine, Server!Parsing, Server!client, Parses, HttpTypes, Server!Consume, LeftOf
<1>2. request'[c] = [request[c] EXCEPT !.url = Head(input[c]).url, !.version = Head(input[c]).version,
                                       !.current_state = "HEADERS"]
  BY DEF Server!ProcessStatusLine, HttpTypes
<1>3. OnTrack(c) /\ Len(answers[c]) <= Len(asked[c])
  <2>1. ~Derailed(c)
    BY <1>1, TokenFacts DEF Derailed
  <2> QED
    BY <1>1, <2>1 DEF HttpInv, Parses, AnsweredRightly
<1>4. RequestInv(c) /\ NoneBare(c) /\ Carried(Flow(c), asked[c], Len(answers[c]), Parsed(c))
  BY <1>3 DEF OnTrack
<1>5. Parsed(c) = 0 /\ request[c].headers = <<>>
  BY <1>1, <1>4, ParsedFacts
<1>6. /\ Len(answers[c]) < Len(asked[c]) /\ Asked(c) \in SmallRequests
      /\ Head(input[c]) = Server!Text(Asked(c))[0 + 1]
  BY <1>1, <1>3, <1>5, NextToken
<1>7. Head(input[c]) = Server!Status(Asked(c))
  BY <1>6, TextFacts
<1>8. /\ request'[c].url = Asked(c).url /\ request'[c].version = Asked(c).version
      /\ request'[c].current_state = "HEADERS" /\ request'[c].headers = <<>>
  BY <1>2, <1>5, <1>6, <1>7, TokenFacts, ConnFacts DEF Parsers
<1>9. Asked(c)' = Asked(c)
  BY <1>1 DEF Asked, Parses
<1>10. RequestInv(c)'
  <2>1. Len(<<>>) = 0 /\ Len(Asked(c).headers) \in Nat
    BY <1>6, RequestFacts
  <2>2. 0 <= Len(Asked(c).headers)
    BY <2>1
  <2>3. \A j \in 1..Len(request'[c].headers) : FALSE
    BY <1>8, <2>1
  <2>4. Len(answers'[c]) < Len(asked'[c]) /\ Len(request'[c].headers) <= Len(Asked(c)'.headers)
    BY <1>1, <1>6, <1>8, <1>9, <2>1, <2>2 DEF Parses
  <2> QED
    BY <1>8, <1>9, <2>3, <2>4 DEF RequestInv
<1>11. Parsed(c)' = 0 + 2
  <2>1. Len(request'[c].headers) = 0
    BY <1>8
  <2>2. Parsed(c)' = 2 + 2 * Len(request'[c].headers)
    BY <1>8 DEF Parsed
  <2> QED
    BY <2>1, <2>2
<1>12. 2 <= Len(input[c])
  <2>1. Head(input[c]) # Server!CRLF
    BY <1>7, TokenFacts, <1>6
  <2> QED
    BY <1>1, <2>1, LineAhead
<1>13. OnTrack(c)'
  BY <1>1, <1>4, <1>5, <1>10, <1>11, <1>12, TrackAdvanced
<1>14. AnswersKept(c)
  BY <1>1, ParsingAnswers
<1>15. ASSUME fate' # "running" PROVE Server!FatalAsked
  <2>1. Head(input[c]).tight
    BY <1>15 DEF Server!ProcessStatusLine
  <2>2. Server!Fatal(Asked(c))
    BY <1>6, <1>7, <2>1, TokenFacts DEF Server!Fatal
  <2> QED
    BY <1>6, <2>2, AskedIsFatal
<1> QED
  BY <1>13, <1>14, <1>15 DEF Advances

\* A status line is missed only after a header without blank.
LEMMA NoStatusKeeps ==
  ASSUME HttpTypes, HttpInv, NEW c \in Conns, Server!NoStatusLine(c)
  PROVE  Advances(c) /\ AnswersKept(c) /\ Server!FatalAsked
<1>1. /\ Parses(c) /\ request[c].current_state = "STATUS" /\ Server!HasLine(c)
      /\ Head(input[c]).kind # "status" /\ fate' = "assertion"
  BY DEF Server!NoStatusLine, Server!Parsing, Server!client, Parses
<1>2. Len(answers[c]) <= Len(asked[c])
  BY DEF HttpInv, AnsweredRightly
<1>3. ~OnTrack(c)
  <2> SUFFICES ASSUME OnTrack(c) PROVE FALSE
    OBVIOUS
  <2>1. Parsed(c) = 0
    BY <1>1, ParsedFacts DEF OnTrack
  <2>2. Asked(c) \in SmallRequests /\ Head(input[c]) = Server!Text(Asked(c))[0 + 1]
    BY <1>1, <1>2, <2>1, NextToken
  <2>3. Head(input[c]) = Server!Status(Asked(c))
    BY <2>2, TextFacts
  <2> QED
    BY <1>1, <2>2, <2>3, TokenFacts
<1>4. Len(answers[c]) \in 1..Len(asked[c]) /\ Server!IsBare(asked[c][Len(answers[c])])
  BY <1>1, <1>3 DEF HttpInv, Parses, Derailed
<1>5. Server!FatalAsked
  BY <1>4, OneIsFatal DEF Server!Fatal
<1>6. AnswersKept(c)
  BY <1>1, ParsingAnswers
<1> QED
  BY <1>1, <1>5, <1>6 DEF Advances

\* While headers are parsed, the next line is the next header, or the end of the request.
LEMMA NextLine ==
  ASSUME HttpTypes, HttpInv, NEW c \in Conns, Parses(c), request[c].current_state = "HEADERS",
         Server!HasLine(c)
  PROVE  LET h == Len(request[c].headers)
             o == Len(Asked(c).headers)
         IN  /\ OnTrack(c) /\ Len(answers[c]) < Len(asked[c]) /\ Asked(c) \in SmallRequests
             /\ Parsed(c) = 2 + 2 * h /\ h \in Nat /\ o \in Nat /\ h <= o
             /\ h < o => Head(input[c]) = Server!Header(Asked(c).headers[h + 1]) /\ 2 <= Len(input[c])
             /\ h = o => Head(input[c]) = Server!CRLF
<1> DEFINE h == Len(request[c].headers)
           o == Len(Asked(c).headers)
<1>1. OnTrack(c) /\ Len(answers[c]) <= Len(asked[c])
  <2>1. ~Derailed(c)
    BY DEF Derailed
  <2> QED
    BY <2>1 DEF HttpInv, Parses, AnsweredRightly
<1>2. RequestInv(c) /\ Parsed(c) = 2 + 2 * h
  BY <1>1, ParsedFacts DEF OnTrack
<1>3. Len(answers[c]) < Len(asked[c]) /\ Asked(c) \in SmallRequests
      /\ Head(input[c]) = Server!Text(Asked(c))[2 + 2 * h + 1]
  BY <1>1, <1>2, NextToken
<1>4. h \in Nat /\ o \in Nat /\ h <= o
  BY <1>2, <1>3, ConnFacts, RequestFacts DEF RequestInv
<1>5. ASSUME h < o PROVE Head(input[c]) = Server!Header(Asked(c).headers[h + 1]) /\ 2 <= Len(input[c])
  <2>1. h + 1 \in 1..o /\ 2 + 2 * h + 1 = 2 * (h + 1) + 1
    <3> HIDE DEF h, o
    <3> QED
      BY <1>4, <1>5
  <2>2. Server!Text(Asked(c))[2 * (h + 1) + 1] = Server!Header(Asked(c).headers[h + 1])
    BY <1>3, <2>1, TextFacts
  <2>3. Head(input[c]) = Server!Header(Asked(c).headers[h + 1])
    BY <1>3, <2>1, <2>2
  <2>4. Head(input[c]) # Server!CRLF
    BY <2>3, TokenFacts
  <2> QED
    BY <2>3, <2>4, LineAhead
<1>6. ASSUME h = o PROVE Head(input[c]) = Server!CRLF
  <2>1. 2 + 2 * h + 1 = 2 * o + 3
    <3> HIDE DEF h, o
    <3> QED
      BY <1>4, <1>6
  <2>2. Server!Text(Asked(c))[2 * o + 3] = Server!CRLF
    BY <1>3, TextFacts
  <2> QED
    BY <1>3, <2>1, <2>2
<1> QED
  BY <1>1, <1>2, <1>3, <1>4, <1>5, <1>6

LEMMA HeaderKeeps ==
  ASSUME HttpTypes, HttpInv, NEW c \in Conns, Server!AddHeader(c)
  PROVE  Advances(c) /\ AnswersKept(c) /\ (fate' # "running" => Server!FatalAsked)
<1> DEFINE h == Len(request[c].headers)
           o == Len(Asked(c).headers)
<1>1. /\ Parses(c) /\ request[c].current_state = "HEADERS" /\ Server!HasLine(c)
      /\ Server!IsHeader(Head(input[c])) /\ input'[c] = LeftOf(input[c], 2)
  BY DEF Server!AddHeader, Server!Parsing, Server!client, Parses, HttpTypes, Server!Consume, LeftOf
<1>2. /\ OnTrack(c) /\ Len(answers[c]) < Len(asked[c]) /\ Asked(c) \in SmallRequests
      /\ Parsed(c) = 2 + 2 * h /\ h \in Nat /\ o \in Nat /\ h <= o
      /\ h < o => Head(input[c]) = Server!Header(Asked(c).headers[h + 1]) /\ 2 <= Len(input[c])
      /\ h = o => Head(input[c]) = Server!CRLF
  BY <1>1, NextLine
<1>3. h < o
  <2>1. h # o
    BY <1>1, <1>2, TokenFacts DEF Server!IsHeader
  <2> HIDE DEF h, o
  <2> QED
    BY <1>2, <2>1
<1>4. /\ Head(input[c]).field = Asked(c).headers[h + 1] /\ Asked(c).headers[h + 1] # "bare"
      /\ Asked(c).headers[h + 1] \in Fields
  <2>1. Head(input[c]).field = Asked(c).headers[h + 1] /\ Asked(c).headers[h + 1] # "bare"
    BY <1>1, <1>2, <1>3, TokenFacts DEF Server!IsHeader
  <2>2. Asked(c).headers \in Seq(Fields)
    BY <1>2, RequestFacts
  <2>3. h + 1 \in 1..o
    <3> HIDE DEF h, o
    <3> QED
      BY <1>2, <1>3
  <2> QED
    BY <2>1, <2>2, <2>3, ElementOfSeq
<1>5. AnswersKept(c)
  BY <1>1, ParsingAnswers
<1>6. CASE h < Room
  <2>1. /\ request' = [request EXCEPT ![c].headers = Append(@, Head(input[c]).field)]
        /\ fate' = fate
    BY <1>6 DEF Server!AddHeader
  <2>2. request[c] \in Parsers
    BY ConnFacts
  <2>3. /\ request'[c].url = request[c].url /\ request'[c].version = request[c].version
        /\ request'[c].current_state = "HEADERS"
        /\ request'[c].headers = Append(request[c].headers, Asked(c).headers[h + 1])
    BY <1>1, <1>4, <2>1, <2>2 DEF HttpTypes, Parsers
  <2>4. /\ Len(request'[c].headers) = h + 1
        /\ \A j \in 1..h : request'[c].headers[j] = request[c].headers[j]
        /\ request'[c].headers[h + 1] = Asked(c).headers[h + 1]
    <3>1. request[c].headers \in Seq(Fields)
      BY <2>2 DEF Parsers
    <3> QED
      BY <1>4, <2>3, <3>1, AppendProperties
  <2>5. Asked(c)' = Asked(c)
    BY <1>1 DEF Asked, Parses
  <2>6. RequestInv(c)'
    <3>1. RequestInv(c)
      BY <1>2 DEF OnTrack
    <3>2. \A j \in 1..(h + 1) : /\ request'[c].headers[j] = Asked(c).headers[j]
                                /\ request'[c].headers[j] # "bare"
      <4>1. \A j \in 1..h : request'[c].headers[j] = Asked(c).headers[j] /\ request'[c].headers[j] # "bare"
        BY <1>1, <2>4, <3>1 DEF RequestInv
      <4>2. \A j \in 1..(h + 1) : j \in 1..h \/ j = h + 1
        <5> HIDE DEF h
        <5> QED
          BY <1>2
      <4> QED
        BY <1>4, <2>4, <4>1, <4>2
    <3>3. h + 1 <= o
      <4> HIDE DEF h, o
      <4> QED
        BY <1>2, <1>3
    <3>4. Len(answers'[c]) < Len(asked'[c])
      BY <1>1, <1>2 DEF Parses
    <3>5. request'[c].url = Asked(c).url /\ request'[c].version = Asked(c).version
      BY <1>1, <2>3, <3>1 DEF RequestInv
    <3> QED
      BY <2>3, <2>4, <2>5, <3>2, <3>3, <3>4, <3>5 DEF RequestInv
  <2>7. Parsed(c)' = Parsed(c) + 2
    <3>1. Parsed(c)' = 2 + 2 * Len(request'[c].headers)
      BY <2>3 DEF Parsed
    <3>2. 2 + 2 * (h + 1) = 2 + 2 * h + 2
      <4> HIDE DEF h
      <4> QED
        BY <1>2
    <3> QED
      BY <1>2, <2>4, <3>1, <3>2
  <2>8. Parsed(c) \in Nat /\ 2 <= Len(input[c]) /\ NoneBare(c)
        /\ Carried(Flow(c), asked[c], Len(answers[c]), Parsed(c))
    BY <1>2, <1>3, ParsedFacts DEF OnTrack
  <2>9. OnTrack(c)'
    BY <1>1, <2>6, <2>7, <2>8, TrackAdvanced
  <2> QED
    BY <1>1, <1>5, <2>1, <2>9 DEF Advances, Parses
<1>7. CASE ~(h < Room)
  <2>1. fate' = "overrun"
    BY <1>7 DEF Server!AddHeader
  <2>2. o > Room
    <3> HIDE DEF h, o
    <3> QED
      BY <1>2, <1>3, <1>7, HttpAssumption
  <2>3. Server!FatalAsked
    BY <1>2, <2>2, AskedIsFatal DEF Server!Fatal
  <2> QED
    BY <1>5, <2>1, <2>3 DEF Advances
<1> QED
  BY <1>6, <1>7

\* The end of the request, or a header without blank that is taken for it.
LEMMA LastLineKeeps ==
  ASSUME HttpTypes, HttpInv, NEW c \in Conns, Server!LastLine(c)
  PROVE  Advances(c) /\ AnswersKept(c)
<1> DEFINE h == Len(request[c].headers)
           o == Len(Asked(c).headers)
<1>1. /\ Parses(c) /\ request[c].current_state = "HEADERS" /\ Server!HasLine(c)
      /\ ~Server!IsHeader(Head(input[c]))
      /\ input'[c] = (IF Head(input[c]) = Server!CRLF THEN <<>> ELSE <<Server!Rest>>) \o Tail(input[c])
  BY DEF Server!LastLine, Server!Parsing, Server!client, Parses, HttpTypes, Server!Skipped
<1>2. /\ OnTrack(c) /\ Len(answers[c]) < Len(asked[c]) /\ Asked(c) \in SmallRequests
      /\ Parsed(c) = 2 + 2 * h /\ h \in Nat /\ o \in Nat /\ h <= o
      /\ h < o => Head(input[c]) = Server!Header(Asked(c).headers[h + 1]) /\ 2 <= Len(input[c])
      /\ h = o => Head(input[c]) = Server!CRLF
  BY <1>1, NextLine
<1>3. AnswersKept(c)
  BY <1>1, ParsingAnswers
<1>4. /\ request'[c].url = request[c].url /\ request'[c].version = request[c].version
      /\ request'[c].current_state = "DONE" /\ request'[c].headers = request[c].headers
  <2>1. request' = [request EXCEPT ![c].current_state = "DONE"]
    BY DEF Server!LastLine
  <2>2. request[c] \in Parsers
    BY ConnFacts
  <2> QED
    BY <2>1, <2>2 DEF HttpTypes, Parsers
<1>5. RequestInv(c) /\ NoneBare(c) /\ Carried(Flow(c), asked[c], Len(answers[c]), Parsed(c))
  BY <1>2 DEF OnTrack
<1>6. Asked(c)' = Asked(c)
  BY <1>1 DEF Asked, Parses
<1>7. Len(answers'[c]) < Len(asked'[c]) /\ request'[c].url = Asked(c).url
      /\ request'[c].version = Asked(c).version
  BY <1>1, <1>2, <1>4, <1>5 DEF Parses, RequestInv
<1>8. input[c] \in Seq(Token) /\ input[c] # <<>> /\ 1 <= Len(input[c])
  BY <1>1, LineAhead DEF HttpTypes
<1>9. CASE h = o
  <2>1. input'[c] = LeftOf(input[c], 1)
    <3>1. Tail(input[c]) \in Seq(Token)
      BY <1>8, HeadTailProperties
    <3>2. input'[c] = <<>> \o Tail(input[c])
      BY <1>1, <1>2, <1>9
    <3>3. input'[c] = Tail(input[c])
      BY <3>1, <3>2, ConcatEmptySeq
    <3>4. Tail(input[c]) = SubSeq(input[c], 1 + 1, Len(input[c]))
      BY <1>8, TailIsSubSeq
    <3> QED
      BY <3>3, <3>4 DEF LeftOf
  <2>2. RequestInv(c)'
    BY <1>1, <1>4, <1>5, <1>6, <1>7, <1>9 DEF RequestInv
  <2>3. Parsed(c)' = Parsed(c) + 1
    <3>1. Size(Asked(c))' = Size(Asked(c))
      BY <1>6 DEF Size, Server!Text, Server!Status, Server!Header, Server!CRLF
    <3>2. Parsed(c)' = Size(Asked(c))
      BY <1>4, <3>1 DEF Parsed
    <3>3. Size(Asked(c)) = 2 * o + 3
      BY <1>2, TextFacts DEF Size
    <3> HIDE DEF h, o
    <3>4. 2 * o + 3 = 2 + 2 * h + 1
      BY <1>2, <1>9
    <3> QED
      BY <1>2, <3>2, <3>3, <3>4
  <2>4. Parsed(c) \in Nat
    BY <1>5, ParsedFacts
  <2>5. OnTrack(c)'
    BY <1>1, <1>5, <1>8, <2>1, <2>2, <2>3, <2>4, TrackAdvanced
  <2> QED
    BY <1>3, <2>5 DEF Advances
<1>10. CASE h < o
  <2>1. Head(input[c]) = Server!Header(Asked(c).headers[h + 1])
    BY <1>2, <1>10
  <2>2. Asked(c).headers[h + 1] = "bare"
    BY <1>1, <2>1, TokenFacts DEF Server!IsHeader
  <2>3. Server!IsBare(Asked(c))
    <3>1. Asked(c).headers \in Seq(Fields)
      BY <1>2, RequestFacts
    <3>2. h + 1 \in 1..o
      <4> HIDE DEF h, o
      <4> QED
        BY <1>2, <1>10
    <3>3. h + 1 \in DOMAIN Asked(c).headers
      BY <3>1, <3>2, LenProperties
    <3> QED
      BY <2>2, <3>3 DEF Server!IsBare, Server!ToSet
  <2>4. Server!IsBare(Asked(c))'
    BY <1>6, <2>3 DEF Server!IsBare, Server!ToSet
  <2>5. input'[c] # <<>> /\ Head(input'[c]) = Server!Rest
    <3> DEFINE s == <<Server!Rest>>
               t == Tail(input[c])
    <3>1. s \in Seq(Token) /\ t \in Seq(Token) /\ s # <<>> /\ Head(s) = Server!Rest
      <4>1. t \in Seq(Token)
        BY <1>8, HeadTailProperties
      <4>2. Server!Rest \in Token
        BY DEF Token
      <4> HIDE DEF t
      <4> QED
        BY <4>1, <4>2
    <3>2. input'[c] = s \o t
      <4>1. Head(input[c]) # Server!CRLF
        BY <2>1, TokenFacts
      <4> QED
        BY <1>1, <4>1
    <3> HIDE DEF s, t
    <3>3. s \o t \in Seq(Token) /\ s \o t # <<>> /\ (s \o t)[1] = Head(s)
      BY <3>1, HeadOfFlow, ConcatFacts
    <3>4. Head(s \o t) = (s \o t)[1]
      BY <3>3, HeadTailProperties
    <3> QED
      BY <3>1, <3>2, <3>3, <3>4
  <2>6. NoneBare(c)'
    BY <1>1, <1>5 DEF NoneBare, Parses, Server!IsBare, Server!ToSet
  <2>7. Derailed(c)'
    BY <1>4, <1>6, <1>7, <2>4, <2>5, <2>6 DEF Derailed, Server!Rest
  <2> QED
    BY <1>3, <2>7 DEF Advances
<1>11. h = o \/ h < o
  <2> HIDE DEF h, o
  <2> QED
    BY <1>2
<1> QED
  BY <1>9, <1>10, <1>11

\* A request that has been parsed to its end.
LEMMA ParsedWhole ==
  ASSUME HttpTypes, NEW c \in Conns, OnTrack(c), request[c].current_state = "DONE"
  PROVE  /\ Len(answers[c]) < Len(asked[c]) /\ Asked(c) \in SmallRequests
         /\ request[c].headers = Asked(c).headers /\ request[c].version = Asked(c).version
         /\ ~Server!IsBare(Asked(c))
         /\ Carried(Flow(c), asked[c], Len(answers[c]) + 1, 0)
         /\ Len(answers[c]) + 1 = Len(asked[c]) => todo[c] = <<>>
<1> DEFINE h == request[c].headers
           a == Asked(c).headers
           k == Len(answers[c])
           m == Len(asked[c])
<1>1. RequestInv(c) /\ Carried(Flow(c), asked[c], k, Size(Asked(c)))
  BY ParsedFacts DEF OnTrack
<1>2. /\ k < m /\ Asked(c) \in SmallRequests /\ request[c].version = Asked(c).version
      /\ Len(h) = Len(a) /\ \A j \in 1..Len(h) : h[j] = a[j] /\ h[j] # "bare"
  BY <1>1, ParsedFacts DEF RequestInv
<1>3. h \in Seq(Fields) /\ a \in Seq(Fields)
  BY <1>2, ConnFacts, RequestFacts DEF Parsers
<1>4. h = a
  <2> HIDE DEF h, a
  <2> QED
    BY <1>2, <1>3, SeqEqual
<1>5. ~Server!IsBare(Asked(c))
  <2> SUFFICES ASSUME NEW j \in DOMAIN a, a[j] = "bare" PROVE FALSE
    BY DEF Server!IsBare, Server!ToSet
  <2>1. j \in 1..Len(h)
    BY <1>3, <1>4, LenProperties
  <2> QED
    BY <1>2, <2>1
<1>6. k \in Nat /\ m \in Nat /\ IsSeq(Token, Flow(c)) /\ IsSeq(SmallRequests, asked[c])
  BY ConnFacts
<1>7. Carried(Flow(c), asked[c], k + 1, 0)
  BY <1>1, <1>2, <1>6, CarriedWhole DEF Asked
<1>8. ASSUME k + 1 = m PROVE todo[c] = <<>>
  <2>1. Flow(c) = <<>>
    <3>1. Carried(Flow(c), asked[c], m, 0)
      BY <1>7, <1>8
    <3> QED
      BY <1>6, <3>1, CarriedLast
  <2> DEFINE s == input[c]
             t == socket[c]
             u == todo[c]
  <2>2. s \in Seq(Token) /\ t \in Seq(Token) /\ u \in Seq(Token) /\ s \o (t \o u) = <<>>
    BY <2>1 DEF HttpTypes, Flow
  <2> HIDE DEF s, t, u
  <2>3. t \o u \in Seq(Token) /\ Len(t \o u) = Len(t) + Len(u) /\ Len(t) \in Nat /\ Len(u) \in Nat
    BY <2>2, ConcatFacts
  <2>4. Len(s) \in Nat /\ 0 = Len(s) + Len(t \o u)
    <3> DEFINE v == t \o u
    <3>1. s \in Seq(Token) /\ v \in Seq(Token) /\ s \o v = <<>>
      BY <2>2, <2>3
    <3> HIDE DEF v
    <3>2. Len(s \o v) = Len(s) + Len(v) /\ Len(s) \in Nat
      BY <3>1, ConcatFacts
    <3>3. Len(<<>>) = 0
      OBVIOUS
    <3> QED
      BY <3>1, <3>2, <3>3 DEF v
  <2>5. Len(u) = 0
    BY <2>3, <2>4
  <2>6. u = <<>>
    BY <2>2, <2>5, EmptySeq
  <2> QED
    BY <2>6 DEF u
<1> QED
  BY <1>2, <1>4, <1>5, <1>7, <1>8

LEMMA AnswerKeeps ==
  ASSUME HttpTypes, HttpInv, NEW c \in Conns, Server!Respond(c), ~shut[c]
  PROVE  Advances(c) /\ AnswersKept(c) /\ (fate' # "running" => Server!FatalAsked)
<1> DEFINE k == Len(answers[c])
           m == Len(asked[c])
<1>1. /\ request[c].current_state = "DONE" /\ fate = "running"
      /\ UNCHANGED <<asked, todo, socket, input>> /\ Server!Answer(c)
  BY DEF Server!Respond, Server!Parsing, Server!client
<1>2. PICK found \in BOOLEAN :
        answers' = [answers EXCEPT ![c] = Append(@, [url |-> request[c].url, found |-> found])]
  BY <1>1 DEF Server!Answer
<1>3. /\ Len(answers'[c]) = k + 1 /\ answers'[c][k + 1].url = request[c].url
      /\ \A q \in 1..k : answers'[c][q] = answers[c][q]
  <2> DEFINE one == [url |-> request[c].url, found |-> found]
  <2>1. answers[c] \in Seq(Pages) /\ one \in Pages
    BY ConnFacts DEF HttpTypes, Parsers, Pages
  <2>2. answers'[c] = Append(answers[c], one) /\ one.url = request[c].url
    BY <1>2 DEF HttpTypes
  <2> HIDE DEF one
  <2>3. /\ Len(answers'[c]) = k + 1 /\ answers'[c][k + 1] = one
        /\ \A q \in 1..k : answers'[c][q] = answers[c][q]
    BY <2>1, <2>2, AppendProperties
  <2> QED
    BY <2>2, <2>3
<1>4. /\ k < m /\ k \in Nat /\ m \in Nat /\ request[c].url = Asked(c).url /\ NoneBare(c)
      /\ Asked(c) = asked[c][k + 1]
  <2>1. k < m /\ request[c].url = Asked(c).url /\ NoneBare(c)
    BY <1>1 DEF HttpInv, OnTrack, RequestInv, Derailed
  <2> QED
    BY <2>1, ConnFacts DEF Asked
<1>5. k + 1 \in 1..m /\ k + 1 <= m /\ \A q \in 1..(k + 1) : q \in 1..k \/ q = k + 1
  <2> HIDE DEF k, m
  <2> QED
    BY <1>4
<1>6. OnTrack(c) \/ (Derailed(c) /\ Server!IsBare(Asked(c)))
  BY <1>1 DEF HttpInv, Derailed
<1>7. Server!IsBare(Asked(c)) => Server!FatalAsked
  BY <1>4, AskedIsFatal DEF Server!Fatal
<1>8. OnTrack(c) => /\ Server!CloseConnection(request[c]) <=> Server!CloseConnection(Asked(c))
                    /\ Server!NullCompared(request[c]) <=> Server!NullCompared(Asked(c))
  <2> SUFFICES ASSUME OnTrack(c)
               PROVE  /\ Server!CloseConnection(request[c]) <=> Server!CloseConnection(Asked(c))
                      /\ Server!NullCompared(request[c]) <=> Server!NullCompared(Asked(c))
    OBVIOUS
  <2>1. request[c].headers = Asked(c).headers /\ request[c].version = Asked(c).version
    BY <1>1, ParsedWhole
  <2>2. Server!ConnectionHeader(request[c]) = Server!ConnectionHeader(Asked(c))
    BY <2>1 DEF Server!ConnectionHeader
  <2> QED
    BY <2>1, <2>2 DEF Server!CloseConnection, Server!NullCompared
<1>9. Server!NullCompared(request[c]) => Server!FatalAsked
  BY <1>4, <1>6, <1>7, <1>8, AskedIsFatal DEF Server!Fatal
<1>10. fate' # "running" => Server!NullCompared(request[c])
  BY <1>1 DEF Server!Answer
<1>a. ~Server!NullCompared(request[c]) => request'[c] = Server!NewRequest
  <2> SUFFICES ASSUME ~Server!NullCompared(request[c]) PROVE request'[c] = Server!NewRequest
    OBVIOUS
  <2>1. request' = [request EXCEPT ![c] = Server!Reset(@)]
    BY <1>1 DEF Server!Answer
  <2> QED
    BY <2>1 DEF HttpTypes, Server!Reset
<1>11. shut'[c] <=> ~Server!NullCompared(request[c]) /\ Server!CloseConnection(request[c])
  <2>1. CASE Server!NullCompared(request[c])
    BY <1>1, <2>1 DEF Server!Answer
  <2>2. CASE ~Server!NullCompared(request[c])
    <3>1. shut' = [shut EXCEPT ![c] = Server!CloseConnection(request[c])]
      BY <1>1, <2>2 DEF Server!Answer
    <3>2. shut'[c] = Server!CloseConnection(request[c])
      BY <3>1 DEF HttpTypes
    <3> QED
      BY <2>2, <3>2
  <2> QED
    BY <2>1, <2>2
<1>12. Advances(c)
  <2> SUFFICES ASSUME ~Server!NullCompared(request[c]) PROVE OnTrack(c)' \/ Derailed(c)'
    <3>1. Server!NullCompared(request[c]) => fate' = "null"
      BY <1>1 DEF Server!Answer
    <3> QED
      BY <3>1 DEF Advances
  <2>1. request'[c] = Server!NewRequest /\ request'[c].current_state = "STATUS"
    BY <1>a DEF Server!NewRequest
  <2>2. CASE OnTrack(c)
    <3>1. ~Server!IsBare(Asked(c)) /\ Carried(Flow(c), asked[c], k + 1, 0)
      BY <1>1, <2>2, ParsedWhole
    <3>2. Parsed(c)' = 0 /\ Flow(c)' = Flow(c)
      BY <1>1, <2>1 DEF Parsed, Flow
    <3>3. Carried(Flow(c)', asked'[c], Len(answers'[c]), Parsed(c)')
      BY <1>1, <1>3, <3>1, <3>2
    <3>4. RequestInv(c)'
      BY <2>1 DEF RequestInv, Server!NewRequest
    <3>5. \A q \in 1..(k + 1) : ~Server!IsBare(asked[c][q])
      BY <1>4, <1>5, <3>1 DEF NoneBare
    <3>6. NoneBare(c)'
      BY <1>1, <1>3, <3>5 DEF NoneBare, Server!IsBare, Server!ToSet
    <3> QED
      BY <3>3, <3>4, <3>6 DEF OnTrack, Carried, Carries, Size, Server!Text, Server!Status, Server!Header,
                             Server!CRLF
  <2>3. CASE Derailed(c) /\ Server!IsBare(Asked(c))
    <3>1. input'[c] # <<>> /\ Head(input'[c]) = Server!Rest
      BY <1>1, <2>3 DEF Derailed
    <3>2. Len(answers'[c]) \in 1..Len(asked'[c]) /\ asked'[c][Len(answers'[c])] = Asked(c)
      BY <1>1, <1>3, <1>4, <1>5
    <3>3. Server!IsBare(asked[c][Len(answers[c])])'
      BY <2>3, <3>2 DEF Server!IsBare, Server!ToSet
    <3> QED
      BY <2>1, <3>1, <3>2, <3>3 DEF Derailed, Server!Rest
  <2> QED
    BY <1>6, <2>2, <2>3
<1>13. AnsweredRightly(c)'
  <2>1. Len(answers'[c]) <= Len(asked'[c])
    BY <1>1, <1>3, <1>5
  <2>2. \A q \in 1..(k + 1) : /\ answers'[c][q].url = asked'[c][q].url
                              /\ Server!IsBare(asked[c][q]) => q = k + 1
                              /\ Server!CloseConnection(asked[c][q]) => q = k + 1
    <3>1. \A q \in 1..k : /\ answers'[c][q].url = asked'[c][q].url
                           /\ ~Server!IsBare(asked[c][q]) /\ ~Server!CloseConnection(asked[c][q])
      <4>1. \A q \in 1..k : answers[c][q].url = asked[c][q].url
        BY DEF HttpInv, AnsweredRightly
      <4>2. \A q \in 1..k : ~Server!IsBare(asked[c][q])
        BY <1>4 DEF NoneBare
      <4>3. \A q \in 1..k : ~Server!CloseConnection(asked[c][q])
        BY <4>2 DEF HttpInv, ShutRightly
      <4> QED
        BY <1>1, <1>3, <4>1, <4>2, <4>3
    <3>2. answers'[c][k + 1].url = asked'[c][k + 1].url
      BY <1>1, <1>3, <1>4
    <3> QED
      BY <1>5, <3>1, <3>2
  <2>3. k + 1 > Server!Sent(c) => Server!IsBare(asked[c][m])
    <3> SUFFICES ASSUME k + 1 > Server!Sent(c) PROVE Server!IsBare(asked[c][m])
      OBVIOUS
    <3>1. /\ Server!Sent(c) \in Int
          /\ todo[c] = <<>> => Server!Sent(c) = m
          /\ todo[c] # <<>> => Server!Sent(c) = m - 1
      BY SentFacts
    <3>2. k + 1 = m /\ todo[c] # <<>>
      <4> HIDE DEF k, m
      <4> QED
        BY <1>4, <3>1
    <3>3. ~OnTrack(c)
      BY <1>1, <3>2, ParsedWhole
    <3> QED
      BY <1>4, <1>6, <3>2, <3>3
  <2>4. Server!Sent(c)' = Server!Sent(c)
    BY <1>1 DEF Server!Sent
  <2>5. \A q : Server!IsBare(asked[c][q])' <=> Server!IsBare(asked[c][q])
    BY <1>1 DEF Server!IsBare, Server!ToSet
  <2>6. Len(answers[c])' > Server!Sent(c)' => Server!IsBare(asked[c][Len(asked[c])])'
    <3>1. Server!IsBare(asked[c][Len(asked[c])])' <=> Server!IsBare(asked[c][m])
      BY <1>1 DEF Server!IsBare, Server!ToSet
    <3> QED
      BY <1>3, <2>3, <2>4, <3>1
  <2>7. \A q : Server!CloseConnection(asked[c][q])' <=> Server!CloseConnection(asked[c][q])
    BY <1>1 DEF Server!CloseConnection, Server!ConnectionHeader
  <2> QED
    BY <1>3, <2>1, <2>2, <2>5, <2>6, <2>7 DEF AnsweredRightly
<1>14. ShutRightly(c)'
  <2>1. \A q : Server!CloseConnection(asked[c][q])' <=> Server!CloseConnection(asked[c][q])
    BY <1>1 DEF Server!CloseConnection, Server!ConnectionHeader
  <2>a. \A q : Server!IsBare(asked[c][q])' <=> Server!IsBare(asked[c][q])
    BY <1>1 DEF Server!IsBare, Server!ToSet
  <2>2. \A q \in 1..k : ~Server!CloseConnection(asked[c][q])
    BY <1>4 DEF HttpInv, ShutRightly, NoneBare
  <2>3. OnTrack(c) => (shut'[c] <=> Server!CloseConnection(asked[c][k + 1]))
    <3>1. Server!NullCompared(Asked(c)) => ~Server!CloseConnection(Asked(c))
      BY DEF Server!NullCompared, Server!CloseConnection
    <3> QED
      BY <1>4, <1>8, <1>11, <3>1
  <2>4. ~OnTrack(c) => Server!IsBare(asked[c][k + 1])
    BY <1>4, <1>6
  <2>5. k + 1 \in 1..(k + 1)
    <3> HIDE DEF k
    <3> QED
      BY <1>4
  <2>6. /\ \A q \in 1..(k + 1) :
              Server!CloseConnection(asked[c][q]) => shut'[c] \/ Server!IsBare(asked[c][q])
        /\ shut'[c] => \E q \in 1..(k + 1) :
              Server!CloseConnection(asked[c][q]) \/ Server!IsBare(asked[c][q])
    BY <1>5, <2>2, <2>3, <2>4, <2>5
  <2>7. Len(answers'[c]) = k + 1
    BY <1>3
  <2> HIDE DEF k
  <2>8. (\A q \in 1..Len(answers[c]) :
           Server!CloseConnection(asked[c][q]) => shut[c] \/ Server!IsBare(asked[c][q]))'
    BY <2>1, <2>6, <2>7, <2>a
  <2>9. shut'[c] => (\E q \in 1..Len(answers[c]) :
                       Server!CloseConnection(asked[c][q]) \/ Server!IsBare(asked[c][q]))'
    BY <2>1, <2>6, <2>7, <2>a
  <2> QED
    BY <2>8, <2>9 DEF ShutRightly
<1> QED
  BY <1>9, <1>10, <1>12, <1>13, <1>14 DEF AnswersKept

\* After the shutdown a request that was read ends the process, and it was a later one.
LEMMA RespondKeeps ==
  ASSUME HttpTypes, HttpInv, NEW c \in Conns, Server!Respond(c)
  PROVE  Advances(c) /\ AnswersKept(c) /\ (fate' # "running" => Server!FatalAsked)
<1> DEFINE k == Len(answers[c])
           m == Len(asked[c])
<1>1. CASE ~shut[c]
  BY <1>1, AnswerKeeps
<1>2. CASE shut[c]
  <2>1. Parses(c) /\ fate' = "sigpipe" /\ request[c].current_state = "DONE"
    BY <1>2 DEF Server!Respond, Server!Parsing, Server!client, Parses
  <2>2. PICK q \in 1..k : Server!CloseConnection(asked[c][q]) \/ Server!IsBare(asked[c][q])
    BY <1>2 DEF HttpInv, ShutRightly
  <2>3. k < m /\ k \in Nat /\ m \in Nat
    <3>1. k < m
      BY <2>1 DEF HttpInv, OnTrack, RequestInv, Derailed, Parses
    <3> QED
      BY <3>1, ConnFacts
  <2>4. q \in 1..m /\ k + 1 \in 1..m /\ q \in 1..(k + 1) - 1
    <3> HIDE DEF k, m
    <3> QED
      BY <2>3
  <2>5. Server!FatalAsked
    <3>1. CASE Server!CloseConnection(asked[c][q])
      BY <2>4, <3>1, LaterIsFatal
    <3>2. CASE Server!IsBare(asked[c][q])
      BY <2>4, <3>2, OneIsFatal DEF Server!Fatal
    <3> QED
      BY <2>2, <3>1, <3>2
  <2>6. AnswersKept(c)
    BY <2>1, ParsingAnswers
  <2> QED
    BY <2>1, <2>5, <2>6 DEF Advances
<1> QED
  BY <1>1, <1>2

LEMMA TypesStep ==
  ASSUME HttpTypes, HttpNext
  PROVE  HttpTypes'
<1>1. PICK c \in Conns : \/ \E r \in SmallRequests : Server!Ask(c, r)
                         \/ \E n \in 1..Len(todo[c]) : Server!Send(c, n)
                         \/ Server!Spin(c) \/ Server!LoopStep(c)
  BY DEF HttpNext
<1>2. /\ input[c] \in Seq(Token) /\ socket[c] \in Seq(Token) /\ todo[c] \in Seq(Token)
      /\ asked[c] \in Seq(SmallRequests) /\ answers[c] \in Seq(Pages) /\ request[c] \in Parsers
      /\ <<>> \in Seq(Token)
  BY EmptySeq DEF HttpTypes
<1>3. ASSUME NEW r \in SmallRequests, Server!Ask(c, r) PROVE HttpTypes'
  <2>1. Append(asked[c], r) \in Seq(SmallRequests) /\ Server!Text(r) \in Seq(Token)
    BY <1>2, AppendProperties, TextFacts
  <2>2. /\ asked' = [asked EXCEPT ![c] = Append(asked[c], r)]
        /\ todo' = [todo EXCEPT ![c] = Server!Text(r)]
        /\ UNCHANGED <<socket, Server!server, cut, piled>>
    BY <1>3 DEF Server!Ask
  <2> QED
    BY <2>1, <2>2 DEF HttpTypes, Server!server
<1>4. ASSUME NEW n \in 1..Len(todo[c]), Server!Send(c, n) PROVE HttpTypes'
  <2>1. n \in Nat /\ n <= Len(todo[c]) /\ Len(todo[c]) \in Nat
    BY <1>2, LenProperties
  <2>2. LeftOf(todo[c], n) \in Seq(Token) /\ SubSeq(todo[c], 1, n) \in Seq(Token)
    <3>1. LeftOf(todo[c], n) \in Seq(Token)
      BY <1>2, <2>1, LeftOfFacts
    <3>2. \A k \in 1..n : todo[c][k] \in Token
      BY <1>2, <2>1, ElementOfSeq
    <3>3. SubSeq(todo[c], 1, n) \in Seq(Token)
      BY <1>2, <2>1, <3>2, SubSeqProperties
    <3> QED
      BY <3>1, <3>3
  <2>3. socket[c] \o SubSeq(todo[c], 1, n) \in Seq(Token)
    BY <1>2, <2>2, ConcatProperties
  <2>4. /\ socket' = [socket EXCEPT ![c] = socket[c] \o SubSeq(todo[c], 1, n)]
        /\ todo' = [todo EXCEPT ![c] = LeftOf(todo[c], n)]
        /\ UNCHANGED <<asked, Server!server, cut, piled>>
    BY <1>4 DEF Server!Send, LeftOf
  <2> DEFINE s == socket[c] \o SubSeq(todo[c], 1, n)
             l == LeftOf(todo[c], n)
  <2>5. s \in Seq(Token) /\ l \in Seq(Token)
    BY <2>2, <2>3
  <2>6. socket' = [socket EXCEPT ![c] = s] /\ todo' = [todo EXCEPT ![c] = l]
    BY <2>4
  <2> HIDE DEF s, l
  <2> QED
    BY <2>4, <2>5, <2>6 DEF HttpTypes, Server!server
<1>5. CASE Server!Spin(c)
  BY <1>5 DEF Server!Spin, Server!httpVars, Server!client, Server!server, HttpTypes
<1>6. CASE Server!OnMessage(c)
  <2> DEFINE s == input[c] \o socket[c]
  <2>1. s \in Seq(Token)
    BY <1>2, ConcatProperties
  <2>2. /\ input' = [input EXCEPT ![c] = s] /\ socket' = [socket EXCEPT ![c] = <<>>]
        /\ UNCHANGED <<asked, todo, request, answers, shut>>
    BY <1>6 DEF Server!OnMessage, Server!client
  <2> HIDE DEF s
  <2> QED
    BY <1>2, <2>1, <2>2 DEF HttpTypes
<1>7. ASSUME 2 <= Len(input[c]) PROVE LeftOf(input[c], 2) \in Seq(Token)
  BY <1>2, <1>7, LeftOfFacts
<1>8. CASE Server!ProcessStatusLine(c)
  <2>1. /\ request' = [request EXCEPT ![c] = [request[c] EXCEPT !.url = Head(input[c]).url,
                         !.version = Head(input[c]).version, !.current_state = "HEADERS"]]
        /\ input' = [input EXCEPT ![c] = LeftOf(input[c], 2)]
        /\ UNCHANGED <<asked, todo, socket, answers, shut>>
        /\ Server!HasLine(c) /\ Head(input[c]).kind = "status"
    BY <1>8 DEF Server!ProcessStatusLine, Server!Consume, LeftOf, Server!client
  <2>2. Head(input[c]) \in Token /\ Head(input[c]) # Server!CRLF /\ 2 <= Len(input[c])
    BY <2>1, LineAhead, TokenFacts
  <2>3. PICK r \in SmallRequests : Head(input[c]) = Server!Status(r)
    BY <2>1, <2>2, KindsOfToken
  <2>4. Head(input[c]).url \in Urls /\ Head(input[c]).version \in Versions
    BY <2>3, TokenFacts, RequestFacts
  <2> DEFINE u == Head(input[c]).url
             v == Head(input[c]).version
             l == LeftOf(input[c], 2)
  <2>5. l \in Seq(Token) /\ u \in Urls /\ v \in Versions
    BY <1>7, <2>2, <2>4
  <2>6. /\ request' = [request EXCEPT ![c] = [request[c] EXCEPT !.url = u, !.version = v, !.current_state = "HEADERS"]]
        /\ input' = [input EXCEPT ![c] = l]
    BY <2>1
  <2> HIDE DEF u, v, l
  <2>7. [request[c] EXCEPT !.url = u, !.version = v, !.current_state = "HEADERS"] \in Parsers
    BY <1>2, <2>5 DEF Parsers
  <2> QED
    BY <2>1, <2>5, <2>6, <2>7 DEF HttpTypes
<1>9. CASE Server!NoStatusLine(c)
  BY <1>9 DEF Server!NoStatusLine, Server!client, HttpTypes
<1>10. CASE Server!AddHeader(c)
  <2>1. /\ \/ request' = [request EXCEPT ![c].headers = Append(@, Head(input[c]).field)]
           \/ request' = request
        /\ input' = [input EXCEPT ![c] = LeftOf(input[c], 2)]
        /\ UNCHANGED <<asked, todo, socket, answers, shut>>
        /\ Server!HasLine(c) /\ Head(input[c]).kind = "header"
    BY <1>10 DEF Server!AddHeader, Server!Consume, LeftOf, Server!client, Server!IsHeader
  <2>2. Head(input[c]) \in Token /\ Head(input[c]) # Server!CRLF /\ 2 <= Len(input[c])
    BY <2>1, LineAhead, TokenFacts
  <2>3. PICK f \in Fields : Head(input[c]) = Server!Header(f)
    BY <2>1, <2>2, KindsOfToken
  <2>4. Head(input[c]).field \in Fields
    BY <2>3, TokenFacts
  <2>5. Append(request[c].headers, Head(input[c]).field) \in Seq(Fields)
    <3>1. request[c].headers \in Seq(Fields)
      BY <1>2 DEF Parsers
    <3> QED
      BY <2>4, <3>1, AppendProperties
  <2> DEFINE l == LeftOf(input[c], 2)
             o == Append(request[c].headers, Head(input[c]).field)
  <2>6. l \in Seq(Token) /\ o \in Seq(Fields)
    BY <1>7, <2>2, <2>5
  <2>7. /\ request' = [request EXCEPT ![c] = [request[c] EXCEPT !.headers = o]] \/ request' = request
        /\ input' = [input EXCEPT ![c] = l]
    BY <2>1
  <2> HIDE DEF l, o
  <2>8. [request[c] EXCEPT !.headers = o] \in Parsers
    BY <1>2, <2>6 DEF Parsers
  <2>9. request' \in [Conns -> Parsers]
    BY <2>7, <2>8 DEF HttpTypes
  <2>10. input' \in [Conns -> Seq(Token)]
    BY <2>6, <2>7 DEF HttpTypes
  <2> QED
    BY <2>1, <2>9, <2>10 DEF HttpTypes
<1>11. CASE Server!LastLine(c)
  <2> DEFINE l == (IF Head(input[c]) = Server!CRLF THEN <<>> ELSE <<Server!Rest>>) \o Tail(input[c])
  <2>1. /\ request' = [request EXCEPT ![c] = [request[c] EXCEPT !.current_state = "DONE"]]
        /\ input' = [input EXCEPT ![c] = l]
        /\ UNCHANGED <<asked, todo, socket, answers, shut>> /\ Server!HasLine(c)
    BY <1>11 DEF Server!LastLine, Server!Skipped, Server!client
  <2>2. l \in Seq(Token)
    <3> DEFINE t == Tail(input[c])
               s == IF Head(input[c]) = Server!CRLF THEN <<>> ELSE <<Server!Rest>>
    <3>1. t \in Seq(Token)
      BY <1>2, <2>1, LineAhead, HeadTailProperties
    <3>2. Server!Rest \in Token
      BY DEF Token
    <3>3. s \in Seq(Token)
      <4> HIDE DEF t
      <4> QED
        BY <1>2, <3>2
    <3> HIDE DEF s, t
    <3>4. s \o t \in Seq(Token)
      BY <3>1, <3>3, ConcatProperties
    <3> QED
      BY <3>4 DEF s, t
  <2> HIDE DEF l
  <2>3. [request[c] EXCEPT !.current_state = "DONE"] \in Parsers
    BY <1>2 DEF Parsers
  <2> QED
    BY <2>1, <2>2, <2>3 DEF HttpTypes
<1>12. CASE Server!Respond(c)
  <2>1. \/ answers' = answers
        \/ \E found \in BOOLEAN :
             answers' = [answers EXCEPT ![c] = Append(@, [url |-> request[c].url, found |-> found])]
    BY <1>12 DEF Server!Respond, Server!Answer
  <2>2. ASSUME NEW found \in BOOLEAN,
               answers' = [answers EXCEPT ![c] = Append(@, [url |-> request[c].url, found |-> found])]
        PROVE  answers' \in [Conns -> Seq(Pages)]
    <3> DEFINE one == [url |-> request[c].url, found |-> found]
    <3>1. one \in Pages
      BY <1>2 DEF Parsers, Pages
    <3>2. answers' = [answers EXCEPT ![c] = Append(answers[c], one)]
      BY <2>2
    <3> HIDE DEF one
    <3>3. Append(answers[c], one) \in Seq(Pages)
      BY <1>2, <3>1, AppendProperties
    <3> QED
      BY <3>2, <3>3 DEF HttpTypes
  <2>3. shut' \in [Conns -> BOOLEAN]
    <3>1. shut' = shut \/ shut' = [shut EXCEPT ![c] = Server!CloseConnection(request[c])]
      BY <1>12 DEF Server!Respond, Server!Answer
    <3>2. Server!CloseConnection(request[c]) \in BOOLEAN
      BY DEF Server!CloseConnection
    <3> QED
      BY <3>1, <3>2 DEF HttpTypes
  <2>4. request' \in [Conns -> Parsers]
    <3>1. request' = request \/ request' = [request EXCEPT ![c] = Server!NewRequest]
      BY <1>12 DEF Server!Respond, Server!Answer, Server!Reset
    <3>2. Server!NewRequest \in Parsers
      BY EmptySeq DEF Server!NewRequest, Parsers, Urls, Versions
    <3> QED
      BY <3>1, <3>2 DEF HttpTypes
  <2>5. UNCHANGED <<asked, todo, socket, input>>
    BY <1>12 DEF Server!Respond, Server!client
  <2> QED
    BY <2>1, <2>2, <2>3, <2>4, <2>5 DEF HttpTypes
<1> QED
  BY <1>1, <1>3, <1>4, <1>5, <1>6, <1>8, <1>9, <1>10, <1>11, <1>12 DEF Server!LoopStep

\* A step of one connection leaves the others alone.
LEMMA StepOfOne ==
  ASSUME HttpTypes, NEW c \in Conns, NEW d \in Conns, d # c,
         \/ \E r \in SmallRequests : Server!Ask(c, r)
         \/ \E n \in 1..Len(todo[c]) : Server!Send(c, n)
         \/ Server!Spin(c) \/ Server!LoopStep(c)
  PROVE  Untouched(d)
<1>1. CASE \E r \in SmallRequests : Server!Ask(c, r)
  <2>1. PICK r \in SmallRequests : Server!Ask(c, r)
    BY <1>1
  <2>2. /\ asked' = [asked EXCEPT ![c] = Append(@, r)] /\ todo' = [todo EXCEPT ![c] = Server!Text(r)]
        /\ UNCHANGED <<socket, Server!server, cut, piled>>
    BY <2>1 DEF Server!Ask
  <2> QED
    BY <2>2 DEF Untouched, HttpTypes, Server!server
<1>2. CASE \E n \in 1..Len(todo[c]) : Server!Send(c, n)
  BY <1>2 DEF Server!Send, Untouched, HttpTypes, Server!server
<1>3. CASE Server!Spin(c)
  BY <1>3 DEF Server!Spin, Server!httpVars, Server!client, Server!server, Untouched
<1>4. CASE Server!OnMessage(c)
  BY <1>4 DEF Server!OnMessage, Server!client, Untouched, HttpTypes
<1>5. CASE Server!ProcessStatusLine(c)
  BY <1>5 DEF Server!ProcessStatusLine, Server!Consume, Server!client, Untouched, HttpTypes
<1>6. CASE Server!NoStatusLine(c)
  BY <1>6 DEF Server!NoStatusLine, Server!client, Untouched
<1>7. CASE Server!AddHeader(c)
  BY <1>7 DEF Server!AddHeader, Server!Consume, Server!client, Untouched, HttpTypes
<1>8. CASE Server!LastLine(c)
  BY <1>8 DEF Server!LastLine, Server!Skipped, Server!client, Untouched, HttpTypes
<1>9. CASE Server!Respond(c)
  BY <1>9 DEF Server!Respond, Server!Answer, Server!client, Untouched, HttpTypes
<1> QED
  BY <1>1, <1>2, <1>3, <1>4, <1>5, <1>6, <1>7, <1>8, <1>9 DEF Server!LoopStep

\* What a step of a connection does for it.
LEMMA OneKeeps ==
  ASSUME HttpInv, NEW c \in Conns,
         \/ \E r \in SmallRequests : Server!Ask(c, r)
         \/ \E n \in 1..Len(todo[c]) : Server!Send(c, n)
         \/ Server!Spin(c) \/ Server!LoopStep(c)
  PROVE  /\ Advances(c) /\ AnswersKept(c)
         /\ Server!FatalAsked => Server!FatalAsked'
         /\ fate' = "running" => fate = "running"
         /\ fate' # "running" => Server!FatalAsked'
<1>1. HttpTypes /\ (fate # "running" => Server!FatalAsked)
  BY DEF HttpInv
<1>2. CASE \E r \in SmallRequests : Server!Ask(c, r)
  <2>1. PICK r \in SmallRequests : Server!Ask(c, r)
    BY <1>2
  <2>2. asked' = [asked EXCEPT ![c] = Append(asked[c], r)] /\ fate' = fate
    BY <2>1 DEF Server!Ask, Server!server
  <2>3. Server!FatalAsked => Server!FatalAsked'
    BY <1>1, <2>2, FatalStays
  <2> QED
    BY <1>1, <2>1, <2>2, <2>3, AskKeeps
<1>3. CASE \E n \in 1..Len(todo[c]) : Server!Send(c, n)
  <2>1. PICK n \in 1..Len(todo[c]) : Server!Send(c, n)
    BY <1>3
  <2>2. asked' = asked /\ fate' = fate
    BY <2>1 DEF Server!Send, Server!server
  <2>3. Server!FatalAsked' <=> Server!FatalAsked
    BY <2>2, FatalSame
  <2> QED
    BY <1>1, <2>1, <2>2, <2>3, SendKeeps
<1>4. CASE Server!Spin(c)
  <2>1. Untouched(c) /\ fate' = fate /\ asked' = asked
    BY <1>4 DEF Server!Spin, Server!httpVars, Server!client, Server!server, Untouched
  <2>2. Server!FatalAsked' <=> Server!FatalAsked
    BY <2>1, FatalSame
  <2> QED
    BY <1>1, <2>1, <2>2, OthersLeftAlone
<1>5. CASE Server!LoopStep(c)
  <2>1. asked' = asked /\ fate = "running"
    BY <1>5 DEF Server!LoopStep, Server!OnMessage, Server!ProcessStatusLine, Server!NoStatusLine, Server!AddHeader,
                Server!LastLine, Server!Respond, Server!client, Server!Parsing
  <2>2. Server!FatalAsked' <=> Server!FatalAsked
    BY <2>1, FatalSame
  <2>3. Advances(c) /\ AnswersKept(c) /\ (fate' # "running" => Server!FatalAsked)
    <3>1. CASE Server!OnMessage(c)
      BY <1>1, <2>1, <3>1, MessageKeeps DEF Server!OnMessage
    <3>2. CASE Server!ProcessStatusLine(c)
      BY <1>1, <3>2, StatusKeeps
    <3>3. CASE Server!NoStatusLine(c)
      BY <1>1, <3>3, NoStatusKeeps
    <3>4. CASE Server!AddHeader(c)
      BY <1>1, <3>4, HeaderKeeps
    <3>5. CASE Server!LastLine(c)
      BY <1>1, <2>1, <3>5, LastLineKeeps DEF Server!LastLine
    <3>6. CASE Server!Respond(c)
      BY <1>1, <3>6, RespondKeeps
    <3> QED
      BY <1>5, <3>1, <3>2, <3>3, <3>4, <3>5, <3>6 DEF Server!LoopStep
  <2> QED
    BY <2>1, <2>2, <2>3
<1> QED
  BY <1>2, <1>3, <1>4, <1>5

LEMMA HttpStep == ASSUME HttpInv, [HttpNext]_httpVars PROVE HttpInv'
<1>1. CASE HttpNext
  <2>1. PICK c \in Conns : \/ \E r \in SmallRequests : Server!Ask(c, r)
                           \/ \E n \in 1..Len(todo[c]) : Server!Send(c, n)
                           \/ Server!Spin(c) \/ Server!LoopStep(c)
    BY <1>1 DEF HttpNext
  <2>2. HttpTypes
    BY DEF HttpInv
  <2>3. HttpTypes'
    BY <1>1, <2>2, TypesStep
  <2>4. /\ Advances(c) /\ AnswersKept(c)
        /\ Server!FatalAsked => Server!FatalAsked'
        /\ fate' = "running" => fate = "running"
        /\ fate' # "running" => Server!FatalAsked'
    BY <2>1, OneKeeps
  <2>5. ASSUME NEW d \in Conns PROVE Advances(d) /\ AnswersKept(d)
    <3>1. CASE d = c
      BY <2>4, <3>1
    <3>2. CASE d # c
      <4>1. Untouched(d)
        BY <2>1, <2>2, <3>2, StepOfOne
      <4> QED
        BY <2>2, <2>4, <4>1, OthersLeftAlone
    <3> QED
      BY <3>1, <3>2
  <2>6. (fate = "running" => \A d \in Conns : OnTrack(d) \/ Derailed(d))'
    BY <2>5 DEF Advances
  <2>7. (\A d \in Conns : AnsweredRightly(d) /\ ShutRightly(d))'
    BY <2>5 DEF AnswersKept
  <2> QED
    BY <2>3, <2>4, <2>6, <2>7 DEF HttpInv
<1>2. CASE UNCHANGED httpVars
  <2>1. HttpTypes
    BY DEF HttpInv
  <2>2. HttpTypes' /\ fate' = fate /\ asked' = asked
    BY <1>2, <2>1 DEF HttpTypes, httpVars
  <2>3. Server!FatalAsked' <=> Server!FatalAsked
    BY <2>2, FatalSame
  <2>4. ASSUME NEW d \in Conns PROVE Advances(d) /\ AnswersKept(d)
    <3>1. Untouched(d)
      BY <1>2 DEF Untouched, httpVars
    <3> QED
      BY <2>1, <2>2, <2>3, <3>1, OthersLeftAlone
  <2>5. (fate = "running" => \A d \in Conns : OnTrack(d) \/ Derailed(d))'
    BY <2>4 DEF Advances
  <2>6. (\A d \in Conns : AnsweredRightly(d) /\ ShutRightly(d))'
    BY <2>4 DEF AnswersKept
  <2>7. (fate # "running" => Server!FatalAsked)'
    BY <2>2, <2>3 DEF HttpInv
  <2> QED
    BY <2>2, <2>5, <2>6, <2>7 DEF HttpInv
<1> QED
  BY <1>1, <1>2

LEMMA HttpStarts == ASSUME Server!Init PROVE HttpInv
<1>1. <<>> \in Seq(Token) /\ <<>> \in Seq(SmallRequests) /\ <<>> \in Seq(Pages) /\ <<>> \in Seq(Fields)
      /\ Len(<<>>) = 0
  OBVIOUS
<1>2. Server!NewRequest \in Parsers
  BY <1>1 DEF Server!NewRequest, Parsers, Urls, Versions
<1>3. HttpTypes
  BY <1>1, <1>2 DEF Server!Init, HttpTypes
<1>4. fate = "running"
  BY DEF Server!Init
<1>5. ASSUME NEW c \in Conns PROVE OnTrack(c) /\ AnsweredRightly(c) /\ ShutRightly(c)
  <2>1. /\ asked[c] = <<>> /\ answers[c] = <<>> /\ input[c] = <<>> /\ socket[c] = <<>> /\ todo[c] = <<>>
        /\ request[c] = Server!NewRequest /\ request[c].current_state = "STATUS" /\ ~shut[c]
    BY DEF Server!Init, Server!NewRequest
  <2>2. \A q \in 1..Len(answers[c]) : FALSE
    BY <1>1, <2>1
  <2>3. Flow(c) = <<>>
    <3>1. <<>> \o <<>> = <<>>
      BY <1>1, ConcatEmptySeq
    <3> QED
      BY <2>1, <3>1 DEF Flow
  <2>4. Carried(Flow(c), asked[c], Len(answers[c]), Parsed(c))
    <3>1. Parsed(c) = 0 /\ Len(answers[c]) = 0
      BY <1>1, <2>1 DEF Parsed
    <3> QED
      BY <2>1, <2>3, <3>1, CarriedNothing
  <2>5. OnTrack(c)
    BY <2>1, <2>2, <2>4 DEF OnTrack, NoneBare, RequestInv
  <2>6. Server!Sent(c) = 0
    BY <2>1, <1>1 DEF Server!Sent
  <2>7. AnsweredRightly(c)
    BY <1>1, <2>1, <2>2, <2>6 DEF AnsweredRightly
  <2>8. ShutRightly(c)
    BY <2>1, <2>2 DEF ShutRightly
  <2> QED
    BY <2>5, <2>7, <2>8
<1> QED
  BY <1>3, <1>4, <1>5 DEF HttpInv

LEMMA HttpPromise == ASSUME HttpInv PROVE AnswersFollowRequests
<1>1. ASSUME NEW c \in Conns
      PROVE  /\ Len(answers[c]) <= Len(asked[c])
             /\ Len(answers[c]) > Server!Sent(c) => Server!IsBare(Server!Last(asked[c]))
             /\ \A q \in DOMAIN answers[c] :
                  /\ answers[c][q].url = asked[c][q].url
                  /\ Server!IsBare(asked[c][q]) \/ Server!CloseConnection(asked[c][q]) => q = Len(answers[c])
             /\ fate = "running" /\ ~Server!FatalAsked =>
                  (shut[c] <=> \E q \in DOMAIN answers[c] : Server!CloseConnection(asked[c][q]))
  <2>1. DOMAIN answers[c] = 1..Len(answers[c])
    <3>1. answers[c] \in Seq(Pages)
      BY DEF HttpInv, HttpTypes
    <3> QED
      BY <3>1, LenProperties
  <2>2. AnsweredRightly(c) /\ ShutRightly(c)
    BY DEF HttpInv
  <2>3. Server!Last(asked[c]) = asked[c][Len(asked[c])]
    BY DEF Server!Last
  <2>4. ASSUME ~Server!FatalAsked, NEW q \in 1..Len(answers[c]) PROVE ~Server!IsBare(asked[c][q])
    <3>1. HttpTypes /\ Len(answers[c]) <= Len(asked[c])
      BY <2>2 DEF HttpInv, AnsweredRightly
    <3>2. q \in 1..Len(asked[c])
      BY <3>1, ConnFacts
    <3> QED
      BY <2>4, <3>1, <3>2, OneIsFatal DEF Server!Fatal
  <2>5. ~Server!FatalAsked => (shut[c] <=> \E q \in 1..Len(answers[c]) : Server!CloseConnection(asked[c][q]))
    BY <2>2, <2>4 DEF ShutRightly
  <2> QED
    BY <2>1, <2>2, <2>3, <2>5 DEF AnsweredRightly
<1> QED
  BY <1>1 DEF AnswersFollowRequests, Server!AnswersFollowRequests, HttpInv

(* Whatever the clients send and in whatever pieces, for any number of     *)
(* connections and requests and any room for headers: the answers of a     *)
(* connection are those of its requests, in their order; it is shut down   *)
(* when one of them asked for that, and then nothing more is answered; and *)
(* only the requests that AnswersFollowRequests names stop the process     *)
(* (network/lib http_server.c, tcp_connection.c).                          *)
THEOREM RequestsAreAnsweredInOrder == AnySpec => []AnswersFollowRequests
<1>1. AnyInit => HttpInv
  BY HttpStarts DEF AnyInit
<1>2. HttpInv /\ [AnyNext]_allVars => HttpInv'
  BY ProgramStep, HttpStep
<1>3. HttpInv => AnswersFollowRequests
  BY HttpPromise
<1> QED
  BY <1>1, <1>2, <1>3, PTL DEF AnySpec
-----------------------------------------------------------------------------
(* The growing buffer: each operation keeps the block well formed, and to *)
(* its users it is a queue of bytes.                                       *)
Cell == Byte \cup {Garbage}

LEMMA ContentType ==
  ASSUME NEW b, WellFormed(b)
  PROVE  /\ Content(b) \in Seq(Byte)
         /\ Len(Content(b)) = ReadableSize(b)
         /\ ReadableSize(b) \in Nat
         /\ \A q \in 1..ReadableSize(b) : Content(b)[q] = b.data[b.readIndex + q - 1]
<1>1. ReadableSize(b) \in Nat
  BY DEF WellFormed, ReadableSize
<1>2. \A q \in 1..ReadableSize(b) : b.data[b.readIndex + q - 1] \in Byte
  BY DEF WellFormed, ReadableSize
<1>3. Content(b) \in [1..ReadableSize(b) -> Byte]
  BY <1>2 DEF Content
<1>4. Content(b) \in Seq(Byte)
  BY <1>1, <1>3
<1> QED
  BY <1>1, <1>3, <1>4 DEF Content

\* Two well-formed structs with the same readable bytes have the same content.
LEMMA SameContent ==
  ASSUME NEW b, NEW r, ReadableSize(r) = ReadableSize(b),
         \A q \in 0..ReadableSize(b)-1 : r.data[r.readIndex + q] = b.data[b.readIndex + q],
         ReadableSize(b) \in Nat, b.readIndex \in Nat, r.readIndex \in Nat
  PROVE  Content(r) = Content(b)
<1>1. \A q \in 1..ReadableSize(b) : r.data[r.readIndex + q - 1] = b.data[b.readIndex + q - 1]
  <2>1. SUFFICES ASSUME NEW q \in 1..ReadableSize(b)
                 PROVE  r.data[r.readIndex + q - 1] = b.data[b.readIndex + q - 1]
    OBVIOUS
  <2>2. q - 1 \in 0..ReadableSize(b)-1 /\ r.readIndex + q - 1 = r.readIndex + (q - 1)
        /\ b.readIndex + q - 1 = b.readIndex + (q - 1)
    OBVIOUS
  <2> QED
    BY <2>2
<1> QED
  BY <1>1 DEF Content

LEMMA CompactKeeps ==
  ASSUME NEW b, WellFormed(b)
  PROVE  /\ WellFormed(Compact(b)) /\ Content(Compact(b)) = Content(b)
         /\ WriteableSize(Compact(b)) = FrontSpareSize(b) + WriteableSize(b)
<1> DEFINE r == Compact(b)
<1>1. /\ r.readIndex = 0 /\ r.writeIndex = ReadableSize(b) /\ r.total_size = b.total_size
      /\ r.data = Moved(b)
  BY DEF Compact, Block
<1>2. /\ b.total_size \in Nat /\ b.readIndex \in Nat /\ b.writeIndex \in Nat
      /\ b.readIndex <= b.writeIndex /\ b.writeIndex <= b.total_size
      /\ b.data \in [0..b.total_size-1 -> Cell]
      /\ \A q \in b.readIndex .. b.writeIndex-1 : b.data[q] \in Byte
      /\ ReadableSize(b) = b.writeIndex - b.readIndex
  BY DEF WellFormed, ReadableSize, Cell
<1> HIDE DEF r
<1>3. \A q \in 0..ReadableSize(b)-1 : r.data[q] = b.data[b.readIndex + q] /\ r.data[q] \in Byte
  <2>1. SUFFICES ASSUME NEW q \in 0..ReadableSize(b)-1
                 PROVE  r.data[q] = b.data[b.readIndex + q] /\ r.data[q] \in Byte
    OBVIOUS
  <2>2. q \in 0..b.total_size-1 /\ q < ReadableSize(b) /\ b.readIndex + q \in b.readIndex .. b.writeIndex-1
    <3>1. \A first, last, size \in Nat : first <= last /\ last <= size =>
            \A k \in 0..(last - first) - 1 :
              k \in 0..size-1 /\ k < last - first /\ first + k \in first..last-1
      OBVIOUS
    <3>2. q \in 0..(b.writeIndex - b.readIndex) - 1
      BY <2>1, <1>2
    <3> QED
      BY <3>1, <3>2, <1>2
  <2> QED
    BY <1>1, <1>2, <2>2 DEF Moved
<1>4. r.data \in [0..b.total_size-1 -> Cell]
  <2>1. \A q \in 0..b.total_size-1 :
          (IF q < ReadableSize(b) THEN b.data[b.readIndex + q] ELSE b.data[q]) \in Cell
    <3>1. SUFFICES ASSUME NEW q \in 0..b.total_size-1
                   PROVE  (IF q < ReadableSize(b) THEN b.data[b.readIndex + q] ELSE b.data[q]) \in Cell
      OBVIOUS
    <3>2. CASE q < ReadableSize(b)
      <4>1. b.readIndex + q \in 0..b.total_size-1
        BY <1>2, <3>2
      <4> QED
        BY <1>2, <3>2, <4>1
    <3>3. CASE ~(q < ReadableSize(b))
      BY <1>2, <3>3
    <3> QED
      BY <3>2, <3>3
  <2> QED
    BY <1>1, <2>1 DEF Moved
<1>5. WellFormed(r)
  BY <1>1, <1>2, <1>3, <1>4 DEF WellFormed, Cell
<1>7. ReadableSize(r) = ReadableSize(b) /\ ReadableSize(b) \in Nat
  BY <1>1, <1>2 DEF ReadableSize
<1>8. Content(r) = Content(b)
  <2>1. \A q \in 0..ReadableSize(b)-1 : r.data[r.readIndex + q] = b.data[b.readIndex + q]
    BY <1>1, <1>3, <1>7
  <2> QED
    BY SMTT(30), <1>1, <1>2, <1>7, <2>1, SameContent
<1>9. WriteableSize(r) = FrontSpareSize(b) + WriteableSize(b)
  BY <1>1, <1>2 DEF WriteableSize, FrontSpareSize
<1> QED
  BY <1>5, <1>8, <1>9 DEF r

LEMMA GrowKeeps ==
  ASSUME NEW b, WellFormed(b), NEW size \in Nat
  PROVE  /\ WellFormed(Grow(b, size)) /\ Content(Grow(b, size)) = Content(b)
         /\ WriteableSize(Grow(b, size)) = WriteableSize(b) + size
<1> DEFINE r == Grow(b, size)
<1>1. /\ r.readIndex = b.readIndex /\ r.writeIndex = b.writeIndex
      /\ r.total_size = b.total_size + size
      /\ r.data = [q \in 0..b.total_size+size-1 |-> IF q < b.total_size THEN b.data[q] ELSE Garbage]
  BY DEF Grow, Block
<1>2. /\ b.total_size \in Nat /\ b.readIndex \in Nat /\ b.writeIndex \in Nat
      /\ b.readIndex <= b.writeIndex /\ b.writeIndex <= b.total_size
      /\ b.data \in [0..b.total_size-1 -> Cell]
      /\ \A q \in b.readIndex .. b.writeIndex-1 : b.data[q] \in Byte
      /\ ReadableSize(b) = b.writeIndex - b.readIndex
  BY DEF WellFormed, ReadableSize, Cell
<1> HIDE DEF r
<1>3. \A q \in 0..b.total_size-1 : r.data[q] = b.data[q]
  BY <1>1, <1>2
<1>4. r.data \in [0..r.total_size-1 -> Cell]
  <2>1. \A q \in 0..b.total_size+size-1 :
          (IF q < b.total_size THEN b.data[q] ELSE Garbage) \in Cell
    BY <1>2 DEF Cell
  <2>2. r.data \in [0..b.total_size+size-1 -> Cell]
    BY <1>1, <2>1
  <2>3. r.total_size-1 = b.total_size+size-1
    <3>1. r.total_size = b.total_size + size /\ b.total_size \in Nat
      BY <1>1, <1>2
    <3> QED
      BY <3>1
  <2> QED
    BY <2>2, <2>3
<1>5. WellFormed(r)
  <2>1. /\ r.total_size \in Nat /\ r.readIndex \in Nat /\ r.writeIndex \in Nat
        /\ r.readIndex <= r.writeIndex /\ r.writeIndex <= r.total_size
    BY <1>1, <1>2
  <2>2. \A q \in r.readIndex .. r.writeIndex-1 : r.data[q] \in Byte
    <3>1. \A q \in b.readIndex .. b.writeIndex-1 : q \in 0..b.total_size-1
      BY <1>2
    <3> QED
      BY <1>1, <1>2, <1>3, <3>1
  <2> QED
    BY <1>4, <2>1, <2>2 DEF WellFormed, Cell
<1>7. ReadableSize(r) = ReadableSize(b) /\ ReadableSize(b) \in Nat
  BY <1>1, <1>2 DEF ReadableSize
<1>8. Content(r) = Content(b)
  <2>1. \A q \in 0..ReadableSize(b)-1 : r.data[r.readIndex + q] = b.data[b.readIndex + q]
    <3>1. SUFFICES ASSUME NEW q \in 0..ReadableSize(b)-1
                   PROVE  r.data[r.readIndex + q] = b.data[b.readIndex + q]
      OBVIOUS
    <3>2. b.readIndex + q \in 0..b.total_size-1
      BY <1>2
    <3>3. r.data[b.readIndex + q] = b.data[b.readIndex + q]
      BY <1>3, <3>2
    <3> QED
      BY <1>1, <3>3
  <2> QED
    BY <1>1, <1>2, <1>7, <2>1, SameContent
<1>9. WriteableSize(r) = WriteableSize(b) + size
  BY <1>1, <1>2 DEF WriteableSize
<1> QED
  BY <1>5, <1>8, <1>9 DEF r

(* make_room makes room and loses nothing, whichever branch it takes.      *)
LEMMA MakeRoomMakesRoom ==
  ASSUME NEW b, WellFormed(b), NEW size \in Nat
  PROVE  /\ WellFormed(MakeRoom(b, size)) /\ Content(MakeRoom(b, size)) = Content(b)
         /\ WriteableSize(MakeRoom(b, size)) >= size
<1>1. WriteableSize(b) \in Nat /\ FrontSpareSize(b) \in Nat
  BY DEF WellFormed, WriteableSize, FrontSpareSize
<1>2. CASE MustGrow(b, size)
  BY <1>1, <1>2, GrowKeeps DEF MakeRoom
<1>3. CASE ~MustGrow(b, size) /\ WriteableSize(b) >= size
  BY <1>3 DEF MakeRoom
<1>4. CASE ~MustGrow(b, size) /\ ~(WriteableSize(b) >= size)
  <2>1. FrontSpareSize(b) + WriteableSize(b) >= size
    BY <1>1, <1>4 DEF MustGrow
  <2> QED
    BY <1>4, <2>1, CompactKeeps DEF MakeRoom
<1> QED
  BY <1>2, <1>3, <1>4

(* memcpy into enough room puts the bytes behind the readable ones.        *)
LEMMA StoreAppends ==
  ASSUME NEW b, WellFormed(b), NEW more \in Seq(Byte), Len(more) <= WriteableSize(b)
  PROVE  /\ WellFormed(Store(b, more))
         /\ Content(Store(b, more)) = Content(b) \o more
         /\ FrontSpareSize(Store(b, more)) = FrontSpareSize(b)
         /\ WriteableSize(Store(b, more)) = WriteableSize(b) - Len(more)
<1> DEFINE r == Store(b, more)
           n == Len(more)
           w == b.writeIndex
<1>1. /\ r.readIndex = b.readIndex /\ r.writeIndex = w + n /\ r.total_size = b.total_size
      /\ r.data = [q \in 0..b.total_size-1 |->
                     IF q \in w .. w + n - 1 THEN more[q - w + 1] ELSE b.data[q]]
  BY DEF Store, Block
<1>2. /\ b.total_size \in Nat /\ b.readIndex \in Nat /\ w \in Nat /\ n \in Nat
      /\ b.readIndex <= w /\ w + n <= b.total_size
      /\ b.data \in [0..b.total_size-1 -> Cell]
      /\ \A q \in b.readIndex .. w-1 : b.data[q] \in Byte
      /\ ReadableSize(b) = w - b.readIndex
  BY DEF WellFormed, ReadableSize, WriteableSize, Cell
<1>3. \A q \in 1..n : more[q] \in Byte
  OBVIOUS
<1> HIDE DEF r, n, w
<1>4. \A q \in 0..w-1 : r.data[q] = b.data[q]
  BY <1>1, <1>2
<1>5. \A q \in w..w+n-1 : r.data[q] = more[q - w + 1] /\ r.data[q] \in Byte
  BY <1>1, <1>2, <1>3
<1>6. r.data \in [0..b.total_size-1 -> Cell]
  <2>1. \A q \in 0..b.total_size-1 :
          (IF q \in w .. w + n - 1 THEN more[q - w + 1] ELSE b.data[q]) \in Cell
    <3>1. SUFFICES ASSUME NEW q \in 0..b.total_size-1
                   PROVE  (IF q \in w .. w + n - 1 THEN more[q - w + 1] ELSE b.data[q]) \in Cell
      OBVIOUS
    <3>2. CASE q \in w .. w + n - 1
      <4>1. q - w + 1 \in 1..n
        BY <1>2, <3>2
      <4> QED
        BY <1>3, <3>2, <4>1 DEF Cell
    <3>3. CASE q \notin w .. w + n - 1
      BY <1>2, <3>3
    <3> QED
      BY <3>2, <3>3
  <2> QED
    BY <1>1, <2>1
<1>7. \A q \in r.readIndex .. r.writeIndex-1 : r.data[q] \in Byte
  <2>0. r.readIndex = b.readIndex /\ r.writeIndex - 1 = w + n - 1
    <3>1. r.readIndex = b.readIndex /\ r.writeIndex = w + n /\ w \in Nat /\ n \in Nat
      BY <1>1, <1>2
    <3> QED
      BY <3>1
  <2>1. SUFFICES ASSUME NEW q \in b.readIndex .. w + n - 1 PROVE r.data[q] \in Byte
    BY <2>0
  <2>2. CASE q < w
    <3>1. q \in 0..w-1 /\ q \in b.readIndex .. w-1
      BY <1>2, <2>2
    <3> QED
      BY <1>2, <1>4, <3>1
  <2>3. CASE q >= w
    <3>1. q \in w..w+n-1
      BY <1>2, <2>3
    <3> QED
      BY <1>5, <3>1
  <2> QED
    BY <1>2, <2>2, <2>3
<1>8. WellFormed(r)
  <2>1. /\ r.total_size \in Nat /\ r.readIndex \in Nat /\ r.writeIndex \in Nat
        /\ r.readIndex <= r.writeIndex /\ r.writeIndex <= r.total_size
    BY <1>1, <1>2
  <2>2. r.data \in [0..r.total_size-1 -> Cell]
    BY <1>1, <1>6
  <2> QED
    BY <1>7, <2>1, <2>2 DEF WellFormed, Cell
<1>9. ReadableSize(r) = ReadableSize(b) + n
  BY <1>1, <1>2 DEF ReadableSize
<1>10. Content(r) = Content(b) \o more
  <2>1. /\ Content(r) \in Seq(Byte) /\ Len(Content(r)) = ReadableSize(r)
        /\ \A q \in 1..ReadableSize(r) : Content(r)[q] = r.data[r.readIndex + q - 1]
    BY <1>8, ContentType
  <2>2. /\ Content(b) \in Seq(Byte) /\ Len(Content(b)) = ReadableSize(b)
        /\ ReadableSize(b) \in Nat
        /\ \A q \in 1..ReadableSize(b) : Content(b)[q] = b.data[b.readIndex + q - 1]
    BY ContentType
  <2>3. \A q \in 1..ReadableSize(b) : Content(r)[q] = Content(b)[q]
    <3>1. SUFFICES ASSUME NEW q \in 1..ReadableSize(b) PROVE Content(r)[q] = Content(b)[q]
      OBVIOUS
    <3>2. q \in 1..ReadableSize(r) /\ b.readIndex + q - 1 \in 0..w-1
      BY SMTT(30), <1>2, <1>9
    <3>3. r.data[b.readIndex + q - 1] = b.data[b.readIndex + q - 1]
      BY <1>4, <3>2
    <3> QED
      BY <1>1, <2>1, <2>2, <3>2, <3>3
  <2>4. \A q \in 1..n : Content(r)[ReadableSize(b) + q] = more[q]
    <3>1. SUFFICES ASSUME NEW q \in 1..n PROVE Content(r)[ReadableSize(b) + q] = more[q]
      OBVIOUS
    <3>2. /\ ReadableSize(b) + q \in 1..ReadableSize(r)
          /\ r.readIndex + (ReadableSize(b) + q) - 1 = w + q - 1
          /\ w + q - 1 \in w..w+n-1 /\ w + q - 1 - w + 1 = q
      <4>1. q \in Nat /\ 1 <= q /\ q <= n /\ n \in Nat /\ w \in Nat /\ b.readIndex \in Nat
            /\ b.readIndex <= w
        BY <1>2
      <4>2. ReadableSize(b) = w - b.readIndex /\ ReadableSize(r) = ReadableSize(b) + n
            /\ r.readIndex = b.readIndex
        BY <1>1, <1>2, <1>9
      <4>3. ReadableSize(b) + q \in 1..ReadableSize(r)
        BY <4>1, <4>2
      <4>4. r.readIndex + (ReadableSize(b) + q) - 1 = w + q - 1
        BY <4>1, <4>2
      <4>5. w + q - 1 \in w..w+n-1 /\ w + q - 1 - w + 1 = q
        BY <4>1
      <4> QED
        BY <4>3, <4>4, <4>5
    <3>3. PICK j \in w..w+n-1 : j = w + q - 1 /\ j - w + 1 = q
      <4>1. w \in Nat /\ n \in Nat /\ q \in 1..n
        BY <1>2
      <4>2. w + q - 1 \in w..w+n-1 /\ (w + q - 1) - w + 1 = q
        BY <4>1
      <4> USE <4>2
      <4> WITNESS w + q - 1 \in w..w+n-1
      <4> QED
        OBVIOUS
    <3>4. r.data[w + q - 1] = more[q]
      <4>1. r.data[j] = more[j - w + 1]
        BY <1>5
      <4> QED
        BY <3>3, <4>1
    <3>5. Content(r)[ReadableSize(b) + q] = r.data[r.readIndex + (ReadableSize(b) + q) - 1]
      BY <2>1, <3>2
    <3> QED
      BY <3>2, <3>4, <3>5
  <2>5. more \in Seq(Byte) /\ Len(more) = n
    BY DEF n
  <2>6. Len(Content(b) \o more) = ReadableSize(r) /\ Content(b) \o more \in Seq(Byte)
    BY SMTT(30), <1>9, <2>2, <2>5
  <2>7. \A q \in 1..ReadableSize(r) : Content(r)[q] = (Content(b) \o more)[q]
    <3>1. SUFFICES ASSUME NEW q \in 1..ReadableSize(r)
                   PROVE  Content(r)[q] = (Content(b) \o more)[q]
      OBVIOUS
    <3>2. CASE q <= ReadableSize(b)
      BY <2>2, <2>3, <2>5, <3>2
    <3>3. CASE q > ReadableSize(b)
      <4>1. q - ReadableSize(b) \in 1..n /\ ReadableSize(b) + (q - ReadableSize(b)) = q
        <5>1. ReadableSize(b) \in Nat /\ n \in Nat /\ ReadableSize(r) = ReadableSize(b) + n
          BY <1>2, <1>9, <2>2
        <5>2. q \in Int /\ q <= ReadableSize(b) + n
          BY <5>1
        <5> QED
          BY <3>3, <5>1, <5>2
      <4>2. (Content(b) \o more)[q] = more[q - ReadableSize(b)]
        BY <2>2, <2>5, <3>3, <4>1
      <4> QED
        BY <2>4, <4>1, <4>2
    <3> QED
      <4>1. q \in Int /\ ReadableSize(b) \in Nat
        BY <1>2, <1>9, <2>2
      <4>2. q <= ReadableSize(b) \/ q > ReadableSize(b)
        BY <4>1
      <4> QED
        BY <3>2, <3>3, <4>2, Zenon
  <2> QED
    BY <2>1, <2>6, <2>7, SeqEqual
<1> QED
  BY <1>1, <1>2, <1>8, <1>10 DEF r, n, w, FrontSpareSize, WriteableSize

\* The block is larger afterwards only if what is readable then exceeds the old one.
OnlyWhenFull(b, r) == r.total_size > b.total_size => ReadableSize(r) > b.total_size

(* buffer_append appends.                                                  *)
LEMMA AppendAppends ==
  ASSUME NEW b, WellFormed(b), NEW more \in Seq(Byte)
  PROVE  /\ WellFormed(BufferAppend(b, more))
         /\ Content(BufferAppend(b, more)) = Content(b) \o more
         /\ OnlyWhenFull(b, BufferAppend(b, more))
<1> DEFINE m == MakeRoom(b, Len(more))
<1>1. Len(more) \in Nat
  OBVIOUS
<1>2. /\ WellFormed(m) /\ Content(m) = Content(b) /\ WriteableSize(m) >= Len(more)
      /\ WriteableSize(m) \in Int
  BY SMTT(30), <1>1, MakeRoomMakesRoom DEF WellFormed, WriteableSize
<1>3. m.total_size > b.total_size => ReadableSize(b) + Len(more) > b.total_size
  <2>1. CASE MustGrow(b, Len(more))
    BY <1>1, <2>1 DEF MustGrow, FrontSpareSize, WriteableSize, ReadableSize, WellFormed
  <2>2. CASE ~MustGrow(b, Len(more))
    BY <2>2 DEF MakeRoom, Compact, Block, WellFormed
  <2> QED
    BY <2>1, <2>2
<1>4. BufferAppend(b, more) = Store(m, more)
  BY DEF BufferAppend
<1> HIDE DEF m
<1>5. /\ WellFormed(Store(m, more)) /\ Content(Store(m, more)) = Content(m) \o more
      /\ Store(m, more).total_size = m.total_size
  BY <1>1, <1>2, StoreAppends DEF Store, Block
<1>6. ReadableSize(Store(m, more)) = ReadableSize(b) + Len(more)
  <2>1. /\ Len(Content(Store(m, more))) = ReadableSize(Store(m, more))
        /\ Content(b) \in Seq(Byte) /\ Len(Content(b)) = ReadableSize(b)
    BY <1>5, ContentType
  <2>2. Content(Store(m, more)) = Content(b) \o more
    BY <1>2, <1>5
  <2>3. Len(Content(b) \o more) = Len(Content(b)) + Len(more)
    BY <2>1, ConcatProperties
  <2> QED
    BY <2>1, <2>2, <2>3
<1> QED
  BY <1>2, <1>3, <1>4, <1>5, <1>6 DEF OnlyWhenFull

(* buffer_socket_read appends, also when the bytes spill over.             *)
LEMMA SocketReadAppends ==
  ASSUME NEW b, WellFormed(b), NEW more \in Seq(Byte)
  PROVE  /\ WellFormed(SocketRead(b, more))
         /\ Content(SocketRead(b, more)) = Content(b) \o more
         /\ OnlyWhenFull(b, SocketRead(b, more))
<1>1. Len(more) \in Nat /\ WriteableSize(b) \in Nat
  BY DEF WellFormed, WriteableSize
<1>2. CASE Fits(b, more)
  <2>1. Store(b, more).total_size = b.total_size /\ b.total_size \in Nat
    BY DEF Store, Block, WellFormed
  <2> QED
    BY <1>1, <1>2, <2>1, StoreAppends DEF SocketRead, Fits, OnlyWhenFull
<1>3. CASE ~Fits(b, more)
  <2> DEFINE k == WriteableSize(b)
             head == SubSeq(more, 1, k)
             s == Store(b, head)
  <2>1. k \in 1..Len(more)-1 \/ k = 0
    BY <1>1, <1>3 DEF Fits
  <2>2. head \in Seq(Byte) /\ Len(head) = k /\ Spill(b, more) \in Seq(Byte)
    BY <1>1, <1>3 DEF Fits, Spill
  <2>3. head \o Spill(b, more) = more
    <3>1. Len(head \o Spill(b, more)) = Len(more) /\ head \o Spill(b, more) \in Seq(Byte)
      BY <1>1, <1>3, <2>2 DEF Fits, Spill
    <3>2. \A q \in 1..Len(more) : (head \o Spill(b, more))[q] = more[q]
      BY SMTT(30), <1>1, <1>3, <2>2 DEF Fits, Spill
    <3> QED
      BY <3>1, <3>2, SeqEqual
  <2>4. SocketRead(b, more) = BufferAppend(s, Spill(b, more))
    BY <1>3 DEF SocketRead
  <2>5. s.total_size = b.total_size
    BY DEF Store, Block
  <2> HIDE DEF k, s, head
  <2>6. WellFormed(s) /\ Content(s) = Content(b) \o head
    BY <1>1, <2>2, StoreAppends DEF k, s
  <2>7. /\ WellFormed(SocketRead(b, more))
        /\ Content(SocketRead(b, more)) = (Content(b) \o head) \o Spill(b, more)
        /\ OnlyWhenFull(s, SocketRead(b, more))
    BY <2>2, <2>4, <2>6, AppendAppends
  <2>8. Content(SocketRead(b, more)) = Content(b) \o more
    <3>1. Content(b) \in Seq(Byte)
      BY ContentType
    <3>2. \A x, y, z \in Seq(Byte) : (x \o y) \o z = x \o (y \o z)
      BY ConcatAssociative
    <3>3. (Content(b) \o head) \o Spill(b, more) = Content(b) \o (head \o Spill(b, more))
      BY <2>2, <3>1, <3>2
    <3> QED
      BY <2>3, <2>7, <3>3
  <2> QED
    BY <2>5, <2>7, <2>8 DEF OnlyWhenFull
<1> QED
  BY <1>2, <1>3

(* Advancing the read index takes bytes off the front.                     *)
LEMMA RetrieveTakes ==
  ASSUME NEW b, WellFormed(b), NEW n \in 1..ReadableSize(b)
  PROVE  /\ WellFormed(Retrieve(b, n))
         /\ Content(Retrieve(b, n)) = SubSeq(Content(b), n + 1, Len(Content(b)))
         /\ n \in 1..Len(Content(b))
         /\ Retrieve(b, n).total_size = b.total_size
<1> DEFINE r == Retrieve(b, n)
<1>1. /\ r.data = b.data /\ r.total_size = b.total_size
      /\ r.readIndex = b.readIndex + n /\ r.writeIndex = b.writeIndex
  BY DEF Retrieve, Block
<1> HIDE DEF r
<1>2. /\ b.readIndex \in Nat /\ b.writeIndex \in Nat /\ b.readIndex <= b.writeIndex
      /\ ReadableSize(b) = b.writeIndex - b.readIndex
  BY DEF WellFormed, ReadableSize
<1>3. WellFormed(r)
  BY <1>1, <1>2 DEF WellFormed
<1>4. ReadableSize(r) = ReadableSize(b) - n
  BY <1>1, <1>2 DEF ReadableSize
<1>5. /\ Content(b) \in Seq(Byte) /\ Len(Content(b)) = ReadableSize(b)
      /\ ReadableSize(b) \in Nat
      /\ \A q \in 1..ReadableSize(b) : Content(b)[q] = b.data[b.readIndex + q - 1]
  BY ContentType
<1>6. Content(r) \in Seq(Byte) /\ Len(Content(r)) = ReadableSize(r)
      /\ \A q \in 1..ReadableSize(r) : Content(r)[q] = r.data[r.readIndex + q - 1]
  BY <1>3, ContentType
<1> DEFINE tail == SubSeq(Content(b), n + 1, ReadableSize(b))
<1>7. tail \in Seq(Byte) /\ Len(tail) = ReadableSize(b) - n
  BY <1>5
<1>8. \A q \in 1..ReadableSize(b)-n : Content(r)[q] = tail[q]
  <2>1. SUFFICES ASSUME NEW q \in 1..ReadableSize(b)-n PROVE Content(r)[q] = tail[q]
    OBVIOUS
  <2>2. Content(r)[q] = b.data[b.readIndex + n + q - 1]
    BY <1>1, <1>4, <1>6
  <2>3. tail[q] = Content(b)[n + q]
    BY <1>5
  <2>4. n + q \in 1..ReadableSize(b) /\ b.readIndex + (n + q) - 1 = b.readIndex + n + q - 1
    BY <1>2, <1>5
  <2> QED
    BY <1>5, <2>2, <2>3, <2>4
<1>9. Content(r) = tail
  BY <1>4, <1>6, <1>7, <1>8, SeqEqual
<1> QED
  BY <1>1, <1>3, <1>5, <1>9 DEF r

-----------------------------------------------------------------------------
LEMMA NewIsEmpty ==
  WellFormed(BufferNew(InitSize)) /\ Content(BufferNew(InitSize)) = << >>
<1> DEFINE r == BufferNew(InitSize)
<1>1. /\ r.data = [q \in 0..InitSize-1 |-> Garbage] /\ r.total_size = InitSize
      /\ r.readIndex = 0 /\ r.writeIndex = 0
  BY DEF BufferNew, Block
<1> HIDE DEF r
<1>2. WellFormed(r)
  BY <1>1, BufferAssumption DEF WellFormed
<1>3. Content(r) \in Seq(Byte) /\ Len(Content(r)) = 0
  BY <1>1, <1>2, ContentType DEF ReadableSize
<1> QED
  BY <1>2, <1>3 DEF r

(* What each step does to the stream of bytes and to the block.            *)
LEMMA StepEffect ==
  ASSUME TypeOK, Next
  PROVE  /\ WellFormed(buf')
         /\ \/ \E chunk \in Chunks : Content(buf') = Content(buf) \o chunk
            \/ \E n \in 1..Len(Content(buf)) :
                 Content(buf') = SubSeq(Content(buf), n + 1, Len(Content(buf)))
            \/ buf' = buf
         /\ OnlyWhenFull(buf, buf')
<1>1. WellFormed(buf) /\ Chunks \subseteq Seq(Byte)
  BY BufferAssumption DEF TypeOK
<1>2. ASSUME NEW chunk \in Chunks, Append_(chunk)
      PROVE  /\ WellFormed(buf') /\ Content(buf') = Content(buf) \o chunk
             /\ OnlyWhenFull(buf, buf')
  BY <1>1, <1>2, AppendAppends DEF Append_, Becomes
<1>3. ASSUME NEW chunk \in Chunks, ReadSocket(chunk)
      PROVE  /\ WellFormed(buf') /\ Content(buf') = Content(buf) \o chunk
             /\ OnlyWhenFull(buf, buf')
  BY <1>1, <1>3, SocketReadAppends DEF ReadSocket, Becomes
<1>4. ASSUME NEW chunk \in Chunks, Overrun(chunk)
      PROVE  buf' = buf
  BY <1>4 DEF Overrun
<1>5. ASSUME NEW n \in 1..MaxSize, Take(n)
      PROVE  /\ WellFormed(buf') /\ n \in 1..Len(Content(buf))
             /\ Content(buf') = SubSeq(Content(buf), n + 1, Len(Content(buf)))
             /\ buf'.total_size = buf.total_size
  BY <1>1, <1>5, RetrieveTakes DEF Take, Becomes
<1>6. buf.total_size \in Nat
  BY <1>1 DEF WellFormed
<1>7. (buf' = buf \/ buf'.total_size = buf.total_size) => OnlyWhenFull(buf, buf')
  BY <1>6 DEF OnlyWhenFull
<1> QED
  BY <1>1, <1>2, <1>3, <1>4, <1>5, <1>7 DEF Next

(* No operation ever reads a byte that was not written or leaves an index  *)
(* outside the block, however appends, reads and retrievals alternate: the *)
(* type invariant is inductive.                                            *)
THEOREM BufferTypeCorrect == Spec => []TypeOK
<1>1. Init => TypeOK
  BY NewIsEmpty DEF Init, TypeOK
<1>2. TypeOK /\ [Next]_vars => TypeOK'
  <2> SUFFICES ASSUME TypeOK, [Next]_vars PROVE TypeOK'
    OBVIOUS
  <2>1. CASE Next
    <3>1. overrun' \in {"no", "yes"}
      BY <2>1 DEF Next, Append_, ReadSocket, Take, Overrun, Becomes, TypeOK
    <3> QED
      BY <2>1, <3>1, StepEffect DEF TypeOK
  <2>2. CASE UNCHANGED vars
    BY <2>2 DEF vars, TypeOK
  <2> QED
    BY <2>1, <2>2
<1> QED
  BY <1>1, <1>2, PTL DEF Spec

(* make_room takes more memory only when the bytes to be readable would    *)
(* not have fitted the old block, whatever was wasted at the front.        *)
THEOREM SpareSpaceIsUsedFirst == Spec => GrowsOnlyWhenFull
<1>1. TypeOK /\ [Next]_vars =>
        [buf'.total_size > buf.total_size => ReadableSize(buf') > buf.total_size]_vars
  BY StepEffect DEF OnlyWhenFull
<1> QED
  BY <1>1, BufferTypeCorrect, PTL DEF Spec, GrowsOnlyWhenFull

(* To its users a buffer is a queue of bytes: moving them to the front,    *)
(* growing the block and spilling over to the stack lose, repeat and       *)
(* reorder nothing.                                                        *)
THEOREM BufferIsByteQueue == Spec => ImplementsByteQueue
<1>1. Init => Queue!Init
  BY NewIsEmpty DEF Init, Queue!Init
<1>2. TypeOK /\ [Next]_vars => [Queue!Next]_(Content(buf))
  <2> SUFFICES ASSUME TypeOK, [Next]_vars PROVE [Queue!Next]_(Content(buf))
    OBVIOUS
  <2>1. CASE Next
    <3>1. CASE \E chunk \in Chunks : Content(buf') = Content(buf) \o chunk
      BY <3>1 DEF Queue!Next, Queue!Put
    <3>2. CASE \E n \in 1..Len(Content(buf)) :
                 Content(buf') = SubSeq(Content(buf), n + 1, Len(Content(buf)))
      BY <3>2 DEF Queue!Next, Queue!Take
    <3>3. CASE buf' = buf
      BY <3>3
    <3> QED
      BY <2>1, <3>1, <3>2, <3>3, StepEffect
  <2>2. CASE UNCHANGED vars
    BY <2>2 DEF vars
  <2> QED
    BY <2>1, <2>2
<1> QED
  BY <1>1, <1>2, BufferTypeCorrect, PTL DEF Spec, ImplementsByteQueue, Queue!Spec
=============================================================================
