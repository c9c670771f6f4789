--------------------------- MODULE ReactorProofs ---------------------------
(***************************************************************************)
(* No loop sleeps through a hand-over, for every number of loops,          *)
(* connections and descriptors and every capacity of the wake-up pair.     *)
(***************************************************************************)
EXTENDS Reactor, SetInduction, TLAPS

PcValues == {"off", "init", "start", "await", "dispatch", "events", "add", "wake", "data"}

WakeTypes ==
  /\ pc \in [Loops -> PcValues]
  /\ DOMAIN pending = Loops
  /\ wake \in [Loops -> Nat]
  /\ DOMAIN batch = Loops
  /\ target \in Loops /\ launched \in 0..PoolSize /\ position \in Nat
  /\ PoolSize > 0 => position < PoolSize

\* Main hands over only once every sub-loop was initialised.
StartInv ==
  /\ pc[Main] \notin {"off", "init"}
  /\ pc[Main] \notin {"start", "await"} => launched = PoolSize
  /\ \A l \in Workers : pc[l] \in {"off", "init"} =>
       l > launched \/ (l = launched /\ pc[Main] = "await")
  /\ \A l \in Workers : pc[l] \notin {"start", "await", "add", "wake", "data"}

\* Nobody leaves work to a loop that is not running, and Main never leaves it to itself.
ListInv ==
  /\ pc[Main] \in {"start", "await"} => \A l \in Loops : pending[l] = << >>
  /\ pending[Main] = << >>
  /\ pc[Main] = "wake" => target # Main

\* An event of the wake-up pair stands for a byte nobody else reads.
ByteInv == \A l \in Loops : <<"wake", None>> \in batch[l] => wake[l] > 0

WakeInv == WakeTypes /\ StartInv /\ ListInv /\ ByteInv /\ NoLostWakeup

LEMMA LoopFacts == Main \in Loops /\ Workers \subseteq Loops /\ Main \notin Workers
                   /\ \A l \in Loops : l # Main => l \in Workers
BY ReactorAssumption DEF Main, Loops, Workers

LEMMA WakeInit == Init => WakeInv
BY ReactorAssumption, LoopFacts
DEF Init, WakeInv, WakeTypes, StartInv, ListInv, ByteInv, NoLostWakeup, PcValues, Loops, Workers, Main

\* Steps that move no thread but maybe change what is in the lists and pairs of one
\* loop that is not asleep.
LEMMA WakeQuiet ==
  ASSUME WakeInv, NEW l \in Loops, pc[l] = "events",
         pc' = pc,
         pending' = pending \/ pending' = [pending EXCEPT ![l] = << >>],
         \/ wake' = wake
         \/ wake' = [wake EXCEPT ![l] = @ - 1] /\ <<"wake", None>> \in batch[l] \ batch'[l],
         DOMAIN batch' = Loops, \A k \in Loops : batch'[k] \subseteq batch[k],
         UNCHANGED <<target, launched, position>>
  PROVE  WakeInv'
<1> USE LoopFacts DEF WakeInv
<1>1. \A k \in Loops : wake'[k] \in Nat
  BY DEF WakeTypes, ByteInv
<1>2. wake' \in [Loops -> Nat]
  BY <1>1 DEF WakeTypes
<1>3. WakeTypes'
  BY <1>2 DEF WakeTypes, PcValues
<1>4. ByteInv'
  BY DEF WakeTypes, ByteInv
<1>5. StartInv'
  BY DEF WakeTypes, StartInv
<1>6. ListInv'
  BY DEF WakeTypes, StartInv, ListInv
<1>7. NoLostWakeup'
  BY DEF WakeTypes, NoLostWakeup
<1> QED
  BY <1>3, <1>4, <1>5, <1>6, <1>7

LEMMA WakeNext ==
  ASSUME WakeInv, [Next]_vars
  PROVE  WakeInv'
<1> USE LoopFacts DEF loopVars, mainVars, Goto
<1>1. CASE UNCHANGED vars \/ Quiet \/ Peer
  <2>1. UNCHANGED <<pc, pending, batch, wake, target, launched, position>>
    BY <1>1 DEF vars, Quiet, Peer, Connect, Arrive
  <2> QED
    BY <2>1 DEF WakeInv, WakeTypes, StartInv, ListInv, ByteInv, NoLostWakeup
<1>2. CASE Launch
  <2>1. /\ launched \in 0..PoolSize /\ launched < PoolSize /\ launched + 1 \in Workers
        /\ pc[Main] = "start" /\ pc' = [pc EXCEPT ![Main] = "await", ![launched + 1] = "init"]
        /\ launched' = launched + 1 /\ UNCHANGED <<pending, batch, wake, target, position>>
    BY <1>2, ReactorAssumption DEF Launch, WakeInv, WakeTypes, Workers
  <2>2. WakeTypes'
    BY <2>1, ReactorAssumption DEF WakeInv, WakeTypes, PcValues
  <2>3. StartInv'
    BY <2>1, ReactorAssumption DEF WakeInv, WakeTypes, StartInv, Workers
  <2>4. ListInv' /\ ByteInv' /\ NoLostWakeup'
    BY <2>1 DEF WakeInv, WakeTypes, ListInv, ByteInv, NoLostWakeup
  <2> QED
    BY <2>2, <2>3, <2>4 DEF WakeInv
<1>3. ASSUME NEW l \in Loops, InitLoop(l) PROVE WakeInv'
  <2>1. /\ pc[l] = "init" /\ pc' = [pc EXCEPT ![l] = "dispatch"] /\ l \in Workers
        /\ UNCHANGED <<pending, batch, wake, target, launched, position>>
    BY <1>3 DEF InitLoop, WakeInv, StartInv
  <2>2. pending[l] = << >>
    BY <2>1, ReactorAssumption DEF WakeInv, WakeTypes, StartInv, ListInv, Workers
  <2>3. WakeTypes' /\ StartInv' /\ ListInv' /\ ByteInv'
    BY <2>1 DEF WakeInv, WakeTypes, PcValues, StartInv, ListInv, ByteInv
  <2>4. NoLostWakeup'
    BY <2>1, <2>2 DEF WakeInv, WakeTypes, NoLostWakeup
  <2> QED
    BY <2>3, <2>4 DEF WakeInv
<1>4. CASE Awaited \/ Listen
  <2>1. /\ pc[Main] \in {"await", "start"}
        /\ UNCHANGED <<pending, batch, wake, target, launched, position>>
        /\ \/ pc' = [pc EXCEPT ![Main] = "start"] /\ pc[launched] \notin {"off", "init"}
           \/ pc' = [pc EXCEPT ![Main] = "dispatch"] /\ launched = PoolSize /\ pc[Main] = "start"
    BY <1>4 DEF Awaited, Listen
  <2>2. WakeTypes'
    BY <2>1 DEF WakeInv, WakeTypes, PcValues
  <2>3. StartInv'
    BY <2>1 DEF WakeInv, WakeTypes, StartInv
  <2>4. ListInv' /\ ByteInv' /\ NoLostWakeup'
    BY <2>1 DEF WakeInv, WakeTypes, ListInv, ByteInv, NoLostWakeup
  <2> QED
    BY <2>2, <2>3, <2>4 DEF WakeInv
<1>5. ASSUME NEW l \in Loops, Dispatch(l) PROVE WakeInv'
  <2>1. /\ pc[l] = "dispatch" /\ pc' = [pc EXCEPT ![l] = "events"]
        /\ batch' = [batch EXCEPT ![l] = Events(l)]
        /\ UNCHANGED <<pending, wake, target, launched, position>>
    BY <1>5 DEF Dispatch
  <2>2. <<"wake", None>> \in Events(l) => wake[l] > 0
    BY DEF Events
  <2>3. ByteInv'
    BY <2>1, <2>2 DEF WakeInv, WakeTypes, ByteInv
  <2> QED
    BY <2>1, <2>3 DEF WakeInv, WakeTypes, PcValues, StartInv, ListInv, NoLostWakeup
<1>6. ASSUME NEW l \in Loops, HandleWakeup(l) \/ \E fd \in Fds : HangUp(l, fd) \/ Callback(l, fd)
      PROVE  WakeInv'
  <2>1. WakeTypes
    BY DEF WakeInv
  <2>2. CASE HandleWakeup(l)
    <3>1. /\ pc[l] = "events" /\ <<"wake", None>> \in batch[l]
          /\ batch' = [batch EXCEPT ![l] = @ \ {<<"wake", None>>}]
          /\ wake' = [wake EXCEPT ![l] = @ - 1]
          /\ UNCHANGED <<pc, pending, target, launched, position>>
      BY <2>2 DEF HandleWakeup, Event
    <3> QED
      BY <2>1, <3>1, WakeQuiet DEF WakeTypes
  <2>3. ASSUME NEW fd \in Fds, HangUp(l, fd) \/ Message(l, fd) PROVE WakeInv'
    <3>1. \E e \in batch[l] : Event(l, e)
      BY <2>3 DEF HangUp, Message, Event
    <3>2. UNCHANGED <<pc, pending, wake, target, launched, position>>
      BY <2>3 DEF HangUp, Message
    <3> QED
      BY <2>1, <3>1, <3>2, WakeQuiet DEF WakeTypes, Event
  <2>4. ASSUME NEW fd \in Fds, Closed(l, fd) PROVE WakeInv'
    <3>1. \E e \in batch[l] : Event(l, e)
      BY <2>4 DEF Closed, Event
    <3>2. pending' = [pending EXCEPT ![l] = << >>] /\ UNCHANGED <<pc, wake, target, launched, position>>
      BY <2>4 DEF Closed, HandlePending
    <3> QED
      BY <2>1, <3>1, <3>2, WakeQuiet DEF WakeTypes, Event
  <2> QED
    BY <1>6, <2>2, <2>3, <2>4 DEF Callback
<1>7. ASSUME NEW l \in Loops, EndOfTurn(l) PROVE WakeInv'
  <2>1. /\ pc[l] = "events" /\ pc' = [pc EXCEPT ![l] = "dispatch"]
        /\ pending' = [pending EXCEPT ![l] = << >>]
        /\ UNCHANGED <<batch, wake, target, launched, position>>
    BY <1>7 DEF EndOfTurn, HandlePending
  <2> QED
    BY <2>1 DEF WakeInv, WakeTypes, PcValues, StartInv, ListInv, ByteInv, NoLostWakeup
<1>8. CASE AcceptFails \/ \E c \in Conns, fd \in Fds : Accept(c, fd)
  <2>1. /\ pc[Main] = "events" /\ pc' = [pc EXCEPT ![Main] = "add"] /\ GetLoop
        /\ DOMAIN batch' = Loops /\ \A k \in Loops : batch'[k] \subseteq batch[k]
        /\ UNCHANGED <<pending, wake, launched>>
    BY <1>8 DEF AcceptFails, Accept, Event, WakeInv, WakeTypes
  <2>2. target' \in Loops /\ position' \in Nat /\ (PoolSize > 0 => position' < PoolSize)
    BY <2>1, ReactorAssumption DEF GetLoop, NextPosition, WakeInv, WakeTypes, Loops, Main
  <2>3. WakeTypes'
    BY <2>1, <2>2 DEF WakeInv, WakeTypes, PcValues
  <2>4. StartInv' /\ ListInv' /\ ByteInv'
    BY <2>1 DEF WakeInv, WakeTypes, StartInv, ListInv, ByteInv
  <2>5. NoLostWakeup'
    BY <2>1 DEF WakeInv, WakeTypes, NoLostWakeup
  <2> QED
    BY <2>3, <2>4, <2>5 DEF WakeInv
<1>9. CASE Register
  <2>1. /\ pc[Main] = "add" /\ UNCHANGED <<batch, wake, target, launched, position>>
        /\ \/ target = Main /\ pc' = [pc EXCEPT ![Main] = "data"]
              /\ pending' = [pending EXCEPT ![Main] = << >>]
           \/ target # Main /\ pc' = [pc EXCEPT ![Main] = "wake"]
              /\ \E list : pending' = [pending EXCEPT ![target] = list]
    BY <1>9 DEF Register, HandlePending
  <2>2. WakeTypes' /\ StartInv' /\ ByteInv'
    BY <2>1 DEF WakeInv, WakeTypes, PcValues, StartInv, ByteInv
  <2>3. ListInv'
    BY <2>1 DEF WakeInv, WakeTypes, ListInv
  <2>4. NoLostWakeup'
    BY <2>1 DEF WakeInv, WakeTypes, NoLostWakeup
  <2> QED
    BY <2>2, <2>3, <2>4 DEF WakeInv
<1>10. CASE Wakeup
  <2>1. /\ pc[Main] = "wake" /\ pc' = [pc EXCEPT ![Main] = "data"]
        /\ wake' = [wake EXCEPT ![target] = @ + 1]
        /\ UNCHANGED <<pending, batch, target, launched, position>>
    BY <1>10 DEF Wakeup
  <2>2. WakeTypes' /\ StartInv' /\ ListInv' /\ ByteInv'
    BY <2>1 DEF WakeInv, WakeTypes, PcValues, StartInv, ListInv, ByteInv
  <2>3. NoLostWakeup'
    BY <2>1 DEF WakeInv, WakeTypes, NoLostWakeup
  <2> QED
    BY <2>2, <2>3 DEF WakeInv
<1>11. CASE SetData
  <2>1. /\ pc[Main] = "data" /\ pc' = [pc EXCEPT ![Main] = "events"]
        /\ UNCHANGED <<pending, batch, wake, target, launched, position>>
    BY <1>11 DEF SetData
  <2> QED
    BY <2>1 DEF WakeInv, WakeTypes, PcValues, StartInv, ListInv, ByteInv, NoLostWakeup
<1> QED
  BY <1>1, <1>2, <1>3, <1>4, <1>5, <1>6, <1>7, <1>8, <1>9, <1>10, <1>11
  DEF Next, StartStep, HandOver, LoopStep

Places == [entries : [Fds -> Channels], watched : SUBSET (Fds \cup {None})]
Elements == {"add", "remove"} \X Channels

LEMMA ElementKeepsType ==
  ASSUME TypeOK, NEW at \in Places, NEW e \in Elements, e[1] = "remove" => e[2] # None
  PROVE  HandleElement(at, e) \in Places
<1>1. e[2] # None => e[2] \in Conns /\ fdOf[e[2]] \in Fds \cup {None}
  BY DEF TypeOK, Channels, Elements
<1>2. PendingAdd(at, e[2]) \in Places
  BY <1>1 DEF PendingAdd, Places, Channels, Elements
<1>3. e[2] # None => PendingRemove(at, e[2]) \in Places
  BY <1>1 DEF PendingRemove, Places, Channels
<1> QED
  BY <1>2, <1>3 DEF HandleElement, Elements

LEMMA WalkDefined ==
  ASSUME TypeOK, NEW l \in Loops, NEW list \in Seq(Elements),
         \A i \in 1..Len(list) : list[i][1] = "remove" => list[i][2] # None
  PROVE  /\ PendingWalk(l, list)[0] = [entries |-> entries[l], watched |-> watched[l]]
         /\ \A i \in 1..Len(list) :
              /\ PendingWalk(l, list)[i - 1] \in Places
              /\ PendingWalk(l, list)[i] = HandleElement(PendingWalk(l, list)[i - 1], list[i])
<1> DEFINE n == Len(list)
           base == [entries |-> entries[l], watched |-> watched[l]]
           step == [p \in Places \X (1..n) |-> HandleElement(p[1], list[p[2]])]
           Body(w) == [i \in 0..n |-> IF i = 0 THEN base ELSE HandleElement(w[i - 1], list[i])]
<1>1. n \in Nat /\ base \in Places /\ \A i \in 1..n : list[i] \in Elements
  BY DEF TypeOK, Places
<1>2. step \in [Places \X (1..n) -> Places]
  BY <1>1, ElementKeepsType
<1>3. PICK v \in [0..n -> Places] : IsWalk(v, base, n, step)
  <2> HIDE DEF n, base, step
  <2> QED BY <1>1, <1>2, WalkExists
<1>4. \A i \in 1..n : v[i] = HandleElement(v[i - 1], list[i])
  <2>1. ASSUME NEW i \in 1..n PROVE v[i] = HandleElement(v[i - 1], list[i])
    <3>1. i \in 1..n /\ v[i - 1] \in Places
      BY <1>1
    <3>2. <<v[i - 1], i>> \in Places \X (1..n)
      BY <3>1
    <3>3. step[<<v[i - 1], i>>] = HandleElement(v[i - 1], list[i])
      <4> HIDE DEF n
      <4> QED BY <3>2
    <3> QED
      BY <1>3, <3>3 DEF IsWalk
  <2> QED
    BY <2>1
<1>5. v = Body(v)
  <2> HIDE DEF base
  <2> QED BY <1>1, <1>3, <1>4 DEF IsWalk
<1>6. PendingWalk(l, list) = CHOOSE w : w = Body(w)
  BY DEF PendingWalk
<1> DEFINE w == PendingWalk(l, list)
<1>7. w = Body(w)
  <2> HIDE DEF Body, w
  <2>1. w = CHOOSE u : u = Body(u)
    BY <1>6 DEF w
  <2> QED BY <1>5, <2>1
<1> HIDE DEF w
<1>8. w[0] = base /\ \A i \in 1..n : w[i] = HandleElement(w[i - 1], list[i])
  <2> HIDE DEF base
  <2> QED BY <1>1, <1>7
<1>9. \A i \in 0..n : w[i] \in Places
  <2>1. ASSUME NEW i \in 1..n, w[i - 1] \in Places PROVE w[i] \in Places
    BY <1>1, <1>8, <2>1, ElementKeepsType
  <2> HIDE DEF n, base
  <2> QED
    BY <1>1, <1>8, <2>1, WalkStays
<1> QED
  BY <1>1, <1>8, <1>9 DEF w
\* The connections the first n elements of a list add, and what is added to loop l
\* when those of L are: a descriptor that has an entry keeps it.
Named(list, n) == {c \in Conns : \E i \in 1..n : list[i] = <<"add", c>>}
Added(l, L)    == {fd \in Fds : entries[l][fd] = None /\ owner[fd] \in L}
With(l, D)     == [entries |-> [fd \in Fds |-> IF fd \in D THEN owner[fd] ELSE entries[l][fd]],
                   watched |-> watched[l] \cup D]

FdInv ==
  /\ \A fd \in Fds : owner[fd] # None => fdOf[owner[fd]] = fd
  /\ \A c \in backlog : fdOf[c] = None
  /\ \A l \in Loops, fd \in Fds : entries[l][fd] # None => fdOf[entries[l][fd]] = fd

\* The elements of a list add open connections; a removal comes from Closed.
Orderly(list) ==
  /\ list \in Seq(Elements)
  /\ \A i \in 1..Len(list) : list[i][1] = "remove" => list[i][2] # None
AddsOpen(list, n) ==
  \A i \in 1..n : list[i][1] = "add" /\
     (list[i][2] # None => fdOf[list[i][2]] \in Fds /\ owner[fdOf[list[i][2]]] = list[i][2])

LEMMA ElementAdds ==
  ASSUME TypeOK, FdInv, NEW l \in Loops, NEW L \in SUBSET Conns, NEW c \in Conns,
         fdOf[c] \in Fds, owner[fdOf[c]] = c
  PROVE  PendingAdd(With(l, Added(l, L)), c) = With(l, Added(l, L \cup {c}))
<1> DEFINE fd == fdOf[c]
           D == Added(l, L)
<1>1. c # None /\ \A f \in Fds : owner[f] = c => f = fd
  BY ReactorAssumption DEF FdInv
<1>2. With(l, D).entries[fd] = (IF fd \in D THEN c ELSE entries[l][fd])
  BY DEF With
<1>3. CASE entries[l][fd] # None
  <2>1. Added(l, L \cup {c}) = D
    BY <1>1, <1>3 DEF Added
  <2>2. With(l, D).entries[fd] # None
    BY <1>1, <1>2, <1>3
  <2> QED
    BY <2>1, <2>2 DEF PendingAdd
<1>4. CASE entries[l][fd] = None /\ fd \in D
  <2>1. Added(l, L \cup {c}) = D
    BY <1>1, <1>4 DEF Added
  <2>2. With(l, D).entries[fd] # None
    BY <1>1, <1>2, <1>4
  <2> QED
    BY <2>1, <2>2 DEF PendingAdd
<1>5. CASE entries[l][fd] = None /\ fd \notin D
  <2>1. Added(l, L \cup {c}) = D \cup {fd}
    BY <1>1, <1>5 DEF Added
  <2>2. With(l, D).entries[fd] = None
    BY <1>2, <1>5
  <2>3. PendingAdd(With(l, D), c) =
          [entries |-> [With(l, D).entries EXCEPT ![fd] = c], watched |-> With(l, D).watched \cup {fd}]
    BY <1>1, <2>2 DEF PendingAdd
  <2> HIDE DEF D, fd
  <2>4. fd \in Fds /\ owner[fd] = c
    BY DEF fd
  <2>5. With(l, D \cup {fd}).entries = [With(l, D).entries EXCEPT ![fd] = c]
    BY <2>4 DEF With
  <2>6. With(l, D \cup {fd}).watched = With(l, D).watched \cup {fd}
    BY DEF With
  <2>7. With(l, D \cup {fd}) = [entries |-> With(l, D \cup {fd}).entries, watched |-> With(l, D \cup {fd}).watched]
    BY DEF With
  <2> QED
    BY <2>1, <2>3, <2>5, <2>6, <2>7 DEF D, fd
<1> QED
  BY <1>3, <1>4, <1>5

LEMMA AddsTogether ==
  ASSUME TypeOK, FdInv, NEW l \in Loops, NEW list, Orderly(list), NEW n \in 0..Len(list),
         AddsOpen(list, n)
  PROVE  PendingWalk(l, list)[n] = With(l, Added(l, Named(list, n)))
<1> DEFINE w == PendingWalk(l, list)
           G == {k \in Nat : k <= n => w[k] = With(l, Added(l, Named(list, k)))}
<1>1. /\ w[0] = [entries |-> entries[l], watched |-> watched[l]]
      /\ \A i \in 1..Len(list) : w[i] = HandleElement(w[i - 1], list[i])
  BY WalkDefined DEF Orderly
<1> HIDE DEF w
<1>2. 0 \in G
  <2>1. Named(list, 0) = {}
    BY DEF Named
  <2>2. Added(l, {}) = {}
    BY DEF Added
  <2>3. With(l, {}) = [entries |-> entries[l], watched |-> watched[l]]
    BY DEF With, TypeOK
  <2> QED
    BY <1>1, <2>1, <2>2, <2>3
<1>3. ASSUME NEW k \in Nat, k \in G PROVE k + 1 \in G
  <2> SUFFICES ASSUME k + 1 <= n PROVE w[k + 1] = With(l, Added(l, Named(list, k + 1)))
    OBVIOUS
  <2> DEFINE e == list[k + 1]
             c == e[2]
             N == Named(list, k)
  <2>1. k + 1 \in 1..Len(list) /\ e \in Elements /\ e[1] = "add" /\ e = <<"add", c>> /\ c \in Channels
    <3>1. k + 1 \in 1..Len(list) /\ k + 1 \in 1..n
      BY DEF Orderly
    <3>2. e \in Elements
      BY <3>1 DEF Orderly
    <3>3. e[1] = "add"
      BY <3>1 DEF AddsOpen
    <3> QED
      BY <3>1, <3>2, <3>3 DEF Elements
  <2>2. w[k + 1] = PendingAdd(With(l, Added(l, N)), c)
    BY <1>1, <1>3, <2>1 DEF HandleElement
  <2>3. CASE c = None
    <3>1. Named(list, k + 1) = N
      <4>1. e \notin {<<"add", d>> : d \in Conns}
        BY <2>1, <2>3, ReactorAssumption
      <4>2. ASSUME NEW d \in Conns, NEW i \in 1..(k + 1), list[i] = <<"add", d>> PROVE i \in 1..k
        <5>1. i # k + 1
          BY <4>1, <4>2
        <5> QED
          BY <5>1
      <4>3. \A i \in 1..k : i \in 1..(k + 1)
        OBVIOUS
      <4> QED
        BY <4>2, <4>3 DEF Named
    <3> QED
      BY <2>2, <2>3, <3>1 DEF PendingAdd
  <2>4. CASE c # None
    <3>1. c \in Conns /\ fdOf[c] \in Fds /\ owner[fdOf[c]] = c
      <4>1. k + 1 \in 1..n
        OBVIOUS
      <4> QED
        BY <2>1, <2>4, <4>1 DEF AddsOpen, Channels
    <3>2. Named(list, k + 1) = N \cup {c}
      <4>1. ASSUME NEW d \in Conns, NEW i \in 1..(k + 1), list[i] = <<"add", d>> PROVE i \in 1..k \/ d = c
        BY <2>1, <4>1
      <4>2. \A i \in 1..k : i \in 1..(k + 1)
        OBVIOUS
      <4>3. k + 1 \in 1..(k + 1)
        OBVIOUS
      <4> QED
        BY <2>1, <3>1, <4>1, <4>2, <4>3 DEF Named
    <3>3. N \in SUBSET Conns
      BY DEF Named
    <3> HIDE DEF c, N
    <3> QED
      BY <2>2, <3>1, <3>2, <3>3, ElementAdds
  <2> QED
    BY <2>3, <2>4
<1>4. n \in G
  <2> HIDE DEF G
  <2> QED BY <1>2, <1>3, Induction
<1> QED
  BY <1>4 DEF w

\* A loop watches a descriptor for the connection it stands for, and alone.
WatchInv ==
  \A l \in Loops : \A fd \in watched[l] :
     /\ owner[fd] # None /\ entries[l][fd] = owner[fd]
     /\ \A k \in Loops \ {l} : fd \notin watched[k]

\* An event that is still to be handled is about a descriptor that is still watched.
BatchInv ==
  \A l \in Loops, fd \in Fds :
    /\ <<"in", fd>> \in batch[l] \/ <<"hup", fd>> \in batch[l] => fd \in watched[l]
    /\ ~(<<"in", fd>> \in batch[l] /\ <<"hup", fd>> \in batch[l])

\* A registration on its way is that of an open connection nobody watches, and in one
\* place only.
WayInv ==
  /\ \A c \in Conns : InFlight(c) =>
       /\ fdOf[c] # None /\ owner[fdOf[c]] = c
       /\ \A l \in Loops : fdOf[c] \notin watched[l] /\ entries[l][fdOf[c]] # c
  /\ \A c \in Conns, l \in Loops, k \in Loops : Listed(l, c) /\ Listed(k, c) => l = k
  /\ pc[Main] = "add" => \A c \in Conns, l \in Loops : Listed(l, c) => c # current

DataInv ==
  \A c \in Conns : fdOf[c] # None =>
    c \in dataSet \/ (current = c /\ pc[Main] \in {"add", "wake", "data"})

\* A registration is on its way to the loop that was chosen for the connection.
LoopInv ==
  /\ \A c \in Conns, l \in Loops : Listed(l, c) => loopOf[c] = l
  /\ pc[Main] = "add" /\ current # None => loopOf[current] = target

ConnInv == FdInv /\ WatchInv /\ BatchInv /\ WayInv /\ DataInv /\ LoopInv /\ AttendedUnlessShadowed

(* Steps that leave alone which connections are open and where they are    *)
(* registered.                                                             *)
LEMMA ConnQuiet ==
  ASSUME TypeOK, ConnInv,
         UNCHANGED <<entries, watched, fdOf, owner, loopOf>>,
         backlog \subseteq backlog', \A c \in backlog' : fdOf[c] = None,
         closed' = closed,
         \A l \in Loops : batch'[l] \subseteq batch[l],
         \A c \in Conns : InFlight(c)' <=> InFlight(c),
         \A c \in Conns, l \in Loops : Listed(l, c)' => Listed(l, c),
         pc'[Main] = "add" => pc[Main] = "add" /\ current' = current /\ target' = target,
         \A c \in Conns : fdOf[c] # None =>
           c \in dataSet' \/ (current' = c /\ pc'[Main] \in {"add", "wake", "data"})
  PROVE  ConnInv'
<1>1. FdInv' /\ WatchInv' /\ BatchInv'
  BY DEF ConnInv, FdInv, WatchInv, BatchInv
<1>2. WayInv'
  BY DEF ConnInv, WayInv
<1>3. DataInv'
  BY DEF DataInv
<1>4. AttendedUnlessShadowed'
  BY DEF ConnInv, AttendedUnlessShadowed, Live, Watching, Shadowed, FdInv
<1>5. LoopInv'
  BY DEF ConnInv, LoopInv
<1> QED
  BY <1>1, <1>2, <1>3, <1>4, <1>5 DEF ConnInv

(* Loop l handles its list: it registers the connections of L, as far as   *)
(* it has no entry for their descriptors, and removes what R stands for.   *)
LEMMA ConnHandled ==
  ASSUME TypeOK, ConnInv, NEW l \in Loops, NEW L \in SUBSET Conns, NEW R \in SUBSET watched[l],
         entries' = [entries EXCEPT ![l] = [fd \in Fds |->
                       IF fd \in R THEN None ELSE With(l, Added(l, L)).entries[fd]]],
         watched' = [watched EXCEPT ![l] = With(l, Added(l, L)).watched \ R],
         UNCHANGED <<fdOf, owner, backlog, dataSet, current, target, loopOf>>,
         closed \subseteq closed', \A fd \in R : owner[fd] \in closed',
         \A k \in Loops : batch'[k] \subseteq batch[k],
         \A fd \in R : <<"in", fd>> \in batch[l] \ batch'[l],
         \A c \in Conns : InFlight(c)' <=> InFlight(c) /\ c \notin L,
         \A c \in L : InFlight(c) /\ loopOf[c] = l,
         \A c \in Conns, k \in Loops : Listed(k, c)' => Listed(k, c),
         pc'[Main] = "add" => pc[Main] = "add",
         pc[Main] \in {"add", "wake", "data"} => pc'[Main] \in {"add", "wake", "data"}
  PROVE  ConnInv'
<1> DEFINE A == Added(l, L)
<1>1. /\ entries \in [Loops -> [Fds -> Channels]] /\ watched \in [Loops -> SUBSET Fds]
      /\ fdOf \in [Conns -> Fds \cup {None}] /\ owner \in [Fds -> Channels]
      /\ loopOf \in [Conns -> Loops]
      /\ FdInv /\ WatchInv /\ BatchInv /\ WayInv /\ DataInv /\ LoopInv /\ AttendedUnlessShadowed
  BY DEF TypeOK, ConnInv
<1>2. \A fd \in A : /\ fd \in Fds /\ entries[l][fd] = None /\ owner[fd] \in L /\ owner[fd] # None
                    /\ fdOf[owner[fd]] = fd /\ \A k \in Loops : fd \notin watched[k]
  BY <1>1, ReactorAssumption DEF Added, WayInv, FdInv
<1>3. \A fd \in Fds : entries'[l][fd] = (IF fd \in R THEN None ELSE IF fd \in A THEN owner[fd] ELSE entries[l][fd])
  BY <1>1 DEF With
<1>4. \A k \in Loops \ {l} : entries'[k] = entries[k] /\ watched'[k] = watched[k]
  BY <1>1
<1>5. watched'[l] = (watched[l] \cup A) \ R
  BY <1>1 DEF With
<1>6. \A c \in L : fdOf[c] \in A \/ entries[l][fdOf[c]] \notin {None, c}
  BY <1>1 DEF Added, WayInv
<1> HIDE DEF A
<1>7. FdInv'
  BY <1>1, <1>2, <1>3, <1>4 DEF FdInv
<1>8. WatchInv'
  BY <1>1, <1>2, <1>3, <1>4, <1>5 DEF WatchInv
<1>9. BatchInv'
  BY <1>1, <1>4, <1>5 DEF BatchInv
<1>10. WayInv'
  <2>1. \A c \in Conns : InFlight(c) /\ c \notin L =>
          fdOf[c] \notin A /\ owner[fdOf[c]] = c
    BY <1>1, <1>2 DEF WayInv
  <2>2. ASSUME NEW c \in Conns, InFlight(c)', NEW k \in Loops
        PROVE  /\ fdOf[c] # None /\ owner[fdOf[c]] = c
               /\ fdOf[c] \notin watched'[k] /\ entries'[k][fdOf[c]] # c
    <3>1. /\ fdOf[c] \in Fds /\ owner[fdOf[c]] = c /\ fdOf[c] \notin A
          /\ fdOf[c] \notin watched[k] /\ entries[k][fdOf[c]] # c
      BY <1>1, <2>1, <2>2 DEF WayInv
    <3>2. UNCHANGED <<fdOf, owner>> /\ fdOf[c] # None
      BY <3>1, ReactorAssumption
    <3>3. CASE k = l
      BY <1>3, <1>5, <3>1, <3>2, <3>3
    <3>4. CASE k # l
      BY <1>4, <3>1, <3>2, <3>4
    <3> QED
      BY <3>3, <3>4
  <2>3. Main \in Loops
    BY ReactorAssumption DEF Main, Loops
  <2> QED
    BY <1>1, <2>2, <2>3 DEF WayInv
<1>11. DataInv'
  BY <1>1 DEF DataInv
<1>12. AttendedUnlessShadowed'
  <2>1. ASSUME NEW c \in Conns, Live(c)', c \notin backlog', ~InFlight(c)'
        PROVE  Watching(c)' \/ Shadowed(c)'
    <3>1. Live(c) /\ fdOf[c] \in Fds /\ owner[fdOf[c]] = c /\ fdOf[c] \notin R /\ c \notin backlog
      BY <1>1, <2>1 DEF Live
    <3>0. loopOf'[c] = loopOf[c] /\ fdOf'[c] = fdOf[c] /\ loopOf[c] \in Loops
      BY <1>1
    <3>2. CASE c \in L
      <4>0. loopOf[c] = l
        BY <3>2
      <4>1. CASE fdOf[c] \in A
        BY <1>5, <3>0, <3>1, <4>0, <4>1 DEF Watching
      <4>2. CASE fdOf[c] \notin A
        <5>1. entries[l][fdOf[c]] \notin {None, c} /\ entries'[l][fdOf[c]] = entries[l][fdOf[c]]
          BY <1>3, <1>6, <3>1, <3>2, <4>2
        <5> QED
          BY <3>0, <3>1, <4>0, <5>1, ReactorAssumption DEF Shadowed
      <4> QED
        BY <4>1, <4>2
    <3>3. CASE c \notin L
      <4>1. Watching(c) \/ Shadowed(c)
        BY <1>1, <2>1, <3>1, <3>3 DEF AttendedUnlessShadowed
      <4>2. Watching(c) => Watching(c)'
        BY <1>1, <1>4, <1>5, <3>0, <3>1 DEF Watching
      <4>3. Shadowed(c) => Shadowed(c)'
        BY <1>1, <1>2, <1>3, <1>4, <3>0, <3>1 DEF Shadowed
      <4> QED
        BY <4>1, <4>2, <4>3
    <3> QED
      BY <3>2, <3>3
  <2> QED
    BY <2>1 DEF AttendedUnlessShadowed
<1>13. LoopInv'
  BY <1>1 DEF LoopInv
<1> QED
  BY <1>7, <1>8, <1>9, <1>10, <1>11, <1>12, <1>13 DEF ConnInv

LEMMA ConnInit == Init => ConnInv
BY ReactorAssumption, LoopFacts
DEF Init, ConnInv, FdInv, WatchInv, BatchInv, WayInv, DataInv, LoopInv, AttendedUnlessShadowed,
    InFlight, Listed, Live, Main

(* The list of a loop is orderly: what the walk over it needs.             *)
LEMMA ListOrderly ==
  ASSUME TypeOK, ConnInv, NEW l \in Loops
  PROVE  /\ Orderly(pending[l]) /\ AddsOpen(pending[l], Len(pending[l]))
         /\ Named(pending[l], Len(pending[l])) = {c \in Conns : Listed(l, c)}
<1>1. pending[l] \in Seq({"add"} \X Channels) /\ Len(pending[l]) \in Nat
      /\ DOMAIN pending[l] = 1..Len(pending[l])
  BY DEF TypeOK
<1>2. ASSUME NEW i \in 1..Len(pending[l])
      PROVE  /\ pending[l][i] \in {"add"} \X Channels
             /\ pending[l][i][2] # None => fdOf[pending[l][i][2]] \in Fds
                                           /\ owner[fdOf[pending[l][i][2]]] = pending[l][i][2]
  <2>1. pending[l][i] \in {"add"} \X Channels
    BY <1>1
  <2>2. ASSUME pending[l][i][2] # None
        PROVE  InFlight(pending[l][i][2]) /\ pending[l][i][2] \in Conns
    <3> DEFINE c == pending[l][i][2]
    <3>1. pending[l][i] = <<"add", c>> /\ c \in Conns
      BY <2>1, <2>2 DEF Channels
    <3>2. i \in DOMAIN pending[l]
      BY <1>1
    <3> HIDE DEF c
    <3>3. Listed(l, c)
      BY <3>1, <3>2 DEF Listed
    <3> QED
      BY <3>1, <3>3 DEF InFlight, c
  <2> QED
    BY <2>1, <2>2 DEF ConnInv, WayInv, TypeOK
<1>3. pending[l] \in Seq(Elements)
  BY <1>1 DEF Elements
<1>4. Orderly(pending[l]) /\ AddsOpen(pending[l], Len(pending[l]))
  BY <1>2, <1>3 DEF Orderly, AddsOpen
<1> QED
  BY <1>1, <1>4 DEF Named, Listed

LEMMA ListHandled ==
  ASSUME TypeOK, ConnInv, NEW l \in Loops
  PROVE  PendingWalk(l, pending[l])[Len(pending[l])] = With(l, Added(l, {c \in Conns : Listed(l, c)}))
<1>1. Len(pending[l]) \in 0..Len(pending[l])
  BY DEF TypeOK
<1>2. FdInv /\ Orderly(pending[l]) /\ AddsOpen(pending[l], Len(pending[l]))
  BY ListOrderly DEF ConnInv
<1>3. PendingWalk(l, pending[l])[Len(pending[l])] = With(l, Added(l, Named(pending[l], Len(pending[l]))))
  BY <1>1, <1>2, AddsTogether
<1> QED
  BY <1>3, ListOrderly

LEMMA AppendedHandled ==
  ASSUME TypeOK, ConnInv, NEW l \in Loops, NEW e \in Elements, e[1] = "remove" => e[2] # None
  PROVE  LET list == Append(pending[l], e)
         IN  PendingWalk(l, list)[Len(list)]
               = HandleElement(With(l, Added(l, {c \in Conns : Listed(l, c)})), e)
<1> DEFINE p == pending[l]
           list == Append(p, e)
<1>1. p \in Seq(Elements) /\ Len(p) \in Nat /\ Orderly(p) /\ AddsOpen(p, Len(p))
      /\ Named(p, Len(p)) = {c \in Conns : Listed(l, c)}
  BY ListOrderly DEF TypeOK, Orderly
<1> HIDE DEF p
<1>2. /\ list \in Seq(Elements) /\ Len(list) = Len(p) + 1 /\ list[Len(p) + 1] = e
      /\ \A i \in 1..Len(p) : list[i] = p[i]
  BY <1>1
<1> HIDE DEF list
<1>3. Orderly(list) /\ AddsOpen(list, Len(p)) /\ Named(list, Len(p)) = Named(p, Len(p))
  <2>1. \A i \in 1..Len(list) : i \in 1..Len(p) \/ i = Len(p) + 1
    BY <1>1, <1>2
  <2>2. Orderly(list)
    BY <1>1, <1>2, <2>1 DEF Orderly
  <2>3. AddsOpen(list, Len(p))
    BY <1>1, <1>2 DEF AddsOpen
  <2>4. Named(list, Len(p)) = Named(p, Len(p))
    BY <1>2 DEF Named
  <2> QED
    BY <2>2, <2>3, <2>4
<1>4. PendingWalk(l, list)[Len(p)] = With(l, Added(l, Named(p, Len(p))))
  <2>1. Len(p) \in 0..Len(list)
    BY <1>1, <1>2
  <2> QED
    BY <1>3, <2>1, AddsTogether DEF ConnInv
<1>5. PendingWalk(l, list)[Len(list)] = HandleElement(PendingWalk(l, list)[Len(p)], e)
  <2>1. Len(list) \in 1..Len(list) /\ Len(list) - 1 = Len(p) /\ list[Len(list)] = e
    BY <1>1, <1>2
  <2>2. \A i \in 1..Len(list) :
          PendingWalk(l, list)[i] = HandleElement(PendingWalk(l, list)[i - 1], list[i])
    BY <1>3, WalkDefined DEF Orderly
  <2> QED
    BY <2>1, <2>2
<1> QED
  BY <1>1, <1>4, <1>5 DEF list, p

LEMMA ConnNext ==
  ASSUME TypeOK, WakeInv, ConnInv, [Next]_vars
  PROVE  ConnInv'
<1> USE LoopFacts DEF loopVars, mainVars, netVars, appVars, Goto
<1>0. /\ pc \in [Loops -> PcValues] /\ Main \in Loops
      /\ batch \in [Loops -> SUBSET EventTypes] /\ pending \in [Loops -> Seq({"add"} \X Channels)]
      /\ entries \in [Loops -> [Fds -> Channels]] /\ watched \in [Loops -> SUBSET Fds]
      /\ current \in Channels /\ target \in Loops /\ backlog \subseteq Conns
      /\ fdOf \in [Conns -> Fds \cup {None}] /\ owner \in [Fds -> Channels]
      /\ loopOf \in [Conns -> Loops]
      /\ FdInv /\ WatchInv /\ BatchInv /\ WayInv /\ DataInv /\ LoopInv /\ AttendedUnlessShadowed
  BY DEF TypeOK, ConnInv, PcValues
<1>1. CASE UNCHANGED vars \/ Quiet
  <2>1. UNCHANGED vars
    BY <1>1 DEF Quiet
  <2> QED
    BY <1>0, <2>1, ConnQuiet DEF vars, InFlight, Listed, DataInv, FdInv
<1>2. CASE StartStep
  <2>1. /\ UNCHANGED <<loopVars, netVars, appVars, current, loopOf>>
        /\ pc[Main] \in {"start", "await"} /\ pc'[Main] # "add"
    BY <1>0, <1>2 DEF StartStep, Launch, Awaited, Listen, PcValues, Workers
  <2> QED
    BY <1>0, <2>1, ConnQuiet DEF InFlight, Listed, DataInv, FdInv
<1>3. ASSUME NEW l \in Loops, InitLoop(l) \/ Dispatch(l) \/ HandleWakeup(l)
      PROVE  ConnInv'
  <2>1. /\ UNCHANGED <<pending, entries, watched, mainVars, netVars, appVars>>
        /\ pc[Main] \in {"add", "wake", "data"} \/ pc'[Main] \in {"add", "wake", "data"} =>
             pc'[Main] = pc[Main]
    BY <1>0, <1>3 DEF InitLoop, Dispatch, HandleWakeup
  <2>2. CASE InitLoop(l) \/ HandleWakeup(l)
    <3>0. batch' = batch \/ batch' = [batch EXCEPT ![l] = @ \ {<<"wake", None>>}]
      BY <2>2 DEF InitLoop, HandleWakeup, Event
    <3>1. \A k \in Loops : batch'[k] \subseteq batch[k]
      <4>1. batch \in [Loops -> SUBSET EventTypes]
        BY <1>0
      <4> QED
        BY <3>0, <4>1
    <3>2. \A c \in Conns : (InFlight(c)' <=> InFlight(c)) /\ \A k \in Loops : Listed(k, c)' <=> Listed(k, c)
      BY <2>1 DEF InFlight, Listed
    <3>3. \A c \in Conns : fdOf[c] # None =>
            c \in dataSet' \/ (current' = c /\ pc'[Main] \in {"add", "wake", "data"})
      BY <1>0, <2>1 DEF DataInv
    <3>4. pc'[Main] = "add" => pc[Main] = "add"
      BY <2>1
    <3>5. \A c \in backlog : fdOf[c] = None
      BY <1>0 DEF FdInv
    <3> HIDE DEF InFlight, Listed
    <3> QED
      BY <2>1, <3>1, <3>2, <3>3, <3>4, <3>5, ConnQuiet
  <2>3. CASE Dispatch(l)
    <3>1. batch' = [batch EXCEPT ![l] = Events(l)]
      BY <2>3 DEF Dispatch
    <3>2. BatchInv'
      <4>1. ASSUME NEW fd \in Fds
            PROVE  /\ <<"in", fd>> \in Events(l) <=> fd \in watched[l] /\ ~Hup(owner[fd]) /\ Readable(owner[fd])
                   /\ <<"hup", fd>> \in Events(l) <=> fd \in watched[l] /\ Hup(owner[fd])
        BY DEF Events
      <4> QED
        BY <1>0, <2>1, <3>1, <4>1 DEF BatchInv
    <3>3. FdInv' /\ WatchInv'
      BY <1>0, <2>1 DEF FdInv, WatchInv
    <3>4. \A c \in Conns : (InFlight(c)' <=> InFlight(c)) /\ \A k \in Loops : Listed(k, c)' <=> Listed(k, c)
      BY <2>1 DEF InFlight, Listed
    <3>5. WayInv'
      BY <1>0, <2>1, <3>4 DEF WayInv
    <3>6. DataInv'
      BY <1>0, <2>1 DEF DataInv
    <3>7. AttendedUnlessShadowed'
      BY <1>0, <2>1, <3>4 DEF AttendedUnlessShadowed, Live, Watching, Shadowed
    <3>8. LoopInv'
      BY <1>0, <2>1, <3>4 DEF LoopInv
    <3> QED
      BY <3>2, <3>3, <3>5, <3>6, <3>7, <3>8 DEF ConnInv
  <2> QED
    BY <1>3, <2>2, <2>3
<1>4. ASSUME NEW l \in Loops, NEW fd \in Fds, Message(l, fd)
      PROVE  ConnInv'
  <2>1. /\ UNCHANGED <<pc, pending, entries, watched, mainVars, backlog, fdOf, owner, dataSet, closed>>
        /\ \A k \in Loops : batch'[k] \subseteq batch[k]
    BY <1>0, <1>4 DEF Message, Event
  <2> QED
    BY <1>0, <2>1, ConnQuiet DEF InFlight, Listed, DataInv, FdInv
<1>5. ASSUME NEW l \in Loops, NEW fd \in Fds, HangUp(l, fd)
      PROVE  ConnInv'
  <2>1. /\ <<"hup", fd>> \in batch[l]
        /\ batch' = [batch EXCEPT ![l] = @ \ {<<"hup", fd>>}]
        /\ owner' = [owner EXCEPT ![fd] = None]
        /\ watched' = [watched EXCEPT ![l] = @ \ {fd}]
        /\ UNCHANGED <<pc, pending, entries, mainVars, backlog, fdOf, appVars>>
    BY <1>5 DEF HangUp, Event
  <2>2. fd \in watched[l] /\ <<"in", fd>> \notin batch[l] /\ \A k \in Loops \ {l} : fd \notin watched[k]
    BY <1>0, <2>1 DEF BatchInv, WatchInv
  <2>3. FdInv'
    BY <1>0, <2>1 DEF FdInv
  <2>4. WatchInv'
    BY <1>0, <2>1, <2>2 DEF WatchInv
  <2>5. BatchInv'
    BY <1>0, <2>1, <2>2 DEF BatchInv
  <2>6. \A c \in Conns : InFlight(c) => fdOf[c] # fd
    BY <1>0, <2>2 DEF WayInv
  <2>7. WayInv'
    <3>1. \A c \in Conns : (InFlight(c)' <=> InFlight(c)) /\ \A k \in Loops : Listed(k, c)' <=> Listed(k, c)
      BY <2>1 DEF InFlight, Listed
    <3>2. \A c \in Conns : InFlight(c) => owner'[fdOf[c]] = owner[fdOf[c]]
      BY <1>0, <2>1, <2>6, ReactorAssumption DEF WayInv
    <3>3. \A k \in Loops : watched'[k] \subseteq watched[k]
      BY <1>0, <2>1
    <3> QED
      BY <1>0, <2>1, <3>1, <3>2, <3>3 DEF WayInv
  <2>8. DataInv'
    BY <1>0, <2>1 DEF DataInv
  <2>9. AttendedUnlessShadowed'
    <3>1. ASSUME NEW c \in Conns, Live(c)', c \notin backlog', ~InFlight(c)'
          PROVE  Watching(c)' \/ Shadowed(c)'
      <4>1. fdOf[c] \in Fds /\ fdOf[c] # fd /\ Live(c) /\ c \notin backlog /\ ~InFlight(c)
        BY <1>0, <2>1, <3>1, ReactorAssumption DEF Live, InFlight, Listed, Channels
      <4>2. Watching(c) \/ Shadowed(c)
        BY <1>0, <4>1 DEF AttendedUnlessShadowed
      <4> QED
        BY <1>0, <2>1, <4>1, <4>2 DEF Watching, Shadowed
    <3> QED
      BY <3>1 DEF AttendedUnlessShadowed
  <2>10. LoopInv'
    BY <1>0, <2>1 DEF LoopInv, Listed
  <2> QED
    BY <2>3, <2>4, <2>5, <2>7, <2>8, <2>9, <2>10 DEF ConnInv
<1>6. ASSUME NEW l \in Loops, EndOfTurn(l)
      PROVE  ConnInv'
  <2> DEFINE L == {c \in Conns : Listed(l, c)}
             after == With(l, Added(l, L))
  <2>1. /\ pc[l] = "events" /\ pc' = [pc EXCEPT ![l] = "dispatch"]
        /\ entries' = [entries EXCEPT ![l] = after.entries]
        /\ watched' = [watched EXCEPT ![l] = after.watched]
        /\ pending' = [pending EXCEPT ![l] = << >>]
        /\ UNCHANGED <<batch, wake, mainVars, netVars, appVars>>
    BY <1>6, ListHandled DEF EndOfTurn, HandlePending
  <2>2. \A c \in Conns, k \in Loops : Listed(k, c)' <=> k # l /\ Listed(k, c)
    <3>1. pending'[l] = << >> /\ \A k \in Loops \ {l} : pending'[k] = pending[k]
      BY <1>0, <2>1
    <3> QED
      BY <3>1 DEF Listed
  <2>3. (pc'[Main] = "add" <=> pc[Main] = "add") /\ (pc[Main] \in {"add", "wake", "data"} => pc'[Main] = pc[Main])
    BY <1>0, <2>1
  <2>4. \A c \in Conns : InFlight(c)' <=> InFlight(c) /\ c \notin L
    BY <1>0, <2>1, <2>2, <2>3 DEF InFlight, WayInv
  <2>5. \A c \in L : InFlight(c) /\ loopOf[c] = l
    BY <1>0 DEF InFlight, LoopInv
  <2>6. /\ entries' = [entries EXCEPT ![l] = [f \in Fds |-> IF f \in {} THEN None ELSE after.entries[f]]]
        /\ watched' = [watched EXCEPT ![l] = after.watched \ {}]
    BY <2>1 DEF With
  <2>7. L \in SUBSET Conns /\ {} \in SUBSET watched[l]
    OBVIOUS
  <2>8. /\ UNCHANGED <<fdOf, owner, backlog, dataSet, current, target, loopOf>> /\ closed \subseteq closed'
        /\ \A k \in Loops : batch'[k] \subseteq batch[k]
        /\ \A f \in {} : owner[f] \in closed' /\ <<"in", f>> \in batch[l] \ batch'[l]
    BY <2>1
  <2>9. \A c \in Conns, k \in Loops : Listed(k, c)' => Listed(k, c)
    BY <2>2
  <2>10. pc[Main] \in {"add", "wake", "data"} => pc'[Main] \in {"add", "wake", "data"}
    BY <2>3
  <2> HIDE DEF L, Listed, InFlight
  <2> QED
    BY <2>3, <2>4, <2>5, <2>6, <2>7, <2>8, <2>9, <2>10, ConnHandled
<1>7. ASSUME NEW l \in Loops, NEW fd \in Fds, Closed(l, fd)
      PROVE  ConnInv'
  <2> DEFINE L == {c \in Conns : Listed(l, c)}
             after == With(l, Added(l, L))
             c == entries[l][fd]
  <2>1. /\ <<"in", fd>> \in batch[l]
        /\ batch' = [batch EXCEPT ![l] = @ \ {<<"in", fd>>}]
        /\ c # None /\ HandlePending(l, Append(pending[l], <<"remove", c>>))
        /\ closed' = closed \cup {c}
        /\ UNCHANGED <<pc, wake, mainVars, netVars, dataSet>>
    BY <1>7 DEF Closed, Event, Activated
  <2>2. fd \in watched[l] /\ owner[fd] = c /\ c \in Conns /\ fdOf[c] = fd
    <3>1. fd \in watched[l]
      BY <1>0, <2>1 DEF BatchInv
    <3>2. owner[fd] # None /\ entries[l][fd] = owner[fd]
      BY <1>0, <3>1 DEF WatchInv
    <3> QED
      BY <1>0, <3>1, <3>2 DEF FdInv, Channels
  <2>3. HandleElement(after, <<"remove", c>>) =
          [entries |-> [after.entries EXCEPT ![fd] = None], watched |-> after.watched \ {fd}]
    BY <2>2 DEF HandleElement, PendingRemove
  <2>4. <<"remove", c>> \in Elements
    BY <2>2 DEF Elements, Channels
  <2>5. /\ entries' = [entries EXCEPT ![l] = [after.entries EXCEPT ![fd] = None]]
        /\ watched' = [watched EXCEPT ![l] = after.watched \ {fd}]
        /\ pending' = [pending EXCEPT ![l] = << >>]
    <3> DEFINE list == Append(pending[l], <<"remove", c>>)
    <3>1. PendingWalk(l, list)[Len(list)] = HandleElement(after, <<"remove", c>>)
      BY <2>1, <2>4, AppendedHandled
    <3>2. /\ entries' = [entries EXCEPT ![l] = PendingWalk(l, list)[Len(list)].entries]
          /\ watched' = [watched EXCEPT ![l] = PendingWalk(l, list)[Len(list)].watched]
          /\ pending' = [pending EXCEPT ![l] = << >>]
      BY <2>1 DEF HandlePending
    <3> DEFINE w == PendingWalk(l, list)[Len(list)]
               E == [after.entries EXCEPT ![fd] = None]
    <3>3. w = [entries |-> E, watched |-> after.watched \ {fd}]
      BY <2>3, <3>1
    <3>4. w.entries = E /\ w.watched = after.watched \ {fd}
      <4> HIDE DEF w, E, after
      <4> QED BY <3>3
    <3> QED
      BY <3>2, <3>4
  <2>6. [after.entries EXCEPT ![fd] = None] = [f \in Fds |-> IF f \in {fd} THEN None ELSE after.entries[f]]
    BY DEF With
  <2>7. \A d \in Conns, k \in Loops : Listed(k, d)' <=> k # l /\ Listed(k, d)
    <3>1. pending'[l] = << >> /\ \A k \in Loops \ {l} : pending'[k] = pending[k]
      BY <1>0, <2>5
    <3> QED
      BY <3>1 DEF Listed
  <2>8. \A d \in Conns : InFlight(d)' <=> InFlight(d) /\ d \notin L
    <3>1. pc[Main] = "add" => \A d \in L : d # current
      BY <1>0 DEF WayInv
    <3> QED
      BY <1>0, <2>1, <2>7, <3>1 DEF InFlight, WayInv
  <2>9. \A d \in L : InFlight(d) /\ loopOf[d] = l
    BY <1>0 DEF InFlight, LoopInv
  <2>10. /\ L \in SUBSET Conns /\ {fd} \in SUBSET watched[l]
         /\ \A k \in Loops : batch'[k] \subseteq batch[k]
         /\ \A f \in {fd} : owner[f] \in closed' /\ <<"in", f>> \in batch[l] \ batch'[l]
    BY <1>0, <2>1, <2>2
  <2>11. /\ UNCHANGED <<fdOf, owner, backlog, dataSet, current, target, loopOf>> /\ closed \subseteq closed'
         /\ pc' = pc /\ \A d \in Conns, k \in Loops : Listed(k, d)' => Listed(k, d)
    BY <2>1, <2>7
  <2> HIDE DEF L, c
  <2> QED
    BY <2>11, <2>5, <2>6, <2>7, <2>8, <2>9, <2>10, ConnHandled
<1>8. ASSUME NEW c \in Conns, NEW fd \in Fds, Accept(c, fd)
      PROVE  ConnInv'
  <2>1. /\ pc[Main] = "events" /\ pc' = [pc EXCEPT ![Main] = "add"]
        /\ c \in backlog /\ backlog' = backlog \ {c}
        /\ owner[fd] = None /\ owner' = [owner EXCEPT ![fd] = c]
        /\ fdOf' = [fdOf EXCEPT ![c] = fd] /\ current' = c
        /\ loopOf' = [loopOf EXCEPT ![c] = target']
        /\ \A k \in Loops : batch'[k] \subseteq batch[k]
        /\ UNCHANGED <<pending, entries, watched, launched, appVars>>
    BY <1>0, <1>8 DEF Accept, Event, Free
  <2>2. fdOf[c] = None /\ c # None /\ fd # None /\ pc'[Main] = "add"
    BY <1>0, <2>1, ReactorAssumption DEF FdInv
  <2>3. /\ \A k \in Loops : fd \notin watched[k] /\ \A f \in Fds : entries[k][f] # c
        /\ ~InFlight(c) /\ \A k \in Loops : ~Listed(k, c)
    <3>1. ~InFlight(c)
      BY <1>0, <2>2 DEF WayInv
    <3>2. \A k \in Loops : fd \notin watched[k] /\ \A f \in Fds : entries[k][f] # c
      BY <1>0, <2>1, <2>2, ReactorAssumption DEF WatchInv, FdInv
    <3> QED
      BY <3>1, <3>2 DEF InFlight
  <2>4. \A d \in Conns \ {c} : InFlight(d)' <=> InFlight(d)
    BY <1>0, <2>1 DEF InFlight, Listed
  <2>5. \A d \in Conns, k \in Loops : Listed(k, d)' <=> Listed(k, d)
    BY <2>1 DEF Listed
  <2>6. FdInv'
    <3>1. ASSUME NEW f \in Fds, owner'[f] # None PROVE fdOf'[owner'[f]] = f
      <4>1. CASE f = fd
        BY <1>0, <2>1, <4>1
      <4>2. CASE f # fd
        <5>1. owner'[f] = owner[f] /\ owner[f] \in Conns /\ fdOf[owner[f]] = f /\ f # None
          BY <1>0, <2>1, <3>1, <4>2, ReactorAssumption DEF FdInv, Channels
        <5>2. owner[f] # c
          BY <2>2, <5>1
        <5> QED
          BY <1>0, <2>1, <5>1, <5>2
      <4> QED
        BY <4>1, <4>2
    <3>2. ASSUME NEW k \in Loops, NEW f \in Fds, entries'[k][f] # None PROVE fdOf'[entries'[k][f]] = f
      BY <1>0, <2>1, <2>3, <3>2 DEF FdInv
    <3>3. \A d \in backlog' : fdOf'[d] = None
      BY <1>0, <2>1 DEF FdInv
    <3> QED
      BY <3>1, <3>2, <3>3 DEF FdInv
  <2>7. WatchInv' /\ BatchInv'
    BY <1>0, <2>1, <2>3 DEF WatchInv, BatchInv
  <2>8. WayInv'
    <3>1. ASSUME NEW d \in Conns, InFlight(d)', NEW k \in Loops
          PROVE  /\ fdOf'[d] # None /\ owner'[fdOf'[d]] = d
                 /\ fdOf'[d] \notin watched'[k] /\ entries'[k][fdOf'[d]] # d
      <4>1. CASE d = c
        BY <1>0, <2>1, <2>2, <2>3, <4>1
      <4>2. CASE d # c
        <5>1. /\ InFlight(d) /\ fdOf[d] \in Fds /\ owner[fdOf[d]] = d
              /\ fdOf[d] \notin watched[k] /\ entries[k][fdOf[d]] # d
          BY <1>0, <2>4, <3>1, <4>2 DEF WayInv
        <5>2. fdOf[d] # fd /\ fdOf'[d] = fdOf[d]
          BY <1>0, <2>1, <4>2, <5>1, ReactorAssumption
        <5> QED
          BY <1>0, <2>1, <5>1, <5>2, ReactorAssumption
      <4> QED
        BY <4>1, <4>2
    <3>2. \A d \in Conns, k \in Loops, j \in Loops : Listed(k, d)' /\ Listed(j, d)' => k = j
      BY <1>0, <2>5 DEF WayInv
    <3>3. \A d \in Conns, k \in Loops : Listed(k, d)' => d # current'
      BY <2>1, <2>3, <2>5
    <3> QED
      BY <3>1, <3>2, <3>3 DEF WayInv
  <2>9. DataInv'
    BY <1>0, <2>1, <2>2 DEF DataInv
  <2>10. AttendedUnlessShadowed'
    <3>1. ASSUME NEW d \in Conns, Live(d)', d \notin backlog', ~InFlight(d)'
          PROVE  Watching(d)' \/ Shadowed(d)'
      <4>1. d # c
        BY <2>1, <2>2, <3>1 DEF InFlight
      <4>2. /\ fdOf'[d] = fdOf[d] /\ loopOf'[d] = loopOf[d] /\ fdOf[d] \in Fds /\ fdOf[d] # fd
            /\ Live(d) /\ d \notin backlog /\ ~InFlight(d)
        BY <1>0, <2>1, <2>4, <3>1, <4>1, ReactorAssumption DEF Live, Channels
      <4>3. Watching(d) \/ Shadowed(d)
        BY <1>0, <4>2 DEF AttendedUnlessShadowed
      <4> QED
        BY <2>1, <4>2, <4>3 DEF Watching, Shadowed
    <3> QED
      BY <3>1 DEF AttendedUnlessShadowed
  <2>11. LoopInv'
    BY <1>0, <2>1, <2>3, <2>5 DEF LoopInv
  <2> QED
    BY <2>6, <2>7, <2>8, <2>9, <2>10, <2>11 DEF ConnInv
<1>9. CASE AcceptFails
  <2>1. /\ pc[Main] = "events" /\ pc' = [pc EXCEPT ![Main] = "add"] /\ current' = None
        /\ \A k \in Loops : batch'[k] \subseteq batch[k]
        /\ UNCHANGED <<pending, entries, watched, wake, launched, loopOf, netVars, appVars>>
    BY <1>0, <1>9 DEF AcceptFails, Event
  <2>2. \A c \in Conns : (InFlight(c)' <=> InFlight(c)) /\ \A l \in Loops : Listed(l, c)' <=> Listed(l, c)
    BY <1>0, <2>1, ReactorAssumption DEF InFlight, Listed
  <2>3. FdInv' /\ WatchInv' /\ BatchInv' /\ DataInv'
    BY <1>0, <2>1 DEF FdInv, WatchInv, BatchInv, DataInv
  <2>4. WayInv'
    BY <1>0, <2>1, <2>2, ReactorAssumption DEF WayInv
  <2>5. AttendedUnlessShadowed'
    BY <1>0, <2>1, <2>2 DEF AttendedUnlessShadowed, Live, Watching, Shadowed
  <2>6. LoopInv'
    BY <1>0, <2>1, <2>2 DEF LoopInv
  <2> QED
    BY <2>3, <2>4, <2>5, <2>6 DEF ConnInv
<1>10. CASE Register /\ target = Main
  <2> DEFINE L == {c \in Conns : Listed(Main, c)}
             M == {c \in Conns : c = current}
             after == With(Main, Added(Main, M))
  <2>1. /\ pc[Main] = "add" /\ pc' = [pc EXCEPT ![Main] = "data"]
        /\ HandlePending(Main, Append(pending[Main], <<"add", current>>))
        /\ UNCHANGED <<batch, wake, mainVars, netVars, appVars>>
    BY <1>10 DEF Register
  <2>2. pending[Main] = << >> /\ L = {}
    BY DEF WakeInv, ListInv, Listed
  <2>3. <<"add", current>> \in Elements
    BY <1>0 DEF Elements
  <2>4. HandleElement(With(Main, Added(Main, {})), <<"add", current>>) = after
    <3>1. HandleElement(With(Main, Added(Main, {})), <<"add", current>>)
            = PendingAdd(With(Main, Added(Main, {})), current)
      BY DEF HandleElement
    <3>2. CASE current = None
      <4>1. M = {}
        BY <3>2, ReactorAssumption
      <4> QED
        BY <3>1, <3>2, <4>1 DEF PendingAdd
    <3>3. CASE current # None
      <4>1. current \in Conns /\ M = {} \cup {current} /\ {} \in SUBSET Conns
        BY <1>0, <3>3 DEF Channels
      <4>2. fdOf[current] \in Fds /\ owner[fdOf[current]] = current
        BY <1>0, <2>1, <4>1 DEF WayInv, InFlight
      <4> HIDE DEF M
      <4>3. PendingAdd(With(Main, Added(Main, {})), current) = With(Main, Added(Main, {} \cup {current}))
        BY <1>0, <4>1, <4>2, ElementAdds
      <4> QED
        BY <3>1, <4>1, <4>3
    <3> QED
      BY <3>2, <3>3
  <2>5. /\ entries' = [entries EXCEPT ![Main] = after.entries]
        /\ watched' = [watched EXCEPT ![Main] = after.watched]
        /\ pending' = [pending EXCEPT ![Main] = << >>]
    <3> DEFINE list == Append(pending[Main], <<"add", current>>)
    <3>1. PendingWalk(Main, list)[Len(list)] = HandleElement(With(Main, Added(Main, L)), <<"add", current>>)
      BY <2>3, AppendedHandled
    <3> HIDE DEF list, L, M
    <3> QED
      BY <2>1, <2>2, <2>4, <3>1 DEF HandlePending, list
  <2>6. /\ entries' = [entries EXCEPT ![Main] = [f \in Fds |-> IF f \in {} THEN None ELSE after.entries[f]]]
        /\ watched' = [watched EXCEPT ![Main] = after.watched \ {}]
    BY <2>5 DEF With
  <2>7. \A c \in Conns, k \in Loops : Listed(k, c)' <=> Listed(k, c)
    BY <1>0, <2>2, <2>5 DEF Listed
  <2>8. pc'[Main] = "data"
    BY <1>0, <2>1
  <2>9. \A c \in Conns : InFlight(c)' <=> InFlight(c) /\ c \notin M
    BY <1>0, <2>1, <2>7, <2>8 DEF InFlight, WayInv
  <2>10. (\A c \in M : InFlight(c) /\ loopOf[c] = Main) /\ M \in SUBSET Conns /\ {} \in SUBSET watched[Main]
    BY <1>0, <1>10, <2>1, ReactorAssumption DEF InFlight, LoopInv
  <2> HIDE DEF M
  <2> QED
    BY <1>0, <2>1, <2>6, <2>7, <2>8, <2>9, <2>10, ConnHandled, ZenonT(40)
<1>11. CASE Register /\ target # Main
  <2>1. /\ pc[Main] = "add" /\ pc' = [pc EXCEPT ![Main] = "wake"]
        /\ pending' = [pending EXCEPT ![target] = Append(pending[target], <<"add", current>>)]
        /\ UNCHANGED <<entries, watched, batch, wake, mainVars, netVars, appVars>>
    BY <1>11, LoopFacts DEF Register
  <2>2. pc'[Main] = "wake"
    BY <1>0, <2>1
  <2>3. \A c \in Conns, k \in Loops :
          Listed(k, c)' <=> Listed(k, c) \/ (k = target /\ c = current)
    <3>1. ASSUME NEW c \in Conns, NEW k \in Loops, k = target
          PROVE  Listed(k, c)' <=> Listed(k, c) \/ c = current
      <4> DEFINE p == pending[target]
      <4>1. /\ p \in Seq({"add"} \X Channels) /\ Len(p) \in Nat /\ DOMAIN p = 1..Len(p)
            /\ pending'[target] = Append(p, <<"add", current>>)
            /\ <<"add", current>> \in {"add"} \X Channels
        BY <1>0, <2>1
      <4> HIDE DEF p
      <4>2. /\ DOMAIN pending'[target] = 1..(Len(p) + 1)
            /\ pending'[target][Len(p) + 1] = <<"add", current>>
            /\ \A i \in 1..Len(p) : pending'[target][i] = p[i]
        BY <4>1
      <4>3. (\E i \in 1..(Len(p) + 1) : pending'[target][i] = <<"add", c>>)
              <=> (\E i \in 1..Len(p) : p[i] = <<"add", c>>) \/ c = current
        <5>1. \A i \in 1..(Len(p) + 1) : i \in 1..Len(p) \/ i = Len(p) + 1
          BY <4>1
        <5>2. Len(p) + 1 \in 1..(Len(p) + 1) /\ \A i \in 1..Len(p) : i \in 1..(Len(p) + 1)
          BY <4>1
        <5> QED
          BY <4>2, <5>1, <5>2
      <4>4. (DOMAIN pending[k]) = 1..Len(p) /\ pending[k] = p /\ pending'[k] = pending'[target]
        BY <3>1, <4>1 DEF p
      <4> QED
        BY <4>2, <4>3, <4>4 DEF Listed
    <3>2. \A c \in Conns, k \in Loops \ {target} : Listed(k, c)' <=> Listed(k, c)
      <4>1. \A k \in Loops \ {target} : pending'[k] = pending[k]
        BY <1>0, <2>1
      <4> QED
        BY <4>1 DEF Listed
    <3> HIDE DEF Listed
    <3>3. \A c \in Conns, k \in Loops : k = target => (Listed(k, c)' <=> Listed(k, c) \/ c = current)
      BY <3>1
    <3> QED
      BY <3>2, <3>3
  <2>4. \A c \in Conns : InFlight(c)' <=> InFlight(c)
    BY <1>0, <2>1, <2>2, <2>3 DEF InFlight
  <2>5. FdInv' /\ WatchInv' /\ BatchInv' /\ DataInv'
    BY <1>0, <2>1, <2>2 DEF FdInv, WatchInv, BatchInv, DataInv
  <2>6. WayInv'
    <3>1. \A c \in Conns, k \in Loops, j \in Loops : Listed(k, c)' /\ Listed(j, c)' => k = j
      <4>1. \A l \in Loops : ~Listed(l, current) \/ current \notin Conns
        BY <1>0, <2>1 DEF WayInv
      <4>2. \A c \in Conns, k \in Loops, j \in Loops : Listed(k, c) /\ Listed(j, c) => k = j
        BY <1>0 DEF WayInv
      <4> HIDE DEF Listed
      <4> QED
        BY <2>3, <4>1, <4>2
    <3>2. \A c \in Conns : InFlight(c)' =>
            /\ fdOf'[c] # None /\ owner'[fdOf'[c]] = c
            /\ \A l \in Loops : fdOf'[c] \notin watched'[l] /\ entries'[l][fdOf'[c]] # c
      BY <1>0, <2>1, <2>4 DEF WayInv
    <3> QED
      BY <2>2, <3>1, <3>2 DEF WayInv
  <2>7. AttendedUnlessShadowed'
    BY <1>0, <2>1, <2>4 DEF AttendedUnlessShadowed, Live, Watching, Shadowed
  <2>8. LoopInv'
    BY <1>0, <2>1, <2>2, <2>3, ReactorAssumption DEF LoopInv
  <2> QED
    BY <2>5, <2>6, <2>7, <2>8 DEF ConnInv
<1>12. CASE Wakeup \/ SetData
  <2>1. /\ UNCHANGED <<batch, pending, entries, watched, mainVars, netVars, closed>>
        /\ \/ pc[Main] = "wake" /\ pc' = [pc EXCEPT ![Main] = "data"] /\ dataSet' = dataSet
           \/ /\ pc[Main] = "data" /\ pc' = [pc EXCEPT ![Main] = "events"]
              /\ dataSet' = IF current = None THEN dataSet ELSE dataSet \cup {current}
    BY <1>12 DEF Wakeup, SetData
  <2>2. \A c \in Conns : fdOf[c] # None =>
           c \in dataSet' \/ (current' = c /\ pc'[Main] \in {"add", "wake", "data"})
    BY <1>0, <2>1, ReactorAssumption DEF DataInv
  <2>3. /\ \A c \in Conns : InFlight(c)' <=> InFlight(c)
        /\ \A c \in Conns, l \in Loops : Listed(l, c)' => Listed(l, c)
        /\ pc'[Main] # "add"
    BY <1>0, <2>1 DEF InFlight, Listed
  <2> QED
    BY <1>0, <2>1, <2>2, <2>3, ConnQuiet DEF FdInv
<1>13. CASE Peer
  <2>1. /\ UNCHANGED <<pc, loopVars, mainVars, fdOf, owner, appVars>>
        /\ backlog \subseteq backlog' /\ \A c \in backlog' : fdOf[c] = None
    BY <1>0, <1>13 DEF Peer, Connect, Arrive, FdInv
  <2> QED
    BY <1>0, <2>1, ConnQuiet DEF InFlight, Listed, DataInv
<1> QED
  BY <1>1, <1>2, <1>3, <1>4, <1>5, <1>6, <1>7, <1>8, <1>9, <1>10, <1>11, <1>12, <1>13
  DEF Next, HandOver, LoopStep, Callback


(* What handling a list leaves in a loop is a map and a set of descriptors. *)
Placed == [entries : [Fds -> Channels], watched : SUBSET Fds]

LEMMA PlaceAfter ==
  ASSUME TypeOK, NEW l \in Loops, NEW L \in SUBSET Conns,
         NEW e \in Elements, e[2] # None => fdOf[e[2]] \in Fds, e[1] = "remove" => e[2] # None
  PROVE  /\ With(l, Added(l, L)) \in Placed
         /\ HandleElement(With(l, Added(l, L)), e) \in Placed
<1> DEFINE at == With(l, Added(l, L))
           fd == fdOf[e[2]]
<1>1. at \in Placed
  BY DEF With, Added, Placed, TypeOK
<1>2. e[2] \in Conns \cup {None}
  BY DEF Elements, Channels
<1> HIDE DEF at
<1>3. CASE e[2] # None
  <2> HIDE DEF fd
  <2>1. fd \in Fds /\ e[2] \in Channels /\ None \in Channels
    BY <1>2, <1>3 DEF fd, Channels
  <2>2. [entries |-> [at.entries EXCEPT ![fd] = e[2]], watched |-> at.watched \cup {fd}] \in Placed
    BY <1>1, <2>1 DEF Placed
  <2>3. [entries |-> [at.entries EXCEPT ![fd] = None], watched |-> at.watched \ {fd}] \in Placed
    BY <1>1, <2>1 DEF Placed
  <2>4. PendingAdd(at, e[2]) \in Placed
    BY <1>1, <2>2 DEF PendingAdd, fd
  <2>5. PendingRemove(at, e[2]) \in Placed
    BY <2>3 DEF PendingRemove, fd
  <2> QED
    BY <1>1, <2>4, <2>5 DEF HandleElement, at
<1>4. CASE e[2] = None
  BY <1>1, <1>4 DEF HandleElement, PendingAdd, Elements, at
<1> QED
  BY <1>3, <1>4

LEMMA TypeHandled ==
  ASSUME TypeOK, NEW l \in Loops, NEW at \in Placed,
         entries' = [entries EXCEPT ![l] = at.entries],
         watched' = [watched EXCEPT ![l] = at.watched],
         pending' = [pending EXCEPT ![l] = << >>]
  PROVE  /\ pending' \in [Loops -> Seq({"add"} \X Channels)]
         /\ entries' \in [Loops -> [Fds -> Channels]]
         /\ watched' \in [Loops -> SUBSET Fds]
<1>1. at.entries \in [Fds -> Channels] /\ at.watched \in SUBSET Fds
  BY DEF Placed
<1>2. << >> \in Seq({"add"} \X Channels)
  OBVIOUS
<1> QED
  BY <1>1, <1>2 DEF TypeOK

LEMMA TypeNext ==
  ASSUME TypeOK, WakeInv, ConnInv, [Next]_vars
  PROVE  TypeOK'
<1> USE LoopFacts DEF loopVars, mainVars, netVars, appVars, Goto
<1>0. /\ position \in 0..PoolSize /\ launched \in 0..PoolSize
      /\ batch \in [Loops -> SUBSET EventTypes] /\ pending \in [Loops -> Seq({"add"} \X Channels)]
      /\ entries \in [Loops -> [Fds -> Channels]] /\ watched \in [Loops -> SUBSET Fds]
      /\ wake \in [Loops -> 0..PairCapacity]
      /\ current \in Channels /\ target \in Loops /\ backlog \subseteq Conns
      /\ fdOf \in [Conns -> Fds \cup {None}] /\ owner \in [Fds -> Channels]
      /\ net \in [Conns -> SUBSET {"data", "fin", "rst"}]
      /\ shut \subseteq Conns /\ dataSet \subseteq Conns /\ early \subseteq Conns /\ closed \subseteq Conns
      /\ loopOf \in [Conns -> Loops]
  BY DEF TypeOK
<1>a. /\ pc' \in [Loops -> {"off", "init", "start", "await", "dispatch", "events", "add", "wake", "data"}]
      /\ launched' \in 0..PoolSize /\ target' \in Loops /\ (PoolSize > 0 => position' < PoolSize)
  BY WakeNext DEF WakeInv, WakeTypes, PcValues
<1> DEFINE T1 == position' \in 0..PoolSize /\ current' \in Channels /\ backlog' \subseteq Conns
           T2 == batch' \in [Loops -> SUBSET EventTypes] /\ wake' \in [Loops -> 0..PairCapacity]
           T3 == /\ pending' \in [Loops -> Seq({"add"} \X Channels)]
                 /\ entries' \in [Loops -> [Fds -> Channels]]
                 /\ watched' \in [Loops -> SUBSET Fds]
           T4 == /\ fdOf' \in [Conns -> Fds \cup {None}] /\ owner' \in [Fds -> Channels]
                 /\ net' \in [Conns -> SUBSET {"data", "fin", "rst"}]
           T5 == shut' \subseteq Conns /\ dataSet' \subseteq Conns /\ early' \subseteq Conns
                 /\ closed' \subseteq Conns
<1>d. loopOf' \in [Conns -> Loops]
  <2>1. loopOf' = loopOf \/ \E c \in Conns : loopOf' = [loopOf EXCEPT ![c] = target']
    BY DEF Next, StartStep, Launch, Awaited, Listen, HandOver, Accept, AcceptFails, Register, Wakeup, SetData,
           LoopStep, InitLoop, Dispatch, HandleWakeup, EndOfTurn, HangUp, Callback, Message, Closed,
           Peer, Connect, Arrive, Quiet, vars
  <2> QED
    BY <1>0, <1>a, <2>1
<1>b. T1 /\ T2 /\ T3 /\ T4 /\ T5 => TypeOK'
  BY <1>a, <1>d DEF TypeOK
<1>c. ASSUME NEW l \in Loops, NEW e, Event(l, e) PROVE batch' \in [Loops -> SUBSET EventTypes]
  BY <1>0, <1>c DEF Event
<1>1. CASE UNCHANGED vars \/ Quiet
  <2>1. UNCHANGED vars
    BY <1>1 DEF Quiet
  <2> QED
    BY <1>0, <1>b, <2>1 DEF vars
<1>2. CASE StartStep
  BY <1>0, <1>b, <1>2 DEF StartStep, Launch, Awaited, Listen
<1>3. ASSUME NEW l \in Loops, InitLoop(l) PROVE TypeOK'
  BY <1>0, <1>b, <1>3 DEF InitLoop
<1>4. ASSUME NEW l \in Loops, Dispatch(l) PROVE TypeOK'
  <2>1. Events(l) \in SUBSET EventTypes
    <3>1. <<"wake", None>> \in EventTypes /\ <<"listen", None>> \in EventTypes
          /\ \A fd \in watched[l] : <<"hup", fd>> \in EventTypes /\ <<"in", fd>> \in EventTypes
      BY <1>0 DEF EventTypes
    <3> QED
      BY <3>1 DEF Events
  <2>2. T2
    BY <1>0, <1>4, <2>1 DEF Dispatch
  <2>3. T1 /\ T3 /\ T4 /\ T5
    BY <1>0, <1>4 DEF Dispatch
  <2> QED
    BY <1>b, <2>2, <2>3
<1>5. ASSUME NEW l \in Loops, HandleWakeup(l) PROVE TypeOK'
  <2>1. wake[l] > 0
    BY <1>5 DEF HandleWakeup, Event, WakeInv, ByteInv
  <2>2. wake[l] - 1 \in 0..PairCapacity
    BY <1>0, <2>1, ReactorAssumption
  <2>3. T2
    BY <1>0, <1>5, <1>c, <2>2 DEF HandleWakeup
  <2>4. T1 /\ T3 /\ T4 /\ T5
    BY <1>0, <1>5 DEF HandleWakeup
  <2> QED
    BY <1>b, <2>3, <2>4
<1>6. ASSUME NEW l \in Loops, NEW fd \in Fds, HangUp(l, fd) PROVE TypeOK'
  <2>1. T2
    BY <1>0, <1>6, <1>c DEF HangUp
  <2>2. T3
    BY <1>0, <1>6 DEF HangUp
  <2>3. T4
    BY <1>0, <1>6 DEF HangUp, Channels
  <2>4. T1 /\ T5
    BY <1>0, <1>6 DEF HangUp
  <2> QED
    BY <1>b, <2>1, <2>2, <2>3, <2>4
<1>7. ASSUME NEW l \in Loops, NEW fd \in Fds, Message(l, fd) PROVE TypeOK'
  <2>1. entries[l][fd] \in Conns
    BY <1>0, <1>7 DEF Message, Activated, Channels
  <2>2. T2
    BY <1>0, <1>7, <1>c DEF Message
  <2>3. T1 /\ T3
    BY <1>0, <1>7 DEF Message
  <2>4. T4
    BY <1>0, <1>7 DEF Message
  <2>5. T5
    BY <1>0, <1>7, <2>1 DEF Message, Activated, CallsBack
  <2> QED
    BY <1>b, <2>2, <2>3, <2>4, <2>5
<1>8. ASSUME NEW l \in Loops, NEW fd \in Fds, Closed(l, fd) PROVE TypeOK'
  <2> DEFINE c == entries[l][fd]
             e == <<"remove", c>>
             list == Append(pending[l], e)
             after == HandleElement(With(l, Added(l, {d \in Conns : Listed(l, d)})), e)
  <2>1. c \in Conns /\ c # None
    BY <1>0, <1>8 DEF Closed, Activated, Channels
  <2>2. fdOf[c] = fd
    BY <2>1 DEF ConnInv, FdInv
  <2>3. e \in Elements /\ e[2] = c /\ e[1] = "remove"
    BY <2>1 DEF Elements, Channels
  <2>4. after \in Placed
    <3> HIDE DEF e
    <3>1. {d \in Conns : Listed(l, d)} \in SUBSET Conns
      OBVIOUS
    <3> QED
      BY <2>1, <2>2, <2>3, <3>1, PlaceAfter
  <2>5. PendingWalk(l, list)[Len(list)] = after
    <3> HIDE DEF e
    <3> QED
      BY <2>1, <2>3, AppendedHandled
  <2>6. HandlePending(l, list)
    BY <1>8 DEF Closed, Activated
  <2>7. T3
    <3>1. /\ entries' = [entries EXCEPT ![l] = after.entries]
          /\ watched' = [watched EXCEPT ![l] = after.watched]
          /\ pending' = [pending EXCEPT ![l] = << >>]
      <4> HIDE DEF after, list
      <4> QED
        BY <2>5, <2>6 DEF HandlePending
    <3> HIDE DEF after
    <3> QED
      BY <2>4, <3>1, TypeHandled
  <2>8. T2
    BY <1>0, <1>8, <1>c DEF Closed
  <2>9. T1 /\ T4
    BY <1>0, <1>8 DEF Closed
  <2>10. T5
    BY <1>0, <1>8, <2>1 DEF Closed, Activated, CallsBack
  <2> QED
    BY <1>b, <2>7, <2>8, <2>9, <2>10
<1>9. ASSUME NEW l \in Loops, EndOfTurn(l) PROVE TypeOK'
  <2> DEFINE after == With(l, Added(l, {d \in Conns : Listed(l, d)}))
  <2>1. /\ entries' = [entries EXCEPT ![l] = after.entries]
        /\ watched' = [watched EXCEPT ![l] = after.watched]
        /\ pending' = [pending EXCEPT ![l] = << >>]
    BY <1>9, ListHandled DEF EndOfTurn, HandlePending
  <2>2. after \in Placed
    <3>1. {d \in Conns : Listed(l, d)} \in SUBSET Conns
      OBVIOUS
    <3>2. <<"add", None>> \in Elements
      BY DEF Elements, Channels
    <3> QED
      BY <3>1, <3>2, PlaceAfter
  <2>3. T3
    <3> HIDE DEF after
    <3> QED
      BY <2>1, <2>2, TypeHandled
  <2>4. T1 /\ T2 /\ T4 /\ T5
    BY <1>0, <1>9 DEF EndOfTurn
  <2> QED
    BY <1>b, <2>3, <2>4
<1>10. CASE AcceptFails \/ \E c \in Conns, fd \in Fds : Accept(c, fd)
  <2>1. /\ GetLoop /\ UNCHANGED <<pending, entries, watched, wake, net, shut, appVars>>
        /\ \E e : Event(Main, e)
        /\ \/ current' = None /\ UNCHANGED <<backlog, fdOf, owner>>
           \/ \E c \in Conns, fd \in Fds :
                /\ current' = c /\ backlog' = backlog \ {c}
                /\ fdOf' = [fdOf EXCEPT ![c] = fd] /\ owner' = [owner EXCEPT ![fd] = c]
    BY <1>10 DEF AcceptFails, Accept
  <2>2. position' \in 0..PoolSize
    BY <1>0, <2>1, ReactorAssumption DEF GetLoop, NextPosition
  <2>3. current' \in Channels /\ backlog' \subseteq Conns
    BY <1>0, <2>1 DEF Channels
  <2>4. T2
    BY <1>0, <1>c, <2>1
  <2>5. T3 /\ T5
    BY <1>0, <2>1
  <2>6. T4
    <3>1. CASE UNCHANGED <<backlog, fdOf, owner>>
      BY <1>0, <2>1, <3>1
    <3>2. ASSUME NEW c \in Conns, NEW fd \in Fds,
                 fdOf' = [fdOf EXCEPT ![c] = fd], owner' = [owner EXCEPT ![fd] = c]
          PROVE  T4
      <4>1. c \in Channels /\ fd \in Fds \cup {None}
        BY DEF Channels
      <4> QED
        BY <1>0, <2>1, <3>2, <4>1
    <3> QED
      BY <2>1, <3>1, <3>2
  <2> QED
    BY <1>b, <2>2, <2>3, <2>4, <2>5, <2>6
<1>11. CASE Register
  <2>1. T1 /\ T2 /\ T4 /\ T5 /\ pc[Main] = "add"
    BY <1>0, <1>11 DEF Register
  <2> DEFINE e == <<"add", current>>
  <2>2. e \in {"add"} \X Channels /\ e \in Elements /\ e[1] = "add" /\ e[2] = current
    BY <1>0 DEF Elements
  <2>3. CASE target # Main
    <3>1. pending' = [pending EXCEPT ![target] = Append(pending[target], e)] /\ UNCHANGED <<entries, watched>>
      BY <1>11, <2>3 DEF Register
    <3>2. Append(pending[target], e) \in Seq({"add"} \X Channels)
      BY <1>0, <2>2
    <3>3. T3
      BY <1>0, <3>1, <3>2
    <3> QED
      BY <1>b, <2>1, <3>3
  <2>4. CASE target = Main
    <3> DEFINE list == Append(pending[Main], e)
               after == HandleElement(With(Main, Added(Main, {d \in Conns : Listed(Main, d)})), e)
    <3>1. HandlePending(Main, list)
      BY <1>11, <2>4 DEF Register
    <3>2. PendingWalk(Main, list)[Len(list)] = after
      <4> HIDE DEF e
      <4> QED
        BY <2>2, AppendedHandled
    <3>3. e[2] # None => fdOf[e[2]] \in Fds
      BY <1>0, <2>1, <2>2 DEF ConnInv, WayInv, InFlight, Channels
    <3>4. after \in Placed
      <4> HIDE DEF e
      <4>1. {d \in Conns : Listed(Main, d)} \in SUBSET Conns
        OBVIOUS
      <4> QED
        BY <2>2, <3>3, <4>1, PlaceAfter
    <3>5. T3
      <4>1. /\ entries' = [entries EXCEPT ![Main] = after.entries]
            /\ watched' = [watched EXCEPT ![Main] = after.watched]
            /\ pending' = [pending EXCEPT ![Main] = << >>]
        <5> HIDE DEF after, list
        <5> QED
          BY <3>1, <3>2 DEF HandlePending
      <4> HIDE DEF after
      <4> QED
        BY <3>4, <4>1, TypeHandled
    <3> QED
      BY <1>b, <2>1, <3>5
  <2> QED
    BY <2>3, <2>4
<1>12. CASE Wakeup \/ SetData
  <2>1. T2
    <3>1. CASE SetData
      BY <1>0, <3>1 DEF SetData
    <3>2. CASE Wakeup
      <4>1. wake[target] + 1 \in 0..PairCapacity
        BY <1>0, <3>2, ReactorAssumption DEF Wakeup
      <4> QED
        BY <1>0, <3>2, <4>1 DEF Wakeup
    <3> QED
      BY <1>12, <3>1, <3>2
  <2>2. T1 /\ T3 /\ T4
    BY <1>0, <1>12 DEF Wakeup, SetData
  <2>3. T5
    BY <1>0, <1>12 DEF Wakeup, SetData, Channels
  <2> QED
    BY <1>b, <2>1, <2>2, <2>3
<1>13. CASE Peer
  <2>1. T1 /\ T2 /\ T3 /\ T5
    BY <1>0, <1>13 DEF Peer, Connect, Arrive
  <2>2. fdOf' = fdOf /\ owner' = owner
    BY <1>13 DEF Peer, Connect, Arrive
  <2>3. net' \in [Conns -> SUBSET {"data", "fin", "rst"}]
    <3>1. CASE net' = net
      BY <1>0, <3>1
    <3>2. ASSUME NEW c \in Conns, NEW what \in {"data", "fin", "rst"}, Arrive(c, what)
          PROVE  net' \in [Conns -> SUBSET {"data", "fin", "rst"}]
      <4>1. (IF what = "rst" THEN {"rst"} ELSE net[c] \cup {what}) \in SUBSET {"data", "fin", "rst"}
        <5>1. net[c] \subseteq {"data", "fin", "rst"} /\ what \in {"data", "fin", "rst"}
          BY <1>0
        <5> QED
          BY <5>1
      <4> QED
        BY <1>0, <3>2, <4>1 DEF Arrive
    <3> QED
      BY <1>13, <3>1, <3>2 DEF Peer, Connect
  <2> QED
    BY <1>0, <1>b, <2>1, <2>2, <2>3
<1> QED
  BY <1>1, <1>2, <1>3, <1>4, <1>5, <1>6, <1>7, <1>8, <1>9, <1>10, <1>11, <1>12, <1>13
  DEF Next, HandOver, LoopStep, Callback

LEMMA TypeInit == Init => TypeOK
BY ReactorAssumption, LoopFacts DEF Init, TypeOK, Channels, Main

\* All that an induction over the steps needs, in one formula.
Inv == TypeOK /\ WakeInv /\ ConnInv

LEMMA InvAlways == Spec => []Inv
<1>1. Init => Inv
  BY TypeInit, WakeInit, ConnInit DEF Inv
<1>2. Inv /\ [Next]_vars => Inv'
  BY TypeNext, WakeNext, ConnNext DEF Inv
<1> QED
  BY <1>1, <1>2, PTL DEF Spec

(* Types: no list holds a removal between two steps, no pair holds more    *)
(* than it takes, and every descriptor watched is an open one's number.    *)
THEOREM TypesHold == Spec => []TypeOK
<1>1. Inv => TypeOK
  BY DEF Inv
<1> QED
  BY <1>1, InvAlways, PTL

(* An event still to be handled reaches the connection its descriptor      *)
(* stands for, in the one loop that watches it, although descriptors are   *)
(* reused and every loop has a map of its own.                             *)
THEOREM EventsReachTheirConnection == Spec => []RightConnection
<1>1. Inv => RightConnection
  <2> SUFFICES ASSUME Inv PROVE RightConnection
    OBVIOUS
  <2>1. WatchInv /\ BatchInv
    BY DEF Inv, ConnInv
  <2> QED
    BY <2>1 DEF WatchInv, BatchInv, RightConnection, Activated
<1> QED
  BY <1>1, InvAlways, PTL

(* Once its registration was handled, an open connection is watched by the *)
(* loop chosen for it, or the map of that very loop still holds a hung-up   *)
(* connection under its descriptor.                                        *)
THEOREM ConnectionsAreAttended == Spec => []AttendedUnlessShadowed
<1>1. Inv => AttendedUnlessShadowed
  BY DEF Inv, ConnInv
<1> QED
  BY <1>1, InvAlways, PTL

(* A message or closed callback finds the connection's data unset only     *)
(* while Main is between registering that connection and setting the data. *)
THEOREM DataUnsetOnlyInTheWindow == Spec => UnsetWindow
<1> DEFINE Windowed == \A c \in early' \ early : current = c /\ pc[Main] \in {"wake", "data"}
<1>1. Inv /\ [Next]_vars => [Windowed]_vars
  <2> SUFFICES ASSUME Inv, Next PROVE Windowed
    OBVIOUS
  <2>1. CASE \E l \in Loops, fd \in Fds : Callback(l, fd)
    <3>1. PICK l \in Loops, fd \in Fds : Callback(l, fd)
      BY <2>1
    <3> DEFINE c == entries[l][fd]
    <3>2. /\ <<"in", fd>> \in batch[l] /\ c # None
          /\ early' = IF c \in dataSet THEN early ELSE early \cup {c}
      BY <3>1 DEF Callback, Message, Closed, Event, Activated, CallsBack
    <3>3. fdOf[c] = fd /\ c \in Conns
      BY <3>2 DEF Inv, ConnInv, FdInv, TypeOK, Channels
    <3>4. c \in dataSet \/ (current = c /\ pc[Main] \in {"add", "wake", "data"})
      BY <3>2, <3>3, ReactorAssumption DEF Inv, ConnInv, DataInv
    <3>5. ~(current = c /\ pc[Main] = "add")
      BY <3>3 DEF Inv, ConnInv, WayInv, InFlight
    <3> QED
      BY <3>2, <3>4, <3>5
  <2>2. CASE ~\E l \in Loops, fd \in Fds : Callback(l, fd)
    <3>1. early' = early
      BY <2>2
      DEF Next, StartStep, Launch, Awaited, Listen, HandOver, Accept, AcceptFails, Register, Wakeup, SetData,
          LoopStep, InitLoop, Dispatch, HandleWakeup, EndOfTurn, HangUp,
          Peer, Connect, Arrive, Quiet, vars, loopVars, mainVars, netVars, appVars
    <3> QED
      BY <3>1
  <2> QED
    BY <2>1, <2>2
<1> QED
  BY <1>1, InvAlways, PTL DEF Spec, UnsetWindow

(* No wake-up is lost: whenever a loop sleeps with channels to register, a *)
(* byte waits in its pair or Main is about to write one, whatever the      *)
(* interleaving of hand-overs and turns.                                   *)
THEOREM NoHandOverIsSleptThrough == Spec => []NoLostWakeup
<1>1. WakeInv => NoLostWakeup
  BY DEF WakeInv
<1>2. WakeInv /\ [Next]_vars => WakeInv'
  BY WakeNext
<1> QED
  BY <1>1, <1>2, WakeInit, PTL DEF Spec
=============================================================================
