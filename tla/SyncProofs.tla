----------------------------- MODULE SyncProofs -----------------------------
(***************************************************************************)
(* Proofs about the objects threads synchronise with, for every number of  *)
(* threads and slots.                                                      *)
(*                                                                         *)
(* The queue of chap-26: the two indices and the counter keep describing a *)
(* FIFO queue that hands each descriptor to one thread.  call_once of      *)
(* tinycthread: the callback runs once and every call returns after it.    *)
(* Its mutex is held as often as the calls say, and its condition variable *)
(* keeps the signals that have released nobody yet.                        *)
(***************************************************************************)
EXTENDS MCSync, SequenceTheorems, FiniteSetTheorems, TLAPS

\* Who has a descriptor in its hands.
HandInv ==
  /\ pc[Main] \in {"accept", "push", "not_full", "exited"}
  /\ pc[Main] \in {"push", "not_full"} => conn[Main] \in Fds
  /\ \A s \in Servers :
       /\ pc[s] \in {"pop", "not_empty", "echo", "exited"}
       /\ pc[s] = "echo" => conn[s] # None
       /\ pc[s] \in {"pop", "not_empty"} => conn[s] = None

\* rear is count slots behind front, around the end of the array.
RingInv ==
  /\ rear = Slot(count) \/ (count = number /\ rear = front)
  /\ \A i \in 0..count-1 : fd[Slot(i)] \in Fds

Inv == TypeOK /\ HandInv /\ RingInv
-----------------------------------------------------------------------------
LEMMA NumberIsPositive == number \in Nat /\ number > 0
  BY QueueAssumption

(* Slots of a lap are in the array and apart.                              *)
LEMMA SlotRange ==
  ASSUME front \in 0..number-1, NEW i \in 0..number-1
  PROVE  /\ Slot(i) \in 0..number-1
         /\ \A j \in 0..number-1 : Slot(j) = Slot(i) => j = i
  BY NumberIsPositive DEF Slot

(* The content is the sequence of descriptors in the slots of the lap.     *)
LEMMA ContentIs ==
  ASSUME Inv
  PROVE  /\ Content \in Seq(Fds) /\ Len(Content) = count
         /\ \A i \in 1..count : Content[i] = fd[Slot(i-1)]
<1>1. count \in Nat
  BY DEF Inv, TypeOK
<1>2. \A i \in 1..count : fd[Slot(i-1)] \in Fds
  <2>1. \A i \in 1..count : i - 1 \in 0..count-1
    BY <1>1
  <2> QED
    BY <2>1 DEF Inv, RingInv
<1>3. Content \in [1..count -> Fds]
  BY <1>2 DEF Content
<1> QED
  BY <1>1, <1>3 DEF Content

(* block_queue_push writes behind the last descriptor and nowhere else.    *)
LEMMA PushAppends ==
  ASSUME Inv, Push
  PROVE  /\ Inv' /\ Content' = Append(Content, conn[Main]) /\ count < number
         /\ conn[Main] \in Fds
         /\ [s \in Servers |-> conn[s]]' = [s \in Servers |-> conn[s]]
<1>1. /\ front \in 0..number-1 /\ rear \in 0..number-1 /\ count \in 0..number-1
      /\ number \in Nat /\ fd \in [0..number-1 -> Fds \cup {None}]
      /\ conn \in [Threads -> Fds \cup {None}]
      /\ pc \in [Threads -> {"accept", "push", "not_full", "pop", "not_empty", "echo", "exited"}]
  BY NumberIsPositive DEF Inv, TypeOK, Push, Full
<1>2. /\ fd' = [fd EXCEPT ![rear] = conn[Main]] /\ rear' = NextSlot(rear)
      /\ count' = count + 1 /\ front' = front
      /\ conn' = [conn EXCEPT ![Main] = None] /\ pc[Main] = "push" /\ opened' = opened
  BY DEF Push
<1>3. conn[Main] \in Fds /\ Main \in Threads /\ Servers \subseteq Threads /\ Main \notin Servers
  BY <1>2, QueueAssumption DEF Inv, HandInv, Threads
<1>4. rear = Slot(count)
  BY <1>1 DEF Inv, RingInv
<1>5. \A i \in 0..number-1 : Slot(i)' = Slot(i)
  BY <1>2 DEF Slot
<1>6. \A i \in 0..count-1 : fd'[Slot(i)] = fd[Slot(i)]
  <2>1. SUFFICES ASSUME NEW i \in 0..count-1 PROVE fd'[Slot(i)] = fd[Slot(i)]
    OBVIOUS
  <2>2. i \in 0..number-1 /\ i # count
    BY <1>1
  <2>3. Slot(i) \in 0..number-1 /\ Slot(i) # rear
    BY <1>1, <1>4, <2>2, SlotRange
  <2> QED
    BY <1>1, <1>2, <2>3
<1>7. fd'[Slot(count)] = conn[Main]
  BY <1>1, <1>2, <1>4
<1>8. \E t \in {t \in Threads : pc[t] = "not_empty"} \cup {Main} :
        pc' = [pc EXCEPT ![Main] = "accept"] \/ pc' = [[pc EXCEPT ![Main] = "accept"] EXCEPT ![t] = "pop"]
  <2>1. Signal(Goto(pc, Main, "accept"), "not_empty", "pop")
    BY DEF Push
  <2> QED
    BY <2>1 DEF Signal, Goto
<1>9. HandInv' /\ pc' \in [Threads -> {"accept", "push", "not_full", "pop", "not_empty", "echo", "exited"}]
  <2>1. PICK t \in {t \in Threads : pc[t] = "not_empty"} \cup {Main} :
        pc' = [pc EXCEPT ![Main] = "accept"] \/ pc' = [[pc EXCEPT ![Main] = "accept"] EXCEPT ![t] = "pop"]
    BY <1>8
  <2> QED
    BY <1>1, <1>2, <1>3, <2>1 DEF Inv, HandInv
<1>10. TypeOK'
  <2>1. fd' \in [0..number-1 -> Fds \cup {None}] /\ conn' \in [Threads -> Fds \cup {None}]
    BY <1>1, <1>2, <1>3
  <2>2. front' \in 0..number-1 /\ rear' \in 0..number-1 /\ count' \in 0..number
    BY <1>1, <1>2 DEF NextSlot
  <2> QED
    BY <1>2, <1>9, <2>1, <2>2 DEF Inv, TypeOK
<1>11. RingInv'
  <2>1. rear' = Slot(count+1) \/ (count + 1 = number /\ rear' = front)
    BY <1>1, <1>2, <1>4 DEF NextSlot, Slot
  <2>3. \A i \in 0..count : fd'[Slot(i)] \in Fds
    <3>1. \A i \in 0..count : i \in 0..count-1 \/ i = count
      BY <1>1
    <3> QED
      BY <1>3, <1>6, <1>7, <3>1 DEF Inv, RingInv
  <2> QED
    BY <1>1, <1>2, <2>1, <2>3 DEF RingInv, Slot
<1>12. Content' = Append(Content, conn[Main])
  <2>1. /\ Content \in Seq(Fds) /\ Len(Content) = count
        /\ \A i \in 1..count : Content[i] = fd[Slot(i-1)]
    BY ContentIs
  <2>2. Content' = [i \in 1..count+1 |-> fd'[Slot(i-1)]]
    BY <1>2 DEF Content, Slot
  <2>3. \A i \in 1..count+1 : fd'[Slot(i-1)] = IF i <= count THEN Content[i] ELSE conn[Main]
    <3>1. SUFFICES ASSUME NEW i \in 1..count+1
                   PROVE  fd'[Slot(i-1)] = IF i <= count THEN Content[i] ELSE conn[Main]
      OBVIOUS
    <3>2. CASE i <= count
      <4>1. i \in 1..count /\ i - 1 \in 0..count-1
        BY <1>1, <3>2
      <4> QED
        BY <1>6, <2>1, <3>2, <4>1
    <3>3. CASE ~(i <= count)
      <4>1. i - 1 = count
        BY <1>1, <3>3
      <4> QED
        BY <1>7, <3>3, <4>1
    <3> QED
      BY <3>2, <3>3
  <2>4. Append(Content, conn[Main]) = [i \in 1..count+1 |-> IF i <= count THEN Content[i] ELSE conn[Main]]
    BY <1>1, <1>3, <2>1
  <2> QED
    BY <2>2, <2>3, <2>4
<1> QED
  BY <1>1, <1>2, <1>3, <1>9, <1>10, <1>11, <1>12 DEF Inv

(* block_queue_pop takes the first descriptor and leaves the others.       *)
LEMMA PopTakesHead ==
  ASSUME Inv, NEW s \in Servers, Pop(s)
  PROVE  /\ Inv' /\ Content # << >> /\ Content' = Tail(Content)
         /\ conn[s] = None /\ conn' = [conn EXCEPT ![s] = Head(Content)]
<1>1. /\ front \in 0..number-1 /\ rear \in 0..number-1 /\ count \in 0..number
      /\ number \in Nat /\ fd \in [0..number-1 -> Fds \cup {None}]
      /\ conn \in [Threads -> Fds \cup {None}]
      /\ pc \in [Threads -> {"accept", "push", "not_full", "pop", "not_empty", "echo", "exited"}]
  BY NumberIsPositive DEF Inv, TypeOK
<1>2. /\ conn' = [conn EXCEPT ![s] = fd[front]] /\ front' = NextSlot(front)
      /\ count' = count - 1 /\ fd' = fd /\ rear' = rear /\ opened' = opened
      /\ pc[s] = "pop" /\ front # rear
  BY DEF Pop, NothingToPop
<1>3. /\ Main \in Threads /\ Servers \subseteq Threads /\ Main \notin Servers /\ None \notin Fds
  BY QueueAssumption DEF Threads
<1>4. count \in 1..number-1 /\ rear = Slot(count)
  BY <1>1, <1>2 DEF Inv, RingInv, Slot
<1>5. \A i \in 0..count-1 : Slot(i)' = Slot(i+1)
  BY <1>1, <1>2, <1>4 DEF Slot, NextSlot
<1>6. /\ Content \in Seq(Fds) /\ Len(Content) = count
      /\ \A i \in 1..count : Content[i] = fd[Slot(i-1)]
  BY ContentIs
<1>7. fd[front] = Head(Content) /\ fd[front] \in Fds /\ Content # << >>
  <2>1. Slot(0) = front
    BY <1>1 DEF Slot
  <2>2. 1 \in 1..count /\ 0 \in 0..count-1
    BY <1>4
  <2>3. Content[1] = fd[Slot(1-1)]
    BY <1>6, <2>2
  <2>4. fd[front] = Content[1] /\ fd[front] \in Fds
    BY <2>1, <2>2, <2>3 DEF Inv, RingInv
  <2> QED
    BY <1>4, <1>6, <2>4
<1>8. \E t \in {t \in Threads : pc[t] = "not_full"} \cup {s} :
        pc' = [pc EXCEPT ![s] = "echo"] \/ (t # s /\ pc' = [[pc EXCEPT ![s] = "echo"] EXCEPT ![t] = "push"])
  <2>1. Signal(Goto(pc, s, "echo"), "not_full", "push")
    BY DEF Pop
  <2> QED
    BY <1>2, <2>1 DEF Signal, Goto
<1>9. HandInv' /\ pc' \in [Threads -> {"accept", "push", "not_full", "pop", "not_empty", "echo", "exited"}]
  <2>1. PICK t \in {t \in Threads : pc[t] = "not_full"} \cup {s} :
        pc' = [pc EXCEPT ![s] = "echo"] \/ (t # s /\ pc' = [[pc EXCEPT ![s] = "echo"] EXCEPT ![t] = "push"])
    BY <1>8
  <2>2. t = Main \/ t = s
    BY <2>1 DEF Inv, HandInv, Threads
  <2> QED
    BY <1>1, <1>2, <1>3, <1>7, <2>1, <2>2 DEF Inv, HandInv
<1>10. TypeOK'
  <2>1. conn' \in [Threads -> Fds \cup {None}]
    BY <1>1, <1>2, <1>3, <1>7
  <2>2. front' \in 0..number-1 /\ rear' \in 0..number-1 /\ count' \in 0..number
    BY <1>1, <1>2, <1>4 DEF NextSlot
  <2> QED
    BY <1>1, <1>2, <1>9, <2>1, <2>2 DEF Inv, TypeOK
<1>11. RingInv'
  <2>1. rear' = Slot(count)'
    BY <1>1, <1>2, <1>4 DEF NextSlot, Slot
  <2>2. \A i \in 0..count-2 : fd[Slot(i)'] \in Fds
    <3>1. \A i \in 0..count-2 : i + 1 \in 0..count-1 /\ i \in 0..count-1
      BY <1>4
    <3> QED
      BY <1>5, <3>1 DEF Inv, RingInv
  <2> QED
    BY SMTT(30), <1>1, <1>2, <1>4, <2>1, <2>2 DEF RingInv, Slot
<1>12. Content' = Tail(Content)
  <2>1. Tail(Content) = [i \in 1..count-1 |-> Content[i+1]]
    <3>1. /\ Tail(Content) \in Seq(Fds) /\ Len(Tail(Content)) = count - 1
          /\ \A i \in 1..Len(Tail(Content)) : Tail(Content)[i] = Content[i+1]
      BY <1>6, <1>7, HeadTailProperties
    <3> DEFINE tl == Tail(Content)
               fn == [i \in 1..count-1 |-> Content[i+1]]
    <3>2. \A i \in 1..count-1 : Content[i+1] \in Fds
      BY <1>4, <1>6
    <3>3. fn \in Seq(Fds) /\ Len(fn) = count - 1
      BY <1>4, <3>2
    <3>4. \A i \in 1..count-1 : tl[i] = fn[i]
      BY <3>1
    <3> HIDE DEF tl, fn
    <3>5. tl \in Seq(Fds) /\ Len(tl) = count - 1
      BY <3>1 DEF tl
    <3>6. tl = fn
      BY <3>3, <3>4, <3>5, SeqEqual
    <3> QED
      BY <3>6 DEF tl, fn
  <2>2. \A i \in 1..count-1 : Content[i+1] = fd'[Slot(i-1)']
    <3>1. \A i \in 1..count-1 : i + 1 \in 1..count /\ i - 1 \in 0..count-1 /\ (i - 1) + 1 = (i + 1) - 1
      BY <1>4
    <3> QED
      BY <1>2, <1>5, <1>6, <3>1
  <2>3. Content' = [i \in 1..count-1 |-> fd'[Slot(i-1)']]
    BY <1>2 DEF Content, Slot
  <2> QED
    BY <2>1, <2>2, <2>3
<1>13. conn[s] = None
  BY <1>2 DEF Inv, HandInv
<1> QED
  BY <1>2, <1>7, <1>9, <1>10, <1>11, <1>12, <1>13 DEF Inv

(* Steps that leave the queue alone.                                       *)
LEMMA QueueUntouched ==
  ASSUME Inv, UNCHANGED queue, TypeOK', HandInv'
  PROVE  Inv' /\ Content' = Content
  BY DEF Inv, TypeOK, RingInv, queue, Slot, Content

LEMMA OtherSteps ==
  ASSUME Inv,
         \/ \E f \in Fds : Accept(f)
         \/ PushWait
         \/ \E s \in Servers : PopWait(s)
         \/ \E t \in Threads : Spurious(t)
  PROVE  /\ Inv' /\ Content' = Content
         /\ [s \in Servers |-> conn[s]]' = [s \in Servers |-> conn[s]]
<1>1. UNCHANGED queue
  BY DEF Accept, PushWait, PopWait, Spurious
<1>2. /\ pc \in [Threads -> {"accept", "push", "not_full", "pop", "not_empty", "echo", "exited"}]
      /\ conn \in [Threads -> Fds \cup {None}]
      /\ Main \in Threads /\ Servers \subseteq Threads /\ Main \notin Servers /\ None \notin Fds
  BY QueueAssumption DEF Inv, TypeOK, Threads
<1>3. /\ pc' \in [Threads -> {"accept", "push", "not_full", "pop", "not_empty", "echo", "exited"}]
      /\ conn' \in [Threads -> Fds \cup {None}] /\ HandInv'
      /\ \A s \in Servers : conn'[s] = conn[s]
  <2>1. CASE \E f \in Fds : Accept(f)
    BY <1>2, <2>1 DEF Inv, HandInv, Accept, Goto
  <2>2. CASE PushWait
    BY <1>2, <2>2 DEF Inv, HandInv, PushWait, Goto
  <2>3. CASE \E s \in Servers : PopWait(s)
    BY <1>2, <2>3 DEF Inv, HandInv, PopWait, Goto
  <2>4. CASE \E t \in Threads : Spurious(t)
    BY <1>2, <2>4 DEF Inv, HandInv, Spurious, Goto, Threads
  <2> QED
    BY <2>1, <2>2, <2>3, <2>4
<1>4. opened' \subseteq Fds
  BY DEF Inv, TypeOK, Accept, PushWait, PopWait, Spurious
<1>5. TypeOK'
  BY <1>1, <1>3, <1>4 DEF Inv, TypeOK, queue
<1> QED
  BY <1>1, <1>3, <1>5, QueueUntouched

LEMMA EchoedGivesBack ==
  ASSUME Inv, NEW s \in Servers, Echoed(s)
  PROVE  /\ Inv' /\ Content' = Content
         /\ conn[s] # None /\ conn' = [conn EXCEPT ![s] = None]
<1>1. /\ pc \in [Threads -> {"accept", "push", "not_full", "pop", "not_empty", "echo", "exited"}]
      /\ conn \in [Threads -> Fds \cup {None}] /\ UNCHANGED queue
      /\ Main \in Threads /\ Servers \subseteq Threads /\ Main \notin Servers
  BY QueueAssumption DEF Inv, TypeOK, Threads, Echoed
<1>2. TypeOK' /\ HandInv'
  BY <1>1 DEF Inv, TypeOK, HandInv, Echoed, Goto, queue
<1> QED
  BY <1>1, <1>2, QueueUntouched DEF Echoed, Inv, HandInv

(* The end of the process leaves queue and hands as they are.              *)
LEMMA ExitLeavesAll ==
  ASSUME Inv, Exit
  PROVE  Inv' /\ Content' = Content /\ conn' = conn
<1>1. TypeOK' /\ HandInv' /\ UNCHANGED queue
  BY DEF Inv, TypeOK, HandInv, Exit, queue, Threads
<1> QED
  BY <1>1, QueueUntouched DEF Exit

LEMMA InvHolds == Spec => []Inv
<1>1. Init => Inv
  BY QueueAssumption DEF Init, Inv, TypeOK, HandInv, RingInv, Slot, Threads
<1>2. Inv /\ [Next]_vars => Inv'
  <2> SUFFICES ASSUME Inv, [Next]_vars PROVE Inv'
    OBVIOUS
  <2>1. CASE Next
    BY <2>1, PushAppends, PopTakesHead, OtherSteps, EchoedGivesBack, ExitLeavesAll
    DEF Next, ServerStep, AcceptFails, EchoFails
  <2>2. CASE UNCHANGED vars
    BY <2>2 DEF vars, queue, Inv, TypeOK, HandInv, RingInv, Slot
  <2> QED
    BY <2>1, <2>2
<1> QED
  BY <1>1, <1>2, PTL DEF Spec

(* front, rear and count stay inside the array and no more descriptors are *)
(* queued than there are slots.                                            *)
THEOREM BlockQueueTypeCorrect == Spec => []TypeOK
<1>1. Inv => TypeOK
  BY DEF Inv
<1> QED
  BY <1>1, InvHolds, PTL

(* The ring buffer is a bounded FIFO queue: threads get the descriptors in *)
(* the order in which Main pushed them, and each descriptor goes to one    *)
(* thread.                                                                 *)
THEOREM BlockQueueIsBoundedQueue == Spec => ImplementsBoundedQueue
<1> DEFINE heldBar == [s \in Servers |-> conn[s]]
<1>1. Init => Fifo!Init
  <2> SUFFICES ASSUME Init PROVE Content = << >> /\ heldBar = [t \in Servers |-> None]
    BY DEF Fifo!Init
  <2>1. Inv
    BY QueueAssumption DEF Init, Inv, TypeOK, HandInv, RingInv, Slot, Threads
  <2>2. Len(Content) = 0 /\ Content \in Seq(Fds)
    BY <2>1, ContentIs DEF Init
  <2> QED
    BY <2>2 DEF Init, Threads
<1>2. Inv /\ [Next]_vars => [Fifo!Next]_<<Content, heldBar>>
  <2> SUFFICES ASSUME Inv, [Next]_vars PROVE [Fifo!Next]_<<Content, heldBar>>
    OBVIOUS
  <2>1. CASE Push
    <3>1. /\ Content' = Append(Content, conn[Main]) /\ conn[Main] \in Fds
          /\ Len(Content) < number /\ heldBar' = heldBar
      BY <2>1, PushAppends, ContentIs
    <3>2. Fifo!Put(conn[Main])
      BY <3>1 DEF Fifo!Put
    <3> QED
      BY <3>1, <3>2 DEF Fifo!Next
  <2>2. ASSUME NEW s \in Servers, Pop(s)
        PROVE  Fifo!Next
    <3>1. /\ Content # << >> /\ Content' = Tail(Content) /\ conn[s] = None
          /\ conn' = [conn EXCEPT ![s] = Head(Content)]
      BY <2>2, PopTakesHead
    <3>2. heldBar[s] = None /\ heldBar' = [heldBar EXCEPT ![s] = Head(Content)]
      BY <3>1 DEF Inv, TypeOK, Threads
    <3>3. Fifo!Get(s)
      BY <3>1, <3>2 DEF Fifo!Get
    <3> QED
      BY <3>3 DEF Fifo!Next
  <2>3. ASSUME NEW s \in Servers, Echoed(s)
        PROVE  Fifo!Next
    <3>1. Content' = Content /\ conn[s] # None /\ conn' = [conn EXCEPT ![s] = None]
      BY <2>3, EchoedGivesBack
    <3>2. heldBar[s] # None /\ heldBar' = [heldBar EXCEPT ![s] = None]
      BY <3>1 DEF Inv, TypeOK, Threads
    <3>3. Fifo!GiveBack(s)
      BY <3>1, <3>2 DEF Fifo!GiveBack
    <3> QED
      BY <3>3 DEF Fifo!Next
  <2>4. CASE \/ \E f \in Fds : Accept(f)
             \/ PushWait
             \/ \E s \in Servers : PopWait(s)
             \/ \E t \in Threads : Spurious(t)
    BY <2>4, OtherSteps
  <2>5. CASE UNCHANGED vars
    BY <2>5 DEF vars, queue, Content, Slot
  <2>6. CASE Exit
    BY <2>6, ExitLeavesAll
  <2> QED
    BY <2>1, <2>2, <2>3, <2>4, <2>5, <2>6 DEF Next, ServerStep, AcceptFails, EchoFails
<1> QED
  BY <1>1, <1>2, InvHolds, PTL DEF Spec, ImplementsBoundedQueue, Fifo!Spec
-----------------------------------------------------------------------------
\* The servers that are on their way to the queue.
Coming == {s \in Servers : pc[s] = "pop"}

LEMMA ComingFinite ==
  /\ IsFiniteSet(Coming) /\ Cardinality(Coming) \in Nat
  /\ \A s : s \notin Coming => Cardinality(Coming \cup {s}) = Cardinality(Coming) + 1
  /\ \A s : s \in Coming => Cardinality(Coming \ {s}) = Cardinality(Coming) - 1
<1>1. IsFiniteSet(Coming)
  BY QueueAssumption, FS_Subset DEF Coming
<1> QED
  BY <1>1, FS_CardinalityType, FS_AddElement, FS_RemoveElement

LEMMA WakeupNext ==
  ASSUME Inv, Inv', NoLostWakeup, [Next]_vars
  PROVE  NoLostWakeup'
<1>1. /\ pc \in [Threads -> {"accept", "push", "not_full", "pop", "not_empty", "echo", "exited"}]
      /\ count \in 0..number /\ count' \in 0..number /\ number \in Nat
      /\ Main \in Threads /\ Servers \subseteq Threads /\ Main \notin Servers
      /\ pc[Main] \in {"accept", "push", "not_full", "exited"}
      /\ \A s \in Servers : pc[s] \in {"pop", "not_empty", "echo", "exited"}
  BY QueueAssumption DEF Inv, TypeOK, HandInv, Threads
<1>2. NoLostWakeup <=> (Asleep # {} /\ count # number => Cardinality(Coming) >= count)
  BY DEF NoLostWakeup, Full, Coming
<1>3. NoLostWakeup' <=> (Asleep' # {} /\ count' # number => Cardinality(Coming') >= count')
  BY DEF NoLostWakeup, Full, Coming
\* A step that leaves the queue alone and sends no server away from it.
<1>4. ASSUME count' = count, Asleep' \subseteq Asleep, Coming' = Coming PROVE NoLostWakeup'
  BY <1>2, <1>3, <1>4
<1>5. ASSUME count' = count, Asleep' \subseteq Asleep, NEW s, s \notin Coming,
             Coming' = Coming \cup {s}
      PROVE  NoLostWakeup'
  <2>1. Cardinality(Coming') = Cardinality(Coming) + 1 /\ Cardinality(Coming) \in Nat
    BY <1>5, ComingFinite
  <2> QED
    BY <1>1, <1>2, <1>3, <1>5, <2>1
<1> USE <1>1 DEF Asleep, Coming, Goto, queue
<1>6. CASE UNCHANGED vars
  BY <1>4, <1>6 DEF vars
<1>7. CASE PushWait \/ \E f \in Fds : Accept(f)
  <2>1. count' = count /\ Asleep' = Asleep /\ Coming' = Coming
    BY <1>7 DEF PushWait, Accept
  <2> QED
    BY <1>4, <2>1
<1>8. CASE Push
  <2> DEFINE back == [pc EXCEPT ![Main] = "accept"]
          waiting == {t \in Threads : back[t] = "not_empty"}
  <2>1. count' = count + 1 /\ count # number /\ Signal(back, "not_empty", "pop")
    BY <1>8 DEF Push, Full
  <2>2. waiting = Asleep
    BY DEF Threads
  <2>3. CASE Asleep = {}
    <3>1. pc' = back
      BY <2>1, <2>2, <2>3 DEF Signal
    <3> QED
      BY <1>3, <2>3, <3>1
  <2>4. CASE Asleep # {}
    <3>1. PICK s \in Asleep : pc' = [back EXCEPT ![s] = "pop"]
      BY <2>1, <2>2, <2>4 DEF Signal
    <3>2. s \notin Coming /\ Coming' = Coming \cup {s}
      BY <3>1
    <3>3. Cardinality(Coming') = Cardinality(Coming) + 1 /\ Cardinality(Coming) \in Nat
      BY <3>2, ComingFinite
    <3>4. Cardinality(Coming) >= count
      BY <1>2, <2>1, <2>4
    <3> HIDE DEF Coming
    <3> QED
      BY <1>3, <2>1, <3>3, <3>4
  <2> QED
    BY <2>3, <2>4
\* Indices that are equal hide a full ring or an empty one.
<1>9. ASSUME NEW s \in Servers, PopWait(s) PROVE NoLostWakeup'
  <2>1. count' = count /\ (count = number \/ count = 0)
    BY <1>9 DEF PopWait, NothingToPop, Inv, TypeOK, RingInv, Slot
  <2>2. IsFiniteSet(Coming')
    BY QueueAssumption, FS_Subset
  <2>3. Cardinality(Coming') \in Nat
    BY <2>2, FS_CardinalityType
  <2> QED
    BY <1>3, <2>1, <2>3
<1>10. ASSUME NEW s \in Servers, Pop(s) PROVE NoLostWakeup'
  <2>1. /\ count' = count - 1 /\ pc[s] = "pop"
        /\ Signal([pc EXCEPT ![s] = "echo"], "not_full", "push")
    BY <1>10 DEF Pop
  <2>2. count # number
    BY <1>10 DEF Pop, NothingToPop, Inv, TypeOK, RingInv, Slot
  <2>3. \A t \in Servers : pc'[t] = IF t = s THEN "echo" ELSE pc[t]
    <3> DEFINE gone == [pc EXCEPT ![s] = "echo"]
            waiting == {t \in Threads : gone[t] = "not_full"}
    <3>1. waiting \subseteq {Main}
      BY DEF Threads
    <3>2. pc' = gone \/ \E t \in waiting : pc' = [gone EXCEPT ![t] = "push"]
      BY <2>1 DEF Signal
    <3> QED
      BY <3>1, <3>2
  <2>4. Asleep' = Asleep /\ s \in Coming /\ Coming' = Coming \ {s}
    BY <2>1, <2>3
  <2>5. Cardinality(Coming') = Cardinality(Coming) - 1 /\ Cardinality(Coming) \in Nat
    BY <2>4, ComingFinite
  <2> HIDE DEF Coming, Asleep
  <2> QED
    BY <1>2, <1>3, <2>1, <2>2, <2>4, <2>5
<1>11. ASSUME NEW s \in Servers, Echoed(s) PROVE NoLostWakeup'
  <2>1. count' = count /\ Asleep' = Asleep /\ s \notin Coming /\ Coming' = Coming \cup {s}
    BY <1>11 DEF Echoed
  <2> QED
    BY <1>5, <2>1
<1>12. ASSUME NEW t \in Threads, Spurious(t) PROVE NoLostWakeup'
  <2>1. CASE t = Main
    <3>1. count' = count /\ Asleep' = Asleep /\ Coming' = Coming
      BY <1>12, <2>1 DEF Spurious
    <3> QED
      BY <1>4, <3>1
  <2>2. CASE t # Main
    <3>1. count' = count /\ Asleep' \subseteq Asleep /\ t \notin Coming /\ Coming' = Coming \cup {t}
      BY <1>12, <2>2 DEF Spurious, Threads
    <3> QED
      BY <1>5, <3>1
  <2> QED
    BY <2>1, <2>2
<1>13. CASE Exit
  <2>1. Asleep' = {}
    BY <1>13 DEF Exit
  <2> QED
    BY <1>3, <2>1
<1> QED
  BY <1>6, <1>7, <1>8, <1>9, <1>10, <1>11, <1>12, <1>13 DEF Next, ServerStep, AcceptFails, EchoFails

(* No wake-up is lost, for any number of servers and slots: short of a full*)
(* ring, while one sleeps, every queued descriptor has a server coming for *)
(* it, so the one pthread_cond_signal of block_queue_push is enough.       *)
THEOREM NoServerSleepsOnWork == Spec => []NoLostWakeup
<1>1. Init => NoLostWakeup
  BY QueueAssumption DEF Init, NoLostWakeup, Asleep, Threads
<1>2. Inv /\ Inv' /\ NoLostWakeup /\ [Next]_vars => NoLostWakeup'
  BY WakeupNext
<1> QED
  BY <1>1, <1>2, InvHolds, PTL DEF Spec
-----------------------------------------------------------------------------
\* Where the thread stands that won the exchange, by the status it then sees.
Before == {"won", "first", "inside"}
During == {"func", "over"}
Winning == Before \cup During \cup {"last"}
Winner == {t \in Caller : onceAt[t] \in Winning}

OnceType ==
  /\ status \in 0..3
  /\ onceAt \in [Caller -> Winning \cup {"out", "loop", "case0", "case2", "waited", "returned"}]
  /\ ran \subseteq Caller

(* Each place agrees with the status: nobody has won while it is 0, the    *)
(* winner moves it on, and only a call that sees 3 or made it 3 returns.   *)
PlaceInv == \A t \in Caller :
  /\ onceAt[t] \in Before => status = 1
  /\ onceAt[t] \in During => status = 2
  /\ onceAt[t] \in {"last", "returned"} => status = 3
  /\ onceAt[t] \in {"first", "inside", "case2", "waited"} => exists

(* The callback has run by the time the status is 3, and not before 2.     *)
RanInv ==
  /\ status >= 2 => exists
  /\ status = 3 => ran # {}
  /\ \A t \in ran : onceAt[t] \in {"over", "last", "returned"}
  /\ \A t \in Caller : onceAt[t] = "over" => t \in ran

OneWinner ==
  /\ \A s, t \in Winner : s = t
  /\ \A s, t \in ran : s = t

OnceInv == OnceType /\ PlaceInv /\ RanInv /\ OneWinner
-----------------------------------------------------------------------------
LEMMA OnceStarts == Once!Init => OnceInv
<1> SUFFICES ASSUME Once!Init PROVE OnceInv
  OBVIOUS
<1>1. \A t \in Caller : onceAt[t] = "out"
  BY DEF Once!Init
<1>2. OnceType /\ PlaceInv
  BY <1>1 DEF Once!Init, OnceType, PlaceInv, Winning, Before, During
<1>3. RanInv
  BY <1>1 DEF Once!Init, RanInv
<1>4. OneWinner
  BY <1>1 DEF Once!Init, OneWinner, Winner, Winning, Before, During
<1> QED BY <1>2, <1>3, <1>4 DEF OnceInv

\* A step of one thread that wins nothing and leaves the status and the callback alone.
LEMMA Wanders ==
  ASSUME OnceInv, NEW t \in Caller, NEW to,
         onceAt' = [onceAt EXCEPT ![t] = to], UNCHANGED <<status, ran>>, exists' = exists,
         onceAt[t] \notin Winning \cup {"returned"},
         \/ to \in {"out", "loop", "case0"}
         \/ to \in {"case2", "waited"} /\ exists
         \/ to = "returned" /\ status = 3
  PROVE  OnceInv'
BY DEF OnceInv, OnceType, PlaceInv, RanInv, OneWinner, Winner, Winning, Before, During

\* A step of the winner.
LEMMA Advances ==
  ASSUME OnceInv, NEW t \in Caller, NEW to, onceAt[t] \in Winning, onceAt' = [onceAt EXCEPT ![t] = to],
         \/ to = "first"    /\ onceAt[t] = "won" /\ exists' = TRUE /\ UNCHANGED <<status, ran>>
         \/ to = "inside"   /\ onceAt[t] = "first"  /\ UNCHANGED <<status, ran, exists>>
         \/ to = "func"     /\ onceAt[t] = "inside" /\ status' = 2 /\ UNCHANGED <<ran, exists>>
         \/ to = "over"     /\ onceAt[t] = "func"   /\ ran' = ran \cup {t} /\ UNCHANGED <<status, exists>>
         \/ to = "last"     /\ onceAt[t] = "over"   /\ status' = 3 /\ UNCHANGED <<ran, exists>>
         \/ to = "returned" /\ onceAt[t] = "last"   /\ UNCHANGED <<status, ran, exists>>
  PROVE  OnceInv'
<1>1. \A s \in Caller : s # t => onceAt[s] \notin Winning
  BY DEF OnceInv, OneWinner, Winner
<1>2. onceAt[t] = "func" => ran = {}
  BY <1>1 DEF OnceInv, OnceType, PlaceInv, RanInv, Winning, Before, During
<1>3. OnceType'
  BY DEF OnceInv, OnceType, Winning, Before, During
<1>4. PlaceInv'
  BY <1>1 DEF OnceInv, OnceType, PlaceInv, RanInv, Winning, Before, During
<1>5. RanInv'
  BY <1>1 DEF OnceInv, OnceType, PlaceInv, RanInv, Winning, Before, During
<1>6. OneWinner'
  BY <1>1, <1>2 DEF OnceInv, OnceType, OneWinner, Winner, Winning, Before, During
<1> QED BY <1>3, <1>4, <1>5, <1>6 DEF OnceInv

LEMMA Wins ==
  ASSUME OnceInv, NEW t \in Caller, onceAt[t] = "case0", status = 0,
         onceAt' = [onceAt EXCEPT ![t] = "won"], status' = 1, UNCHANGED <<exists, ran>>
  PROVE  OnceInv'
<1>1. Winner = {} /\ ran = {}
  BY DEF OnceInv, OnceType, PlaceInv, RanInv, Winner, Winning, Before, During
<1> QED BY <1>1 DEF OnceInv, OnceType, PlaceInv, RanInv, OneWinner, Winner, Winning, Before, During

LEMMA OnceStep == OnceInv /\ [Once!Next]_onceVars => OnceInv'
<1> SUFFICES ASSUME OnceInv, [Once!Next]_onceVars PROVE OnceInv'
  OBVIOUS
<1>1. ASSUME NEW t \in Caller, Once!Call(t) PROVE OnceInv'
  BY <1>1, Wanders DEF Once!Call, Once!Goto, Winning, Before, During
<1>2. ASSUME NEW t \in Caller, Once!Read(t) PROVE OnceInv'
  <2>1. CASE status = 0
    BY <1>2, <2>1, Wanders DEF Once!Read, Once!Goto, Winning, Before, During
  <2>2. CASE status = 1
    BY <1>2, <2>2, Wanders DEF Once!Read, Once!Goto, Winning, Before, During
  <2>3. CASE status = 2
    BY <1>2, <2>3, Wanders DEF Once!Read, Once!Goto, Winning, Before, During, OnceInv, RanInv
  <2>4. CASE status = 3
    BY <1>2, <2>4, Wanders DEF Once!Read, Once!Goto, Winning, Before, During
  <2> QED BY <2>1, <2>2, <2>3, <2>4 DEF OnceInv, OnceType
<1>3. ASSUME NEW t \in Caller, Once!Exchange(t) PROVE OnceInv'
  <2>1. CASE status = 0
    BY <1>3, <2>1, Wins DEF Once!Exchange, Once!Goto
  <2>2. CASE status # 0
    BY <1>3, <2>2, Wanders DEF Once!Exchange, Once!Goto, Winning, Before, During
  <2> QED BY <2>1, <2>2
<1>4. ASSUME NEW t \in Caller,
             Once!Initialize(t) \/ Once!EnterFirst(t) \/ Once!Publish(t) \/ Once!Func(t) \/ Once!Over(t) \/ Once!LeaveLast(t)
      PROVE OnceInv'
  BY <1>4, Advances DEF Once!Initialize, Once!EnterFirst, Once!Publish, Once!Func, Once!Over, Once!LeaveLast, Once!Enter, Once!Leave,
                        Once!Goto, Winning, Before, During
<1>5. ASSUME NEW t \in Caller, Once!EnterToWait(t) \/ Once!LeaveAtOnce(t) PROVE OnceInv'
  <2>1. onceAt[t] \in {"case2", "waited"} => exists
    BY DEF OnceInv, PlaceInv
  <2> QED BY <1>5, <2>1, Wanders DEF Once!EnterToWait, Once!LeaveAtOnce, Once!Enter, Once!Leave, Once!Goto, Winning, Before, During
<1>6. CASE UNCHANGED onceVars
  BY <1>6 DEF onceVars, OnceInv, OnceType, PlaceInv, RanInv, OneWinner, Winner
<1> QED BY <1>1, <1>2, <1>3, <1>4, <1>5, <1>6 DEF Once!Next, Once!Step

-----------------------------------------------------------------------------
(* Until a thread that has a timed mutex tries it again, the handle is     *)
(* taken as often as the calls say, and by the thread that claims it.      *)
HandleInv ==
  /\ owner \in Caller \cup {None} /\ depth \in Nat /\ (owner = None <=> depth = 0)
  /\ mAlreadyLocked \in BOOLEAN
  /\ call \in [Caller -> {"none", "lock", "timedlock", "claim"}] /\ holds \in [Caller -> Nat]
  /\ \A t \in Caller : call[t] = "claim" => owner = t
CountInv ==
  /\ \A t \in Caller : holds[t] = Mutex!Taken(t)
  /\ ~recursive => /\ \A t \in Caller : holds[t] <= 1
                   /\ mAlreadyLocked <=> \E t \in Caller : holds[t] > 0

MutexInv ==
  /\ recursive \in BOOLEAN /\ wild \in BOOLEAN
  /\ ~wild => HandleInv /\ CountInv

LEMMA MutexStarts == Mutex!Init => MutexInv
<1> SUFFICES ASSUME Mutex!Init PROVE MutexInv
  OBVIOUS
<1>1. HandleInv
  BY DEF Mutex!Init, HandleInv
<1>2. CountInv
  BY SyncAssumption DEF Mutex!Init, CountInv, Mutex!Taken
<1> QED
  BY <1>1, <1>2 DEF Mutex!Init, MutexInv

LEMMA MutexCounts == MutexInv => Mutex!LocksCounted
BY DEF MutexInv, CountInv, HandleInv, Mutex!LocksCounted, Mutex!Holders

LEMMA MutexStep == MutexInv /\ [Mutex!Next]_mutexVars => MutexInv'
<1> SUFFICES ASSUME MutexInv, [Mutex!Next]_mutexVars PROVE MutexInv'
  OBVIOUS
<1> USE SyncAssumption DEF Mutex!mtx, Mutex!Idle
<1>1. CASE UNCHANGED mutexVars
  BY <1>1 DEF mutexVars, MutexInv, HandleInv, CountInv, Mutex!Taken
<1>2. CASE wild /\ Mutex!Next
  <2>1. wild' = TRUE /\ recursive' = recursive
    BY <1>2 DEF MutexInv, Mutex!Next, Mutex!Begin, Mutex!Entered, Mutex!TimedOut, Mutex!Claim, Mutex!TryLock,
                Mutex!TryLockAgain, Mutex!Unlock
  <2> QED
    BY <2>1 DEF MutexInv
<1>3. CASE ~wild /\ Mutex!Next
  <2> USE <1>3
  <2>0. /\ HandleInv /\ CountInv /\ recursive \in BOOLEAN /\ wild \in BOOLEAN
        /\ \A t \in Caller : t # None
    BY DEF MutexInv
  <2>1. ASSUME NEW t \in Caller, NEW f \in {"lock", "timedlock"}, Mutex!Begin(t, f) \/ Mutex!TimedOut(t)
        PROVE  MutexInv'
    <3>1. /\ UNCHANGED <<recursive, owner, depth, mAlreadyLocked, holds, wild>>
          /\ \E to \in {"none", "lock", "timedlock"} : call' = [call EXCEPT ![t] = to]
          /\ call[t] # "claim"
      BY <2>1 DEF Mutex!Begin, Mutex!TimedOut
    <3> QED
      BY <2>0, <3>1 DEF MutexInv, HandleInv, CountInv, Mutex!Taken
  <2>2. ASSUME NEW t \in Caller, Mutex!Entered(t) PROVE MutexInv'
    <3>1. /\ call[t] # "claim" /\ call' = [call EXCEPT ![t] = "claim"]
          /\ owner \in {None, t} /\ owner' = t /\ depth' = depth + 1
          /\ UNCHANGED <<recursive, mAlreadyLocked, holds, wild>>
      BY <2>2 DEF Mutex!Entered, Mutex!Enter, Mutex!Free
    <3>2. HandleInv'
      BY <2>0, <3>1 DEF HandleInv
    <3>3. \A u \in Caller : Mutex!Taken(u)' = Mutex!Taken(u)
      BY <2>0, <3>1 DEF HandleInv, Mutex!Taken
    <3> QED
      BY <2>0, <3>1, <3>2, <3>3 DEF MutexInv, CountInv
  <2>3. ASSUME NEW t \in Caller, Mutex!Claim(t) PROVE MutexInv'
    <3>1. /\ call[t] = "claim" /\ call' = [call EXCEPT ![t] = "none"]
          /\ recursive \/ ~mAlreadyLocked
          /\ mAlreadyLocked' = (mAlreadyLocked \/ ~recursive) /\ holds' = [holds EXCEPT ![t] = @ + 1]
          /\ UNCHANGED <<recursive, owner, depth, wild>>
      BY <2>3 DEF Mutex!Claim, Mutex!Locked
    <3>2. HandleInv'
      BY <2>0, <3>1 DEF HandleInv
    <3>3. \A u \in Caller : holds'[u] = Mutex!Taken(u)'
      BY <2>0, <3>1 DEF HandleInv, CountInv, Mutex!Taken
    <3>4. ~recursive => (\A u \in Caller : holds'[u] <= 1) /\ mAlreadyLocked' /\ holds'[t] > 0
      <4>1. ~recursive => ~mAlreadyLocked /\ holds[t] = 0 /\ \A u \in Caller : holds[u] <= 1
        BY <2>0, <3>1 DEF HandleInv, CountInv
      <4>2. holds \in [Caller -> Nat]
        BY <2>0 DEF HandleInv
      <4>3. holds' = [holds EXCEPT ![t] = @ + 1]
        BY <3>1
      <4>4. ~recursive => holds'[t] = 1 /\ \A u \in Caller \ {t} : holds'[u] = holds[u]
        BY <4>1, <4>2, <4>3
      <4>5. ~recursive => mAlreadyLocked'
        BY <3>1
      <4>6. ~recursive => (\A u \in Caller : holds'[u] <= 1) /\ holds'[t] > 0
        BY <4>1, <4>4
      <4> QED
        BY <4>5, <4>6
    <3> QED
      BY <2>0, <3>1, <3>2, <3>3, <3>4 DEF MutexInv, CountInv
  <2>4. ASSUME NEW t \in Caller, Mutex!TryLock(t) PROVE MutexInv'
    <3>1. /\ call[t] = "none" /\ call' = call /\ owner \in {None, t} /\ owner' = t /\ depth' = depth + 1
          /\ recursive \/ ~mAlreadyLocked
          /\ mAlreadyLocked' = (mAlreadyLocked \/ ~recursive) /\ holds' = [holds EXCEPT ![t] = @ + 1]
          /\ UNCHANGED <<recursive, wild>>
      BY <2>4 DEF Mutex!TryLock, Mutex!Enter, Mutex!Free, Mutex!Locked
    <3>2. HandleInv'
      BY <2>0, <3>1 DEF HandleInv
    <3>3. \A u \in Caller : holds'[u] = Mutex!Taken(u)'
      BY <2>0, <3>1 DEF HandleInv, CountInv, Mutex!Taken
    <3>4. ~recursive => (\A u \in Caller : holds'[u] <= 1) /\ mAlreadyLocked' /\ holds'[t] > 0
      <4>1. ~recursive => ~mAlreadyLocked /\ holds[t] = 0 /\ \A u \in Caller : holds[u] <= 1
        BY <2>0, <3>1 DEF HandleInv, CountInv
      <4>2. holds \in [Caller -> Nat]
        BY <2>0 DEF HandleInv
      <4>3. holds' = [holds EXCEPT ![t] = @ + 1]
        BY <3>1
      <4>4. ~recursive => holds'[t] = 1 /\ \A u \in Caller \ {t} : holds'[u] = holds[u]
        BY <4>1, <4>2, <4>3
      <4>5. ~recursive => mAlreadyLocked'
        BY <3>1
      <4>6. ~recursive => (\A u \in Caller : holds'[u] <= 1) /\ holds'[t] > 0
        BY <4>1, <4>4
      <4> QED
        BY <4>5, <4>6
    <3> QED
      BY <2>0, <3>1, <3>2, <3>3, <3>4 DEF MutexInv, CountInv
  <2>5. ASSUME NEW t \in Caller, Mutex!TryLockAgain(t) PROVE MutexInv'
    <3>1. wild' = TRUE \/ UNCHANGED <<owner, depth, wild>>
      BY <2>5 DEF Mutex!TryLockAgain, Mutex!BackOut
    <3>2. UNCHANGED <<recursive, mAlreadyLocked, call, holds>>
      BY <2>5 DEF Mutex!TryLockAgain
    <3> QED
      BY <2>0, <3>1, <3>2 DEF MutexInv, HandleInv, CountInv, Mutex!Taken
  <2>6. ASSUME NEW t \in Caller, Mutex!Unlock(t) PROVE MutexInv'
    <3>1. /\ call[t] = "none" /\ call' = call /\ holds[t] > 0 /\ mAlreadyLocked' = FALSE
          /\ depth' = depth - 1 /\ owner' = (IF depth = 1 THEN None ELSE owner)
          /\ holds' = [holds EXCEPT ![t] = @ - 1] /\ UNCHANGED <<recursive, wild>>
      BY <2>6 DEF Mutex!Unlock, Mutex!Leave
    <3>2. owner = t /\ holds[t] = depth /\ holds[t] \in Nat /\ depth \in Nat
          /\ \A u \in Caller \ {t} : holds[u] = 0 /\ call[u] # "claim"
      BY <2>0, <3>1 DEF HandleInv, CountInv, Mutex!Taken
    <3>3. HandleInv'
      <4>1. depth' \in Nat /\ (owner' = None <=> depth' = 0) /\ owner' \in Caller \cup {None}
        BY <2>0, <3>1, <3>2
      <4>2. holds' \in [Caller -> Nat]
        BY <2>0, <3>1, <3>2 DEF HandleInv
      <4>3. \A u \in Caller : call'[u] # "claim"
        BY <3>1, <3>2
      <4> QED
        BY <2>0, <3>1, <4>1, <4>2, <4>3 DEF HandleInv
    <3>4. \A u \in Caller : holds'[u] = Mutex!Taken(u)'
      BY <2>0, <3>1, <3>2 DEF HandleInv, Mutex!Taken
    <3>5. ~recursive => \A u \in Caller : holds'[u] = 0
      BY <2>0, <3>1, <3>2 DEF HandleInv, CountInv
    <3> QED
      BY <2>0, <3>1, <3>3, <3>4, <3>5 DEF MutexInv, CountInv
  <2> QED
    BY <2>1, <2>2, <2>3, <2>4, <2>5, <2>6 DEF Mutex!Next
<1> QED
  BY <1>1, <1>2, <1>3 DEF MutexInv
-----------------------------------------------------------------------------
\* Past the mutex and not yet at the events, and the parts of a wait.
Places == {"out", "in", "going", "blocked", "one", "all", "reset", "relock", "signal", "broadcast"}
Going  == {t \in Caller : at[t] = "going"}

CndTypes ==
  /\ at \in [Caller -> Places]
  /\ one \in BOOLEAN /\ all \in BOOLEAN /\ merged \in BOOLEAN
  /\ mWaitersCount \in Nat /\ timeouts \in Nat /\ credit \in Nat

(* A broadcast still owes only threads on their way to the second event,   *)
(* which stays set for them; whoever is about to reset it owes nobody.     *)
OwedInv ==
  /\ owed \subseteq Going
  /\ owed # {} => all
  /\ Cnd!Resetting => owed = {}

(* Nobody is blocked on an event that is set, and what signals have not    *)
(* released yet is in the first event.                                     *)
CreditInv ==
  /\ one \/ all => Cnd!Blocked = {}
  /\ credit <= Cardinality(Cnd!Waiting)
  /\ ~merged => credit <= 1 /\ (credit > 0 => one)

CountedInv == mWaitersCount = Cardinality(Cnd!Counted) + timeouts

CndInv == CndTypes /\ CountedInv /\ OwedInv /\ CreditInv

(* TinyCnd counts with the Cardinality it extends.                         *)
LEMMA Counting == \A S : Cnd!Cardinality(S) = Cardinality(S)
BY DEF Cnd!Cardinality, Cardinality

LEMMA CallersFinite ==
  ASSUME NEW S \in SUBSET Caller
  PROVE  /\ IsFiniteSet(S) /\ Cardinality(S) \in Nat /\ (Cardinality(S) = 0 <=> S = {})
         /\ \A t : t \notin S => Cardinality(S \cup {t}) = Cardinality(S) + 1
         /\ \A t \in S : Cardinality(S \ {t}) = Cardinality(S) - 1
<1>1. IsFiniteSet(S)
  BY SyncAssumption, FS_Subset
<1> QED
  BY <1>1, FS_CardinalityType, FS_EmptySet, FS_AddElement, FS_RemoveElement

LEMMA CndStarts == Cnd!Init => CndInv
<1> SUFFICES ASSUME Cnd!Init PROVE CndInv
  OBVIOUS
<1>1. Cnd!Counted = {} /\ Cnd!Waiting = {} /\ Cnd!Blocked = {}
  BY DEF Cnd!Init, Cnd!Counted, Cnd!Waiting, Cnd!Blocked
<1>2. Cardinality({}) = 0
  BY FS_EmptySet
<1>3. CndTypes
  BY DEF Cnd!Init, CndTypes, Places
<1>4. CountedInv
  BY <1>1, <1>2 DEF Cnd!Init, CountedInv
<1>5. OwedInv
  BY DEF Cnd!Init, OwedInv
<1>6. CreditInv
  BY <1>1, <1>2 DEF Cnd!Init, CreditInv
<1> QED
  BY <1>3, <1>4, <1>5, <1>6 DEF CndInv

LEMMA CndPromises == CndInv => Cnd!BroadcastReachesAll /\ Cnd!WaitersCounted /\ Cnd!SignalsRelease
<1> SUFFICES ASSUME CndInv PROVE Cnd!BroadcastReachesAll /\ Cnd!WaitersCounted /\ Cnd!SignalsRelease
  OBVIOUS
<1>1. ASSUME \A t \in Caller : at[t] \in {"out", "in", "blocked"}, ~merged PROVE credit = 0
  <2>1. Cnd!Waiting = Cnd!Blocked
    BY <1>1 DEF Cnd!Waiting, Cnd!Blocked
  <2>2. CASE one
    <3>1. Cardinality(Cnd!Waiting) = 0
      BY <2>1, <2>2, FS_EmptySet DEF CndInv, CreditInv
    <3> QED
      BY <3>1 DEF CndInv, CreditInv, CndTypes
  <2>3. CASE ~one
    BY <1>1, <2>3 DEF CndInv, CreditInv, CndTypes
  <2> QED
    BY <2>2, <2>3
<1>2. Cnd!WaitersCounted
  BY Counting DEF CndInv, CountedInv, Cnd!WaitersCounted
<1> QED
  BY <1>1, <1>2 DEF CndInv, OwedInv, Cnd!BroadcastReachesAll, Cnd!SignalsRelease

(* Steps of t that start or end no wait and leave the events alone.        *)
LEMMA CndQuiet ==
  ASSUME CndInv, NEW t \in Caller, NEW to \in {"out", "in", "relock", "signal", "broadcast"},
         at[t] \notin {"going", "blocked", "one", "all"}, at' = [at EXCEPT ![t] = to],
         UNCHANGED <<mWaitersCount, one, owed, credit, merged, timeouts>>,
         all' = all \/ (all' = FALSE /\ at[t] = "reset")
  PROVE  CndInv'
<1>1. /\ Cnd!Counted' = Cnd!Counted /\ Cnd!Waiting' = Cnd!Waiting /\ Cnd!Blocked' = Cnd!Blocked /\ Going' = Going
      /\ Cnd!Resetting' => Cnd!Resetting
  BY DEF CndInv, CndTypes, Cnd!Counted, Cnd!Waiting, Cnd!Blocked, Going, Cnd!Resetting
<1>2. at[t] = "reset" => owed = {}
  BY DEF CndInv, OwedInv, Cnd!Resetting
<1>3. CndTypes'
  BY DEF CndInv, CndTypes, Places
<1> QED
  BY <1>1, <1>2, <1>3 DEF CndInv, CountedInv, OwedInv, CreditInv

LEMMA CndStep == CndInv /\ [Cnd!Next]_cndVars => CndInv'
<1> SUFFICES ASSUME CndInv, [Cnd!Next]_cndVars PROVE CndInv'
  OBVIOUS
<1> USE DEF Cnd!events, Cnd!Goto, Cnd!Nobody
<1>0. /\ CndTypes /\ CountedInv /\ OwedInv /\ CreditInv
      /\ at \in [Caller -> Places] /\ credit \in Nat /\ mWaitersCount \in Nat /\ timeouts \in Nat
      /\ one \in BOOLEAN /\ all \in BOOLEAN /\ merged \in BOOLEAN
  BY DEF CndInv, CndTypes
<1>1. CASE UNCHANGED cndVars
  BY <1>1 DEF cndVars, CndInv, CndTypes, CountedInv, OwedInv, CreditInv, Going,
              Cnd!Counted, Cnd!Waiting, Cnd!Blocked, Cnd!Resetting
<1>2. ASSUME NEW t \in Caller, NEW f \in {"signal", "broadcast"},
             Cnd!Lock(t, "out") \/ Cnd!Lock(t, "relock") \/ Cnd!Unlock(t) \/ Cnd!Reset(t) \/ Cnd!HaveWaiters(t, f)
      PROVE  CndInv'
  <2>1. /\ UNCHANGED <<mWaitersCount, one, owed, credit, merged, timeouts>>
        /\ all' = all \/ (all' = FALSE /\ at[t] = "reset")
        /\ at[t] \notin {"going", "blocked", "one", "all"}
        /\ \E to \in {"out", "in", "relock", "signal", "broadcast"} : at' = [at EXCEPT ![t] = to]
    BY <1>2 DEF Cnd!Lock, Cnd!Unlock, Cnd!Reset, Cnd!HaveWaiters
  <2> QED
    BY <2>1, CndQuiet
<1>3. ASSUME NEW t \in Caller, Cnd!CndWait(t) PROVE CndInv'
  <2>1. /\ at[t] = "in" /\ at' = [at EXCEPT ![t] = "going"] /\ mWaitersCount' = mWaitersCount + 1
        /\ UNCHANGED <<one, all, owed, credit, merged, timeouts>>
    BY <1>3 DEF Cnd!CndWait
  <2>2. /\ Cnd!Counted' = Cnd!Counted \cup {t} /\ t \notin Cnd!Counted
        /\ Cnd!Waiting' = Cnd!Waiting \cup {t} /\ t \notin Cnd!Waiting
        /\ Cnd!Blocked' = Cnd!Blocked /\ Going \subseteq Going' /\ (Cnd!Resetting' => Cnd!Resetting)
    BY <1>0, <2>1 DEF Cnd!Counted, Cnd!Waiting, Cnd!Blocked, Going, Cnd!Resetting
  <2>3. /\ Cardinality(Cnd!Counted') = Cardinality(Cnd!Counted) + 1 /\ Cardinality(Cnd!Counted) \in Nat
        /\ Cardinality(Cnd!Waiting') = Cardinality(Cnd!Waiting) + 1 /\ Cardinality(Cnd!Waiting) \in Nat
    <3>1. Cnd!Counted \in SUBSET Caller /\ Cnd!Waiting \in SUBSET Caller
      BY DEF Cnd!Counted, Cnd!Waiting
    <3> QED
      BY <2>2, <3>1, CallersFinite
  <2>4. CndTypes'
    BY <1>0, <2>1 DEF CndTypes, Places
  <2> QED
    BY <1>0, <2>1, <2>2, <2>3, <2>4 DEF CndInv, CountedInv, OwedInv, CreditInv
<1>4. ASSUME NEW t \in Caller, Cnd!Wait(t) PROVE CndInv'
  <2>1. /\ at[t] = "going" /\ UNCHANGED <<mWaitersCount, all, merged, timeouts>>
        /\ \/ /\ one /\ at' = [at EXCEPT ![t] = "one"] /\ one' = FALSE /\ Cnd!Releases(t)
           \/ /\ ~one /\ all /\ at' = [at EXCEPT ![t] = "all"] /\ one' = one /\ Cnd!Releases(t)
           \/ /\ ~one /\ ~all /\ at' = [at EXCEPT ![t] = "blocked"] /\ one' = one /\ UNCHANGED <<owed, credit>>
    BY <1>4 DEF Cnd!Wait
  <2>2. Cnd!Counted' = Cnd!Counted /\ (Cnd!Resetting' => Cnd!Resetting)
    BY <1>0, <2>1 DEF Cnd!Counted, Cnd!Waiting, Cnd!Resetting
  <2>3. CASE at' = [at EXCEPT ![t] = "blocked"] /\ ~one /\ ~all /\ one' = one /\ UNCHANGED <<owed, credit>>
    <3>1. Cnd!Waiting' = Cnd!Waiting /\ Going \ {t} \subseteq Going'
      BY <1>0, <2>1, <2>3 DEF Cnd!Waiting, Going
    <3>2. owed = {}
      BY <1>0, <2>3 DEF OwedInv
    <3>3. CndTypes'
      BY <1>0, <2>1, <2>3 DEF CndTypes, Places
    <3> QED
      BY <1>0, <2>1, <2>2, <2>3, <3>1, <3>2, <3>3 DEF CndInv, CountedInv, OwedInv, CreditInv
  <2>4. CASE \E to \in {"one", "all"} : /\ at' = [at EXCEPT ![t] = to] /\ (one' = FALSE)
                                        /\ Cnd!Releases(t) /\ (one \/ all)
    <3>1. /\ Cnd!Waiting' = Cnd!Waiting \ {t} /\ t \in Cnd!Waiting /\ Going' = Going \ {t}
          /\ Cnd!Blocked' = Cnd!Blocked
      BY <1>0, <2>1, <2>4 DEF Cnd!Waiting, Cnd!Blocked, Going
    <3>2. Cardinality(Cnd!Waiting') = Cardinality(Cnd!Waiting) - 1 /\ Cardinality(Cnd!Waiting) \in Nat
          /\ Cardinality(Cnd!Waiting) > 0
      <4>1. Cnd!Waiting \in SUBSET Caller
        BY DEF Cnd!Waiting
      <4> QED
        BY <3>1, <4>1, CallersFinite
    <3>3. owed' = owed \ {t} /\ credit' = (IF credit = 0 THEN 0 ELSE credit - 1)
      BY <2>4 DEF Cnd!Releases
    <3>4. CndTypes'
      <4>1. at' \in [Caller -> Places]
        BY <1>0, <2>4 DEF Places
      <4>2. credit' \in Nat
        BY <1>0, <3>3
      <4>3. one' \in BOOLEAN
        BY <2>4
      <4> QED
        BY <1>0, <2>1, <4>1, <4>2, <4>3 DEF CndTypes
    <3>5. OwedInv'
      BY <1>0, <2>1, <2>2, <3>1, <3>3 DEF OwedInv
    <3>6. CreditInv'
      BY <1>0, <2>1, <2>4, <3>1, <3>2, <3>3 DEF CreditInv
    <3> QED
      BY <1>0, <2>1, <2>2, <3>4, <3>5, <3>6 DEF CndInv, CountedInv
  <2> QED
    BY <1>0, <2>1, <2>3, <2>4
<1>5. ASSUME NEW t \in Caller, Cnd!Timeout(t) PROVE CndInv'
  <2>1. /\ at[t] = "blocked" /\ at' = [at EXCEPT ![t] = "relock"] /\ timeouts' = timeouts + 1
        /\ owed' = owed \ {t}
        /\ credit' = (IF credit >= Cardinality(Cnd!Waiting) THEN credit - 1 ELSE credit)
        /\ UNCHANGED <<mWaitersCount, one, all, merged>>
    BY <1>5, Counting DEF Cnd!Timeout
  <2>2. /\ Cnd!Counted' = Cnd!Counted \ {t} /\ t \in Cnd!Counted
        /\ Cnd!Waiting' = Cnd!Waiting \ {t} /\ t \in Cnd!Waiting
        /\ Cnd!Blocked' \subseteq Cnd!Blocked /\ Going' = Going /\ (Cnd!Resetting' => Cnd!Resetting)
    BY <1>0, <2>1 DEF Cnd!Counted, Cnd!Waiting, Cnd!Blocked, Going, Cnd!Resetting
  <2>3. /\ Cardinality(Cnd!Counted') = Cardinality(Cnd!Counted) - 1 /\ Cardinality(Cnd!Counted) \in Nat
        /\ Cardinality(Cnd!Waiting') = Cardinality(Cnd!Waiting) - 1 /\ Cardinality(Cnd!Waiting) \in Nat
        /\ Cardinality(Cnd!Waiting) > 0
    <3>1. Cnd!Counted \in SUBSET Caller /\ Cnd!Waiting \in SUBSET Caller
      BY DEF Cnd!Counted, Cnd!Waiting
    <3> QED
      BY <2>2, <3>1, CallersFinite
  <2>4. CndTypes'
    BY <1>0, <2>1, <2>3 DEF CndTypes, Places
  <2>5. CreditInv'
    BY <1>0, <2>1, <2>2, <2>3 DEF CreditInv
  <2> QED
    BY <1>0, <2>1, <2>2, <2>3, <2>4, <2>5 DEF CndInv, CountedInv, OwedInv
<1>6. ASSUME NEW t \in Caller, Cnd!Leave(t) PROVE CndInv'
  <2>1. /\ at[t] \in {"one", "all"} /\ mWaitersCount' = mWaitersCount - 1
        /\ at' = [at EXCEPT ![t] = IF Cnd!LastWaiter(t) THEN "reset" ELSE "relock"]
        /\ UNCHANGED <<one, all, owed, credit, merged, timeouts>>
    BY <1>6 DEF Cnd!Leave
  <2>2. /\ Cnd!Counted' = Cnd!Counted \ {t} /\ t \in Cnd!Counted
        /\ Cnd!Waiting' = Cnd!Waiting /\ Cnd!Blocked' = Cnd!Blocked /\ Going' = Going
    BY <1>0, <2>1 DEF Cnd!Counted, Cnd!Waiting, Cnd!Blocked, Going
  <2>3. /\ Cardinality(Cnd!Counted') = Cardinality(Cnd!Counted) - 1 /\ Cardinality(Cnd!Counted) \in Nat
        /\ Cardinality(Cnd!Counted) > 0 /\ (Cardinality(Cnd!Counted) = 1 => Cnd!Counted' = {})
    <3>1. Cnd!Counted \in SUBSET Caller
      BY DEF Cnd!Counted, Cnd!Waiting
    <3>2. Cnd!Counted' \in SUBSET Caller
      BY <2>2, <3>1
    <3>3. Cardinality(Cnd!Counted') = 0 => Cnd!Counted' = {}
      BY <3>2, CallersFinite
    <3>4. /\ Cardinality(Cnd!Counted') = Cardinality(Cnd!Counted) - 1 /\ Cardinality(Cnd!Counted) \in Nat
          /\ (Cardinality(Cnd!Counted) = 0 <=> Cnd!Counted = {})
      BY <2>2, <3>1, CallersFinite
    <3> QED
      BY <2>2, <3>3, <3>4
  <2>4. CndTypes'
    BY <1>0, <2>1, <2>3 DEF CndTypes, Places, CountedInv
  <2>5. CASE Cnd!LastWaiter(t)
    <3>1. Cnd!Counted' = {}
      BY <1>0, <2>3, <2>5 DEF Cnd!LastWaiter, CountedInv
    <3>2. Going \subseteq Cnd!Counted /\ t \notin Going
      BY <2>1 DEF Going, Cnd!Counted, Cnd!Waiting
    <3>3. owed = {}
      BY <1>0, <2>2, <3>1, <3>2 DEF OwedInv
    <3> QED
      BY <1>0, <2>1, <2>2, <2>3, <2>4, <3>3 DEF CndInv, CountedInv, OwedInv, CreditInv
  <2>6. CASE ~Cnd!LastWaiter(t)
    <3>1. Cnd!Resetting' => Cnd!Resetting
      BY <1>0, <2>1, <2>6 DEF Cnd!Resetting
    <3> QED
      BY <1>0, <2>1, <2>2, <2>3, <2>4, <3>1 DEF CndInv, CountedInv, OwedInv, CreditInv
  <2> QED
    BY <2>5, <2>6
<1>7. ASSUME NEW t \in Caller, Cnd!SetOne(t) PROVE CndInv'
  <2> DEFINE more == IF credit < Cardinality(Cnd!Waiting) THEN credit + 1 ELSE credit
  <2>0. Cardinality(Cnd!Waiting) \in Nat
    <3>1. Cnd!Waiting \in SUBSET Caller
      BY DEF Cnd!Waiting
    <3> QED
      BY <3>1, CallersFinite
  <2>1. /\ at[t] = "signal" /\ UNCHANGED <<mWaitersCount, all, timeouts>>
        /\ \/ \E u \in Cnd!Blocked :
                /\ at' = [at EXCEPT ![t] = "in", ![u] = "one"]
                /\ owed' = owed \ {u} /\ credit' = more - 1 /\ UNCHANGED <<one, merged>>
           \/ /\ Cnd!Blocked = {} /\ at' = [at EXCEPT ![t] = "in"]
              /\ one' = TRUE /\ merged' = (merged \/ one) /\ credit' = more /\ UNCHANGED owed
    BY <1>7, Counting DEF Cnd!SetOne
  <2>2. CASE \E u \in Cnd!Blocked :
               /\ at' = [at EXCEPT ![t] = "in", ![u] = "one"]
               /\ owed' = owed \ {u} /\ credit' = more - 1 /\ UNCHANGED <<one, merged>>
    <3>1. PICK u \in Cnd!Blocked : /\ at' = [at EXCEPT ![t] = "in", ![u] = "one"]
                                   /\ owed' = owed \ {u} /\ credit' = more - 1 /\ UNCHANGED <<one, merged>>
      BY <2>2
    <3>2. u \in Caller /\ at[u] = "blocked" /\ u # t
      BY <2>1, <3>1 DEF Cnd!Blocked
    <3>3. \A v \in Caller : at'[v] = IF v = t THEN "in" ELSE IF v = u THEN "one" ELSE at[v]
      BY <1>0, <3>1, <3>2
    <3>4. /\ Cnd!Counted' = Cnd!Counted /\ Cnd!Waiting' = Cnd!Waiting \ {u} /\ u \in Cnd!Waiting
          /\ Cnd!Blocked' \subseteq Cnd!Blocked /\ Going' = Going /\ (Cnd!Resetting' => Cnd!Resetting)
      BY <2>1, <3>2, <3>3 DEF Cnd!Counted, Cnd!Waiting, Cnd!Blocked, Going, Cnd!Resetting
    <3>5. Cardinality(Cnd!Waiting') = Cardinality(Cnd!Waiting) - 1 /\ Cardinality(Cnd!Waiting) > 0
      <4>1. Cnd!Waiting \in SUBSET Caller
        BY DEF Cnd!Waiting
      <4> QED
        BY <3>4, <4>1, CallersFinite
    <3>6. credit' \in Nat /\ credit' <= Cardinality(Cnd!Waiting') /\ credit' <= credit
      BY <1>0, <2>0, <3>1, <3>5 DEF CreditInv
    <3>7. CndTypes'
      BY <1>0, <2>1, <3>1, <3>6 DEF CndTypes, Places
    <3>8. OwedInv'
      BY <1>0, <2>1, <3>1, <3>4 DEF OwedInv
    <3>9. CreditInv'
      BY <1>0, <2>1, <3>1, <3>4, <3>6 DEF CreditInv
    <3> QED
      BY <1>0, <2>1, <3>4, <3>7, <3>8, <3>9 DEF CndInv, CountedInv
  <2>3. CASE /\ Cnd!Blocked = {} /\ at' = [at EXCEPT ![t] = "in"]
             /\ one' = TRUE /\ merged' = (merged \/ one) /\ credit' = more /\ UNCHANGED owed
    <3>1. /\ Cnd!Counted' = Cnd!Counted /\ Cnd!Waiting' = Cnd!Waiting
          /\ Cnd!Blocked' = {} /\ Going' = Going /\ (Cnd!Resetting' => Cnd!Resetting)
      BY <1>0, <2>1, <2>3 DEF Cnd!Counted, Cnd!Waiting, Cnd!Blocked, Going, Cnd!Resetting
    <3>2. CndTypes'
      BY <1>0, <2>1, <2>3 DEF CndTypes, Places
    <3>3. OwedInv'
      BY <1>0, <2>1, <2>3, <3>1 DEF OwedInv
    <3>4. CreditInv'
      BY <1>0, <2>0, <2>3, <3>1 DEF CreditInv
    <3> QED
      BY <1>0, <2>1, <3>1, <3>2, <3>3, <3>4 DEF CndInv, CountedInv
  <2> QED
    BY <2>1, <2>2, <2>3
<1>8. ASSUME NEW t \in Caller, Cnd!SetAll(t) PROVE CndInv'
  <2> DEFINE left == Cnd!Waiting \ Cnd!Blocked
  <2>1. /\ at[t] = "broadcast"
        /\ at' = [u \in Caller |-> IF u = t THEN "in" ELSE IF u \in Cnd!Blocked THEN "all" ELSE at[u]]
        /\ all' = TRUE
        /\ owed' = (IF Cnd!Resetting THEN owed ELSE left)
        /\ credit' = (IF credit > Cardinality(left) THEN Cardinality(left) ELSE credit)
        /\ UNCHANGED <<mWaitersCount, one, merged, timeouts>>
    BY <1>8, Counting DEF Cnd!SetAll
  <2>2. /\ Cnd!Counted' = Cnd!Counted /\ Cnd!Waiting' = left /\ Cnd!Blocked' = {}
        /\ left = Going /\ Going' = Going /\ (Cnd!Resetting' => Cnd!Resetting)
    BY <1>0, <2>1 DEF Cnd!Counted, Cnd!Waiting, Cnd!Blocked, Going, Cnd!Resetting
  <2>3. Cardinality(left) \in Nat
    <3>1. left \in SUBSET Caller
      BY DEF Cnd!Waiting
    <3> QED
      BY <3>1, CallersFinite
  <2>4. CndTypes'
    BY <1>0, <2>1, <2>3 DEF CndTypes, Places
  <2>5. OwedInv'
    BY <1>0, <2>1, <2>2 DEF OwedInv
  <2> HIDE DEF left
  <2>6. CreditInv'
    BY <1>0, <2>1, <2>2, <2>3 DEF CreditInv
  <2> QED
    BY <1>0, <2>1, <2>2, <2>4, <2>5, <2>6 DEF CndInv, CountedInv
<1> QED
  BY <1>1, <1>2, <1>3, <1>4, <1>5, <1>6, <1>7, <1>8 DEF Cnd!Next, Cnd!Step
-----------------------------------------------------------------------------
(* One of the objects moves at a time.                                     *)
LEMMA ObjectStep ==
  ASSUME [AnyNext]_allVars
  PROVE  [Mutex!Next]_mutexVars /\ [Once!Next]_onceVars /\ [Cnd!Next]_cndVars
<1>1. CASE UNCHANGED allVars
  BY <1>1 DEF allVars
<1>2. CASE InQueue
  BY <1>2 DEF InQueue
<1>3. CASE AnyNext /\ ~UNCHANGED allVars /\ ~InQueue
  <2>1. \/ InMutex /\ Mutex!Next /\ UNCHANGED <<onceVars, cndVars>>
        \/ InOnce /\ Once!Next /\ UNCHANGED <<mutexVars, cndVars>>
        \/ InCnd /\ Cnd!Next /\ UNCHANGED <<mutexVars, onceVars>>
    BY <1>3 DEF AnyNext, InMutex, InOnce, InCnd, Mutex!Next, Once!Next, Cnd!Next
  <2> QED
    BY <2>1
<1> QED
  BY <1>1, <1>2, <1>3 DEF AnyNext

(* call_once runs the callback for one caller only, and no call returns    *)
(* before it is over or enters a critical section that is not there yet.   *)
THEOREM CallbackRunsOnce == AnySpec => []OnceOnly
<1>1. AnyInit => OnceInv
  BY OnceStarts DEF AnyInit
<1>2. OnceInv /\ [AnyNext]_allVars => OnceInv'
  BY ObjectStep, OnceStep
<1>3. OnceInv => OnceOnly
  BY DEF OnceInv, OnceType, PlaceInv, RanInv, OneWinner, OnceOnly, Once!OnceOnly
<1> QED
  BY <1>1, <1>2, <1>3, PTL DEF AnySpec

(* The mutex is taken as often as the calls that succeeded say until a     *)
(* timed one is tried again by its owner; a broadcast keeps its event set  *)
(* for everyone who waited; every waiter is counted; and a signal releases *)
(* a waiter or merges with another, for any number of threads.             *)
THEOREM LocksAndWaitsKept == AnySpec => []LocksAndWaits
<1>1. AnyInit => MutexInv /\ CndInv
  BY MutexStarts, CndStarts DEF AnyInit
<1>2. MutexInv /\ CndInv /\ [AnyNext]_allVars => MutexInv' /\ CndInv'
  BY ObjectStep, MutexStep, CndStep
<1>3. MutexInv /\ CndInv => LocksAndWaits
  BY MutexCounts, CndPromises DEF LocksAndWaits
<1> QED
  BY <1>1, <1>2, <1>3, PTL DEF AnySpec
=============================================================================
