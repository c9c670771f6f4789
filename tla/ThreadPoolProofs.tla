-------------------------- MODULE ThreadPoolProofs --------------------------
(***************************************************************************)
(* Proofs about ThreadPool, for every number of workers, clients and       *)
(* tasks and every ring size.  The invariants are layered: the data layer  *)
(* (types, ring contents), then who owns the mutex, then the bookkeeping   *)
(* of threads, then the properties that rest on all of them.               *)
(***************************************************************************)
EXTENDS ThreadPool, FiniteSetTheorems, SequenceTheorems, TLAPS

\* Each kind of thread keeps to its own part of the code.
PcInv ==
  /\ pc[Main] \in {"start", "create", "idle", "destroy", "closing", "join", "free", "gone", "nopool"}
  /\ \A w \in Workers : pc[w] \in {"absent", "lock", "test", "wait", "run", "add", "adding", "exited"}
  /\ \A c \in Clients : pc[c] \in {"idle", "add", "adding"}

\* A thread inside a call has a task to hand over, and a busy worker has one to run.
TaskInv ==
  /\ \A c \in Clients : pc[c] \in {"add", "adding"} => task[c] \in Tasks
  /\ \A w \in Workers : pc[w] \in {"add", "adding"} => extra[w] \in Tasks
  /\ \A w \in Workers : pc[w] \in {"run", "add", "adding"} => task[w] \in Tasks

\* FifoRing slot by slot.
RingInv ==
  /\ Len(accepted) = Len(taken) + count
  /\ \A i \in 1..Len(taken) : taken[i] = accepted[i]
  /\ \A i \in 0..count-1 : queue[(head + i) % QueueSize] = accepted[Len(taken) + 1 + i]
  /\ tail = (head + count) % QueueSize

DataInv == TypeOK /\ PcInv /\ TaskInv /\ RingInv
-----------------------------------------------------------------------------
\* Arithmetic of ring slots.
LEMMA ModRange ==
  ASSUME NEW Q \in Nat \ {0}, NEW a \in Nat
  PROVE  a % Q \in 0..Q-1
  BY SMT

LEMMA ModSmall ==
  ASSUME NEW Q \in Nat \ {0}, NEW a \in 0..Q-1
  PROVE  a % Q = a
  BY SMT

LEMMA ModWrap ==
  ASSUME NEW Q \in Nat \ {0}, NEW a \in Q..2*Q-1
  PROVE  a % Q = a - Q
  BY SMT

\* Two slots less than a lap apart are different slots.
LEMMA ModApart ==
  ASSUME NEW Q \in Nat \ {0}, NEW h \in 0..Q-1, NEW c \in 0..Q-1, NEW i \in 0..c-1
  PROVE  (h + i) % Q # (h + c) % Q
<1>1. CASE h + c < Q
  BY <1>1, ModSmall, h + i \in 0..Q-1, h + c \in 0..Q-1
<1>2. CASE h + c >= Q /\ h + i < Q
  BY <1>2, ModSmall, ModWrap, h + i \in 0..Q-1, h + c \in Q..2*Q-1
<1>3. CASE h + i >= Q
  BY <1>3, ModWrap, h + i \in Q..2*Q-1, h + c \in Q..2*Q-1
<1> QED
  BY <1>1, <1>2, <1>3

\* Moving one slot on and then i slots on is moving i + 1 slots on.
LEMMA ModShift ==
  ASSUME NEW Q \in Nat \ {0}, NEW h \in 0..Q-1, NEW i \in 0..Q-1
  PROVE  /\ (((h + 1) % Q) + i) % Q = (h + (1 + i)) % Q
         /\ (((h + i) % Q) + 1) % Q = (h + (i + 1)) % Q
<1>1. CASE h + i + 1 < Q
  BY <1>1, ModSmall, h + 1 \in 0..Q-1, h + i \in 0..Q-1, h + 1 + i \in 0..Q-1
<1>2. CASE h + i + 1 >= Q /\ h + i + 1 <= 2*Q - 1
  <2>1. (h + (1 + i)) % Q = h + 1 + i - Q
    BY <1>2, ModWrap, h + (1 + i) \in Q..2*Q-1
  <2>2. (((h + 1) % Q) + i) % Q = h + 1 + i - Q
    <3>1. CASE h + 1 = Q
      BY SMTT(30), <3>1, <1>2, ModWrap, ModSmall, h + 1 \in Q..2*Q-1, i \in 0..Q-1
    <3>2. CASE h + 1 < Q
      BY <3>2, <1>2, ModWrap, ModSmall, h + 1 \in 0..Q-1, h + 1 + i \in Q..2*Q-1
    <3> QED
      BY <3>1, <3>2
  <2>3. (((h + i) % Q) + 1) % Q = h + 1 + i - Q
    <3>1. CASE h + i = Q - 1
      BY <3>1, <1>2, ModWrap, ModSmall, h + i \in 0..Q-1, h + i + 1 \in Q..2*Q-1
    <3>2. CASE h + i >= Q
      <4>1. (h + i) % Q = h + i - Q
        BY <3>2, ModWrap, h + i \in Q..2*Q-1
      <4>2. (h + i - Q + 1) % Q = h + i - Q + 1
        BY <3>2, ModSmall, h + i - Q + 1 \in 0..Q-1
      <4> QED
        BY <4>1, <4>2
    <3>3. h + i = Q - 1 \/ h + i >= Q
      BY <1>2
    <3> QED
      BY <3>1, <3>2, <3>3
  <2> QED
    BY <2>1, <2>2, <2>3
<1> QED
  BY <1>1, <1>2
-----------------------------------------------------------------------------
LEMMA DataInit == Init => DataInv
<1> SUFFICES ASSUME Init PROVE DataInv
  OBVIOUS
<1> USE PoolAssumption DEF Init
<1>1. TypeOK
  <2>1. 0 \in 0..QueueSize-1 /\ 0 \in 0..QueueSize /\ 0 \in 0..MaxSpurious
    OBVIOUS
  <2>2. queue \in [0..QueueSize-1 -> Tasks \cup {None}]
    OBVIOUS
  <2>3. accepted \in Seq(Tasks) /\ taken \in Seq(Tasks)
    OBVIOUS
  <2>4. pc \in [Threads -> States]
    BY DEF States
  <2>5. task \in [Threads -> Tasks \cup {None}] /\ extra \in [Workers -> Tasks \cup {None}]
    OBVIOUS
  <2> QED
    BY <2>1, <2>2, <2>3, <2>4, <2>5 DEF TypeOK, States, Running, Immediate, Graceful
<1>2. PcInv
  BY DEF PcInv, Threads
<1>3. TaskInv
  BY DEF TaskInv, Threads
<1>4. RingInv
  BY ModSmall DEF RingInv
<1> QED
  BY <1>1, <1>2, <1>3, <1>4 DEF DataInv

LEMMA DataCreate ==
  ASSUME DataInv, CreateStep \/ \E w \in Workers : CreateWorker(w)
  PROVE  DataInv'
<1> USE PoolAssumption DEF DataInv, TypeOK, States, PcInv, TaskInv, RingInv, Goto, Threads, history, pool, ring
<1>1. CASE CreateBegin
  BY <1>1 DEF CreateBegin
<1>2. CASE CreateErr
  BY <1>2 DEF CreateErr
<1>3. CASE CreateFail
  BY <1>3 DEF CreateFail
<1>4. CASE CreateReturn
  BY <1>4 DEF CreateReturn
<1>5. ASSUME NEW w \in Workers, CreateWorker(w) PROVE DataInv'
  BY <1>5 DEF CreateWorker
<1> QED
  BY <1>1, <1>2, <1>3, <1>4, <1>5 DEF CreateStep

\* Steps that leave the ring and its history alone and move one thread.
LEMMA DataQuiet ==
  ASSUME DataInv,
         \/ \E t \in Workers \cup Clients : AddLock(t)
         \/ \E w \in Workers : WorkerLock(w) \/ Wait(w) \/ Spurious(w) \/ Exit(w)
         \/ \E how \in {Immediate, Graceful} : DestroyCall(how)
         \/ DestroyLock \/ Join \/ Free
  PROVE  DataInv'
<1> USE PoolAssumption DEF DataInv, TypeOK, States, PcInv, TaskInv, RingInv, Goto, Acquire, Threads,
                           history, pool, ring
<1>1. ASSUME NEW t \in Workers \cup Clients, AddLock(t) PROVE DataInv'
  BY <1>1 DEF AddLock
<1>2. ASSUME NEW w \in Workers, WorkerLock(w) PROVE DataInv'
  BY <1>2 DEF WorkerLock
<1>3. ASSUME NEW w \in Workers, Wait(w) PROVE DataInv'
  BY <1>3 DEF Wait
<1>4. ASSUME NEW w \in Workers, Spurious(w) PROVE DataInv'
  BY <1>4 DEF Spurious
<1>5. ASSUME NEW w \in Workers, Exit(w) PROVE DataInv'
  BY <1>5 DEF Exit
<1>6. ASSUME NEW how \in {Immediate, Graceful}, DestroyCall(how) PROVE DataInv'
  BY <1>6 DEF DestroyCall
<1>7. CASE DestroyLock
  BY <1>7 DEF DestroyLock
<1>8. CASE Join
  BY <1>8 DEF Join
<1>9. CASE Free
  BY <1>9 DEF Free
<1> QED
  BY <1>1, <1>2, <1>3, <1>4, <1>5, <1>6, <1>7, <1>8, <1>9

LEMMA DataCalls ==
  ASSUME DataInv,
         \/ \E t \in Tasks : (\E c \in Clients : Execute(c, t)) \/ (\E w \in Workers : ExecuteNested(w, t))
         \/ \E w \in Workers : Run(w)
         \/ DestroyClose
  PROVE  DataInv'
<1> USE PoolAssumption DEF DataInv, TypeOK, States, PcInv, TaskInv, RingInv, Goto, Threads,
                           history, pool, ring
<1>1. ASSUME NEW t \in Tasks, NEW c \in Clients, Execute(c, t) PROVE DataInv'
  <2>1. RingInv'
    BY <1>1 DEF Execute
  <2>2. CASE handle = "pool" /\ pc' = [pc EXCEPT ![c] = "add"]
             /\ task' = [task EXCEPT ![c] = t] /\ refused' = refused
    <3>1. TypeOK'
      BY <1>1, <2>2 DEF Execute
    <3>2. PcInv' /\ TaskInv'
      BY <1>1, <2>2 DEF Execute
    <3> QED
      BY <3>1, <3>2, <2>1
  <2>3. CASE refused' = refused \cup {t} /\ pc' = pc /\ task' = task
    BY <1>1, <2>3 DEF Execute
  <2>4. \/ handle = "pool" /\ pc' = [pc EXCEPT ![c] = "add"]
           /\ task' = [task EXCEPT ![c] = t] /\ refused' = refused
        \/ refused' = refused \cup {t} /\ pc' = pc /\ task' = task
    BY <1>1 DEF Execute
  <2> QED
    BY <2>2, <2>3, <2>4
<1>2. ASSUME NEW t \in Tasks, NEW w \in Workers, ExecuteNested(w, t) PROVE DataInv'
  BY <1>2 DEF ExecuteNested
<1>3. ASSUME NEW w \in Workers, Run(w) PROVE DataInv'
  BY <1>3 DEF Run
<1>4. CASE DestroyClose
  <2>1. pc' \in [Threads -> States]
    BY <1>4 DEF DestroyClose, Broadcast, Waiting
  <2>2. TypeOK'
    BY <1>4, <2>1 DEF DestroyClose
  <2>3. PcInv'
    BY <1>4 DEF DestroyClose, Broadcast, Waiting
  <2>4. TaskInv'
    <3>1. /\ task' = task /\ extra' = extra
          /\ \A t \in Clients \cup Workers :
                pc'[t] \in {"run", "add", "adding"} => pc'[t] = pc[t]
      BY SMTT(30), <1>4 DEF DestroyClose, Broadcast, Waiting
    <3>2. TaskInv
      OBVIOUS
    <3> QED
      BY <3>1, <3>2
  <2>5. RingInv'
    BY <1>4 DEF DestroyClose
  <2> QED
    BY <2>2, <2>3, <2>4, <2>5
<1> QED
  BY <1>1, <1>2, <1>3, <1>4

\* A worker grabs the task in slot head: one task fewer, one slot on.
LEMMA DataTake ==
  ASSUME DataInv, NEW w \in Workers, Take(w)
  PROVE  DataInv'
<1>1. /\ QueueSize \in Nat \ {0} /\ head \in 0..QueueSize-1 /\ count \in 0..QueueSize
      /\ accepted \in Seq(Tasks) /\ taken \in Seq(Tasks)
  BY PoolAssumption DEF DataInv, TypeOK, States
<1>2. RingInv
  BY DEF DataInv
<1>3. /\ taken' = Append(taken, queue[head]) /\ head' = (head + 1) % QueueSize
      /\ count' = count - 1 /\ queue' = queue /\ tail' = tail /\ accepted' = accepted
  BY DEF Take, NextSlot
<1>4. count \in 1..QueueSize
  BY <1>1 DEF Take, MustExit, DataInv, TypeOK, States, Running, Immediate, Graceful
<1>5. queue[head] \in Tasks /\ queue[head] = accepted[Len(taken) + 1]
  <2>1. (head + 0) % QueueSize = head
    BY <1>1, ModSmall
  <2>2. queue[(head + 0) % QueueSize] = accepted[Len(taken) + 1 + 0]
    BY <1>2, <1>4 DEF RingInv
  <2>3. Len(taken) + 1 \in 1..Len(accepted)
    BY <1>1, <1>2, <1>4 DEF RingInv
  <2> QED
    BY <2>1, <2>2, <2>3, <1>1
<1>6. /\ taken' \in Seq(Tasks) /\ Len(taken') = Len(taken) + 1
      /\ \A i \in 1..Len(taken) : taken'[i] = taken[i]
      /\ taken'[Len(taken) + 1] = queue[head]
  BY <1>1, <1>3, <1>5
<1>7. head' \in 0..QueueSize-1
  BY <1>1, <1>3, ModRange
<1>8. PcInv' /\ TaskInv'
  BY <1>5, PoolAssumption DEF Take, Goto, DataInv, TypeOK, States, PcInv, TaskInv, Threads
<1>9. TypeOK'
  <2>1. pc' \in [Threads -> States]
    BY DEF Take, Goto, DataInv, TypeOK, States
  <2>2. task' \in [Threads -> Tasks \cup {None}]
    BY <1>5 DEF Take, DataInv, TypeOK, States
  <2>3. lock' \in Threads \cup {None} /\ count' \in 0..QueueSize
    BY <1>1, <1>3, <1>4 DEF Take
  <2> QED
    BY <2>1, <2>2, <2>3, <1>3, <1>6, <1>7 DEF Take, DataInv, TypeOK, States
<1>10. RingInv'
  <2>1. Len(accepted') = Len(taken') + count'
    <3>1. Len(accepted) = Len(taken) + count /\ Len(taken) \in Nat /\ Len(accepted') = Len(accepted)
      BY <1>1, <1>2, <1>3 DEF RingInv
    <3> QED
      BY <3>1, <1>1, <1>3, <1>6
  <2>2. \A i \in 1..Len(taken') : taken'[i] = accepted'[i]
    BY <1>1, <1>2, <1>3, <1>5, <1>6 DEF RingInv
  <2>3. ASSUME NEW i \in 0..count'-1
        PROVE  queue'[(head' + i) % QueueSize] = accepted'[Len(taken') + 1 + i]
    <3>1. i \in 0..QueueSize-1 /\ 1 + i \in 0..count-1
      BY <1>1, <1>3, <1>4
    <3>2. (head' + i) % QueueSize = (head + (1 + i)) % QueueSize
      BY <1>1, <1>3, <3>1, ModShift
    <3>3. queue[(head + (1 + i)) % QueueSize] = accepted[Len(taken) + 1 + (1 + i)]
      BY <1>2, <3>1 DEF RingInv
    <3>4. Len(taken) + 1 + (1 + i) = Len(taken') + 1 + i
      BY <1>1, <1>6, <3>1
    <3> QED
      BY <3>2, <3>3, <3>4, <1>3
  <2>4. tail' = (head' + count') % QueueSize
    <3>1. count - 1 \in 0..QueueSize-1 /\ 1 + (count - 1) = count
      BY <1>4, <1>1
    <3>2. (head' + (count - 1)) % QueueSize = (head + (1 + (count - 1))) % QueueSize
      BY <1>1, <1>3, <3>1, ModShift
    <3> QED
      BY <3>1, <3>2, <1>2, <1>3 DEF RingInv
  <2> QED
    BY <2>1, <2>2, <2>3, <2>4 DEF RingInv
<1> QED
  BY <1>8, <1>9, <1>10 DEF DataInv

\* threadpool_add by a client or by a worker: an error changes nothing in the
\* ring, a success puts the task into slot tail.
LEMMA DataAdd ==
  ASSUME DataInv, NEW t \in Workers \cup Clients, Add(t)
  PROVE  DataInv'
<1> DEFINE arg == IF t \in Workers THEN extra[t] ELSE task[t]
<1>1. /\ QueueSize \in Nat \ {0} /\ head \in 0..QueueSize-1 /\ count \in 0..QueueSize
      /\ tail \in 0..QueueSize-1 /\ queue \in [0..QueueSize-1 -> Tasks \cup {None}]
      /\ accepted \in Seq(Tasks) /\ taken \in Seq(Tasks)
  BY PoolAssumption DEF DataInv, TypeOK, States
<1>2. RingInv
  BY DEF DataInv
<1>3. arg \in Tasks
  BY DEF Add, DataInv, TaskInv
<1>4. /\ pc' \in [Threads -> States]
      /\ PcInv'
      /\ \A u \in Workers \cup Clients : pc'[u] \in {"add", "adding"} => u # t /\ pc'[u] = pc[u]
      /\ \A u \in Workers : pc'[u] \in {"run", "add", "adding"} => pc[u] \in {"run", "add", "adding"}
  <2> DEFINE back == [pc EXCEPT ![t] = IF t \in Workers THEN "run" ELSE "idle"]
  <2>1. pc' = back \/ \E w \in Workers : pc[w] = "wait" /\ pc' = [back EXCEPT ![w] = "lock"]
    BY DEF Add, Signal, Waiting
  <2>2. pc[t] = "adding" /\ t \in Threads /\ Main # t
    BY PoolAssumption DEF Add, Threads
  <2>3. CASE pc' = back
    BY <2>2, <2>3, PoolAssumption DEF DataInv, TypeOK, States, PcInv, Threads
  <2>4. ASSUME NEW w \in Workers, pc[w] = "wait", pc' = [back EXCEPT ![w] = "lock"]
        PROVE  <1>4!1 /\ <1>4!2 /\ <1>4!3 /\ <1>4!4
    BY <2>2, <2>4, PoolAssumption DEF DataInv, TypeOK, States, PcInv, Threads
  <2> QED
    BY <2>1, <2>3, <2>4
<1>5. TaskInv'
  BY <1>4, PoolAssumption DEF Add, DataInv, TypeOK, States, TaskInv, Threads
<1>6. CASE AddError
  <2>1. UNCHANGED <<ring, accepted, taken>> /\ refused' = refused \cup {arg}
    BY <1>6 DEF Add
  <2>2. RingInv'
    BY <2>1, <1>2 DEF RingInv, ring
  <2>3. TypeOK'
    BY <2>1, <1>3, <1>4 DEF Add, DataInv, TypeOK, States, ring, Threads
  <2> QED
    BY <2>2, <2>3, <1>4, <1>5 DEF DataInv
<1>7. CASE ~AddError
  <2>1. /\ queue' = [queue EXCEPT ![tail] = arg] /\ tail' = (tail + 1) % QueueSize
        /\ count' = count + 1 /\ accepted' = Append(accepted, arg)
        /\ head' = head /\ refused' = refused /\ taken' = taken
    BY <1>7 DEF Add, NextSlot
  <2>2. count \in 0..QueueSize-1
    BY <1>1, <1>7 DEF AddError, Full
  <2>3. /\ accepted' \in Seq(Tasks) /\ Len(accepted') = Len(accepted) + 1
        /\ \A i \in 1..Len(accepted) : accepted'[i] = accepted[i]
        /\ accepted'[Len(accepted) + 1] = arg
    BY <1>1, <1>3, <2>1
  <2>4. tail' \in 0..QueueSize-1
    BY <1>1, <2>1, ModRange, tail + 1 \in Nat
  <2>5. TypeOK'
    <3>1. queue' \in [0..QueueSize-1 -> Tasks \cup {None}] /\ count' \in 0..QueueSize
      BY SMTT(30), <1>1, <1>3, <2>1, <2>2
    <3> QED
      BY <3>1, <2>1, <2>3, <2>4, <1>3, <1>4 DEF Add, DataInv, TypeOK, States, Threads
  <2>6. RingInv'
    <3>1. Len(accepted') = Len(taken') + count' /\ Len(taken) \in Nat
      BY <1>1, <1>2, <2>1, <2>3 DEF RingInv
    <3>2. \A i \in 1..Len(taken') : taken'[i] = accepted'[i]
      BY <1>1, <1>2, <2>1, <2>3 DEF RingInv
    <3>3. ASSUME NEW i \in 0..count'-1
          PROVE  queue'[(head' + i) % QueueSize] = accepted'[Len(taken') + 1 + i]
      <4>1. CASE i = count
        <5>1. (head' + i) % QueueSize = tail /\ Len(taken') + 1 + i = Len(accepted) + 1
          BY <4>1, <1>1, <1>2, <2>1, <3>1, <2>3 DEF RingInv
        <5> QED
          BY <5>1, <1>1, <2>1, <2>3
      <4>2. CASE i \in 0..count-1
        <5>1. (head + i) % QueueSize # tail
          BY <4>2, <1>1, <1>2, <2>2, ModApart DEF RingInv
        <5>2. (head + i) % QueueSize \in 0..QueueSize-1
          BY <1>1, <4>2, ModRange, head + i \in Nat
        <5>3. Len(taken) + 1 + i \in 1..Len(accepted)
          BY <4>2, <1>1, <1>2 DEF RingInv
        <5>4. queue[(head + i) % QueueSize] = accepted[Len(taken) + 1 + i]
          BY <4>2, <1>2 DEF RingInv
        <5> QED
          BY <5>1, <5>2, <5>3, <5>4, <1>1, <2>1, <2>3
      <4>3. i = count \/ i \in 0..count-1
        BY <2>1, <2>2, <1>1
      <4> QED
        BY <4>1, <4>2, <4>3
    <3>4. tail' = (head' + count') % QueueSize
      <4>1. (((head + count) % QueueSize) + 1) % QueueSize = (head + (count + 1)) % QueueSize
        BY <1>1, <2>2, ModShift
      <4> QED
        BY <4>1, <1>2, <2>1 DEF RingInv
    <3> QED
      BY <3>1, <3>2, <3>3, <3>4 DEF RingInv
  <2> QED
    BY <2>5, <2>6, <1>4, <1>5 DEF DataInv
<1> QED
  BY <1>6, <1>7

LEMMA DataNext == DataInv /\ [Next]_vars => DataInv'
<1> SUFFICES ASSUME DataInv, [Next]_vars PROVE DataInv'
  OBVIOUS
<1>1. CASE UNCHANGED vars
  <2>1. TypeOK' <=> TypeOK
    BY <1>1 DEF vars, history, pool, ring, TypeOK, States
  <2>2. (PcInv' <=> PcInv) /\ (TaskInv' <=> TaskInv)
    BY <1>1 DEF vars, history, pool, ring, PcInv, TaskInv
  <2>3. RingInv' <=> RingInv
    BY <1>1 DEF vars, history, pool, ring, RingInv
  <2> QED
    BY <2>1, <2>2, <2>3 DEF DataInv
<1>2. CASE Next
  <2>1. CASE CreateStep \/ \E w \in Workers : CreateWorker(w)
    BY <2>1, DataCreate
  <2>2. CASE \/ \E t \in Workers \cup Clients : AddLock(t)
             \/ \E w \in Workers : WorkerLock(w) \/ Wait(w) \/ Spurious(w) \/ Exit(w)
             \/ \E how \in {Immediate, Graceful} : DestroyCall(how)
             \/ DestroyLock \/ Join \/ Free
    BY <2>2, DataQuiet
  <2>3. CASE \/ \E t \in Tasks : (\E c \in Clients : Execute(c, t)) \/ (\E w \in Workers : ExecuteNested(w, t))
             \/ \E w \in Workers : Run(w)
             \/ DestroyClose
    BY <2>3, DataCalls
  <2>4. ASSUME NEW w \in Workers, Take(w) PROVE DataInv'
    BY <2>4, DataTake
  <2>5. ASSUME NEW t \in Workers \cup Clients, Add(t) PROVE DataInv'
    BY <2>5, DataAdd
  <2>6. CASE Terminated
    BY <2>6, <1>1 DEF Terminated
  <2> QED
    BY <1>2, <2>1, <2>2, <2>3, <2>4, <2>5, <2>6 DEF Next, WorkerStep, AddStep, DestroyStep
<1> QED
  BY <1>1, <1>2

THEOREM DataInvariant == Spec => []DataInv
BY DataInit, DataNext, PTL DEF Spec

(* Type correctness, for every size of the pool.                           *)
THEOREM TypeCorrect == Spec => []TypeOK
<1>1. DataInv => TypeOK
  BY DEF DataInv
<1> QED
  BY <1>1, DataInvariant, PTL

(* The ring is a queue: head, tail and count always frame exactly the      *)
(* accepted tasks nobody has grabbed, in order (threadpool_add and the     *)
(* worker's dequeue in threadpool_thread).                                 *)
THEOREM RingIsFifo == Spec => []FifoRing
<1>1. DataInv => FifoRing
  <2> SUFFICES ASSUME DataInv PROVE FifoRing
    OBVIOUS
  <2> DEFINE rest == [i \in 1..count |-> queue[(head + i - 1) % QueueSize]]
  <2>1. /\ count \in Nat /\ head \in Nat /\ QueueSize \in Nat \ {0}
        /\ accepted \in Seq(Tasks) /\ taken \in Seq(Tasks)
        /\ Len(accepted) = Len(taken) + count
    BY PoolAssumption DEF DataInv, TypeOK, States, RingInv
  <2>2. \A i \in 1..count : rest[i] = accepted[Len(taken) + i]
    <3>1. SUFFICES ASSUME NEW i \in 1..count PROVE rest[i] = accepted[Len(taken) + i]
      OBVIOUS
    <3>2. i - 1 \in 0..count-1 /\ head + (i - 1) = head + i - 1
          /\ Len(taken) + 1 + (i - 1) = Len(taken) + i
      BY <2>1
    <3> QED
      BY <3>2 DEF DataInv, RingInv
  <2>3. \A i \in 1..count : rest[i] \in Tasks
    <3>1. \A i \in 1..count : Len(taken) + i \in 1..Len(accepted)
      BY <2>1
    <3>2. \A i \in 1..count : accepted[Len(taken) + i] \in Tasks
      BY <3>1, <2>1, ElementOfSeq
    <3> HIDE DEF rest
    <3> QED
      BY <2>2, <3>2
  <2>4. rest \in Seq(Tasks) /\ Len(rest) = count
    BY <2>1, <2>3
  <2>5. /\ taken \o rest \in Seq(Tasks)
        /\ Len(taken \o rest) = Len(accepted)
        /\ \A i \in 1..Len(accepted) :
             (taken \o rest)[i] = IF i <= Len(taken) THEN taken[i] ELSE rest[i - Len(taken)]
    BY <2>1, <2>4, ConcatProperties
  <2>6. \A i \in 1..Len(accepted) : (taken \o rest)[i] = accepted[i]
    <3>1. SUFFICES ASSUME NEW i \in 1..Len(accepted) PROVE (taken \o rest)[i] = accepted[i]
      OBVIOUS
    <3>2. CASE i <= Len(taken)
      BY <3>2, <2>1, <2>5 DEF DataInv, RingInv
    <3>3. CASE i > Len(taken)
      <4>1. i - Len(taken) \in 1..count /\ Len(taken) + (i - Len(taken)) = i
        BY <3>3, <2>1
      <4>2. (taken \o rest)[i] = rest[i - Len(taken)]
        BY <3>3, <2>1, <2>5
      <4> HIDE DEF rest
      <4> QED
        BY <4>1, <4>2, <2>2
    <3> QED
      BY <3>2, <3>3, <2>1
  <2>7. accepted = taken \o rest
    BY <2>1, <2>5, <2>6, SeqEqual
  <2> QED
    BY <2>7 DEF FifoRing
<1> QED
  BY <1>1, DataInvariant, PTL
-----------------------------------------------------------------------------
\* The mutex has the owner the program counters show.
OwnerInv ==
  /\ \A t \in Threads : pc[t] \in {"test", "adding", "closing"} => lock = t
  /\ LockReleased

\* How far Main has come, and what that says of the pool.
PhaseInv ==
  /\ pc[Main] \in {"start", "create", "idle", "destroy", "closing"} => shutdown = Running
  /\ pc[Main] \in {"join", "free", "gone"} => shutdown # Running
  /\ handle = "pool" => pc[Main] \in {"idle", "destroy", "closing", "join", "free"}
  /\ shutdown # Running => Waiting = {}

LEMMA PhaseNext ==
  ASSUME DataInv, OwnerInv, PhaseInv, [Next]_vars
  PROVE  OwnerInv' /\ PhaseInv'
<1>1. /\ pc \in [Threads -> States] /\ Main \in Threads /\ Workers \subseteq Threads
      /\ Clients \subseteq Threads /\ None \notin Threads /\ Main \notin Workers \cup Clients
      /\ Workers \cap Clients = {} /\ PcInv
  BY PoolAssumption DEF DataInv, TypeOK, States, Threads
<1> USE <1>1 DEF OwnerInv, PhaseInv, LockReleased, Waiting, Goto, Acquire, PcInv,
                 Running, Immediate, Graceful, history, pool, ring
<1>2. CASE UNCHANGED vars \/ Terminated
  BY <1>2 DEF vars, Terminated
<1>3. CASE CreateBegin \/ CreateErr \/ CreateFail \/ CreateReturn
  <2>1. CASE CreateBegin
    BY <2>1 DEF CreateBegin
  <2>2. CASE CreateErr
    BY <2>2 DEF CreateErr
  <2>3. CASE CreateFail
    BY <2>3 DEF CreateFail
  <2>4. CASE CreateReturn
    BY <2>4 DEF CreateReturn
  <2> QED
    BY <1>3, <2>1, <2>2, <2>3, <2>4
<1>4. ASSUME NEW w \in Workers, CreateWorker(w) PROVE OwnerInv' /\ PhaseInv'
  BY <1>4 DEF CreateWorker
<1>5. ASSUME NEW t \in Tasks, NEW c \in Clients, Execute(c, t) PROVE OwnerInv' /\ PhaseInv'
  <2>1. /\ pc[c] = "idle" /\ (pc' = pc \/ pc' = [pc EXCEPT ![c] = "add"])
        /\ UNCHANGED <<lock, handle, shutdown>>
    BY <1>5 DEF Execute
  <2>2. CASE pc' = pc
    BY <2>1, <2>2
  <2>3. CASE pc' = [pc EXCEPT ![c] = "add"]
    BY <2>1, <2>3
  <2> QED
    BY <2>1, <2>2, <2>3
<1>6. ASSUME NEW t \in Tasks, NEW w \in Workers, ExecuteNested(w, t) PROVE OwnerInv' /\ PhaseInv'
  BY <1>6 DEF ExecuteNested
<1>7. ASSUME NEW t \in Workers \cup Clients, AddLock(t) PROVE OwnerInv' /\ PhaseInv'
  BY <1>7 DEF AddLock
<1>8. ASSUME NEW t \in Workers \cup Clients, Add(t) PROVE OwnerInv' /\ PhaseInv'
  <2> DEFINE back == [pc EXCEPT ![t] = IF t \in Workers THEN "run" ELSE "idle"]
  <2>1. pc' = back \/ \E w \in Workers : pc[w] = "wait" /\ pc' = [back EXCEPT ![w] = "lock"]
    BY <1>8 DEF Add, Signal
  <2>2. pc[t] = "adding" /\ lock' = None /\ UNCHANGED <<shutdown, handle>>
    BY <1>8 DEF Add
  <2>3. CASE pc' = back
    BY <2>2, <2>3
  <2>4. ASSUME NEW w \in Workers, pc[w] = "wait", pc' = [back EXCEPT ![w] = "lock"]
        PROVE  OwnerInv' /\ PhaseInv'
    BY <2>2, <2>4
  <2> QED
    BY <2>1, <2>3, <2>4
<1>9. ASSUME NEW w \in Workers, WorkerStep(w) \/ Spurious(w) PROVE OwnerInv' /\ PhaseInv'
  <2>1. CASE WorkerLock(w)
    BY <2>1 DEF WorkerLock
  <2>2. CASE Wait(w)
    BY <2>2 DEF Wait
  <2>3. CASE Take(w)
    BY <2>3 DEF Take
  <2>4. CASE Run(w)
    BY <2>4 DEF Run
  <2>5. CASE Exit(w)
    BY <2>5 DEF Exit
  <2>6. CASE Spurious(w)
    BY <2>6 DEF Spurious
  <2> QED
    BY <1>9, <2>1, <2>2, <2>3, <2>4, <2>5, <2>6 DEF WorkerStep
<1>10. ASSUME NEW how \in {Immediate, Graceful}, DestroyCall(how) PROVE OwnerInv' /\ PhaseInv'
  BY <1>10 DEF DestroyCall
<1>11. CASE DestroyLock \/ Join \/ Free
  <2>1. CASE DestroyLock
    BY <2>1 DEF DestroyLock
  <2>2. CASE Join
    BY <2>2 DEF Join
  <2>3. CASE Free
    BY <2>3 DEF Free
  <2> QED
    BY <1>11, <2>1, <2>2, <2>3
<1>12. CASE DestroyClose
  <2>1. /\ pc[Main] = "closing" /\ lock' = None /\ shutdown' = mode /\ handle' = handle
        /\ pc' = Broadcast([pc EXCEPT ![Main] = "join"])
        /\ mode \in {Immediate, Graceful}
    BY <1>12 DEF DestroyClose, DataInv, TypeOK, States
  <2> QED
    BY <2>1 DEF Broadcast
<1> QED
  BY <1>2, <1>3, <1>4, <1>5, <1>6, <1>7, <1>8, <1>9, <1>10, <1>11, <1>12
  DEF Next, CreateStep, DestroyStep, AddStep

THEOREM PhaseInvariant == Spec => [](OwnerInv /\ PhaseInv)
<1>1. Init => OwnerInv /\ PhaseInv
  BY PoolAssumption DEF Init, OwnerInv, PhaseInv, LockReleased, Waiting, Threads, Running
<1>2. DataInv /\ OwnerInv /\ PhaseInv /\ [Next]_vars => OwnerInv' /\ PhaseInv'
  BY PhaseNext
<1> QED
  BY <1>1, <1>2, DataInvariant, PTL DEF Spec

(* The mutex is owned only inside a critical section: no path of add,      *)
(* destroy or the worker leaves pool->lock behind locked, and destroy      *)
(* never meets a pool that is already shutting down.                       *)
THEOREM MutexReleased == Spec => []LockReleased
<1>1. OwnerInv => LockReleased
  BY DEF OwnerInv
<1> QED
  BY <1>1, PhaseInvariant, PTL
-----------------------------------------------------------------------------
\* Seekers counted: adding and removing one worker.
LEMMA SeekingFinite ==
  /\ IsFiniteSet(Seeking) /\ Cardinality(Seeking) \in Nat
  /\ \A w : IsFiniteSet(Seeking \cup {w}) /\ IsFiniteSet(Seeking \ {w})
  /\ \A w : w \notin Seeking => Cardinality(Seeking \cup {w}) = Cardinality(Seeking) + 1
  /\ \A w : w \in Seeking => Cardinality(Seeking \ {w}) = Cardinality(Seeking) - 1
<1>1. IsFiniteSet(Seeking)
  BY PoolAssumption, FS_Subset DEF Seeking
<1> QED
  BY <1>1, FS_CardinalityType, FS_AddElement, FS_RemoveElement

LEMMA WorkNext ==
  ASSUME DataInv, PhaseInv, WorkConserving, [Next]_vars
  PROVE  WorkConserving'
<1>1. /\ pc \in [Threads -> States] /\ Main \in Threads /\ Workers \subseteq Threads
      /\ Clients \subseteq Threads /\ Main \notin Workers \cup Clients
      /\ Workers \cap Clients = {} /\ PcInv /\ count \in Nat
  BY PoolAssumption DEF DataInv, TypeOK, Threads
\* A step that changes neither the count nor who waits, and loses no seeker.
<1>2. ASSUME count' = count, Waiting' \subseteq Waiting, Seeking' = Seeking
      PROVE  WorkConserving'
  BY <1>2 DEF WorkConserving
<1>3. ASSUME count' = count, Waiting' \subseteq Waiting, NEW w, w \notin Seeking,
             Seeking' = Seeking \cup {w}
      PROVE  WorkConserving'
  <2>1. Cardinality(Seeking') = Cardinality(Seeking) + 1 /\ Cardinality(Seeking) \in Nat
    BY <1>3, SeekingFinite
  <2> QED
    BY <1>1, <1>3, <2>1 DEF WorkConserving
<1>4. ASSUME Waiting' = {} PROVE WorkConserving'
  BY <1>4 DEF WorkConserving
<1> USE <1>1 DEF Waiting, Seeking, Goto, Acquire, PcInv, history, pool, ring
<1>5. CASE UNCHANGED vars \/ Terminated
  BY <1>5, <1>2 DEF vars, Terminated
<1>6. CASE CreateBegin \/ CreateErr \/ CreateFail \/ CreateReturn
  <2>1. count' = count /\ \A w \in Workers : pc'[w] = pc[w]
    BY <1>6 DEF CreateBegin, CreateErr, CreateFail, CreateReturn
  <2> QED
    BY <1>2, <2>1
<1>7. ASSUME NEW w \in Workers, CreateWorker(w) PROVE WorkConserving'
  <2>1. count' = count /\ Waiting' = Waiting /\ w \notin Seeking /\ Seeking' = Seeking \cup {w}
    BY <1>7 DEF CreateWorker
  <2> QED
    BY <1>3, <2>1
<1>8. ASSUME NEW t \in Tasks, NEW c \in Clients, Execute(c, t) PROVE WorkConserving'
  <2>1. count' = count /\ \A w \in Workers : pc'[w] = pc[w]
    BY <1>8 DEF Execute
  <2> QED
    BY <1>2, <2>1
<1>9. ASSUME NEW t \in Tasks, NEW w \in Workers, ExecuteNested(w, t) PROVE WorkConserving'
  <2>1. count' = count /\ Waiting' = Waiting /\ Seeking' = Seeking
    BY <1>9 DEF ExecuteNested
  <2> QED
    BY <1>2, <2>1
<1>10. ASSUME NEW t \in Workers \cup Clients, AddLock(t) PROVE WorkConserving'
  <2>1. count' = count /\ Waiting' = Waiting /\ Seeking' = Seeking
    BY <1>10 DEF AddLock
  <2> QED
    BY <1>2, <2>1
<1>11. ASSUME NEW t \in Workers \cup Clients, Add(t) PROVE WorkConserving'
  <2> DEFINE back == [pc EXCEPT ![t] = IF t \in Workers THEN "run" ELSE "idle"]
  <2>1. pc[t] = "adding" /\ t \in Threads
    BY <1>11 DEF Add
  <2>2. CASE AddError
    <3>1. count' = count /\ pc' = back
      BY <1>11, <2>2 DEF Add
    <3>2. Waiting' = Waiting /\ Seeking' = Seeking
      BY <2>1, <3>1
    <3> QED
      BY <1>2, <3>1, <3>2
  <2>3. CASE ~AddError /\ Waiting = {}
    <3>1. pc' = back
      BY <1>11, <2>3 DEF Add, Signal
    <3>2. Waiting' = {}
      BY <2>1, <2>3, <3>1
    <3> QED
      BY <1>4, <3>2
  <2>4. CASE ~AddError /\ Waiting # {}
    <3>1. count' = count + 1
      BY <1>11, <2>4 DEF Add
    <3>2. PICK w \in Waiting : pc' = [back EXCEPT ![w] = "lock"]
      BY <1>11, <2>4 DEF Add, Signal
    <3>3. w \notin Seeking /\ Seeking' = Seeking \cup {w}
      BY <2>1, <3>2
    <3>4. Cardinality(Seeking') = Cardinality(Seeking) + 1 /\ Cardinality(Seeking) \in Nat
      BY <3>3, SeekingFinite
    <3>5. Cardinality(Seeking) >= count
      BY <2>4 DEF WorkConserving
    <3> QED
      BY <3>1, <3>4, <3>5 DEF WorkConserving
  <2> QED
    BY <2>2, <2>3, <2>4
<1>12. ASSUME NEW w \in Workers, WorkerStep(w) \/ Spurious(w) PROVE WorkConserving'
  <2>1. CASE WorkerLock(w)
    <3>1. count' = count /\ Waiting' = Waiting /\ Seeking' = Seeking
      BY <2>1 DEF WorkerLock
    <3> QED
      BY <1>2, <3>1
  <2>2. CASE Wait(w)
    <3>1. count' = 0 /\ \A u \in Workers : pc'[u] \in States
      BY <2>2 DEF Wait, States
    <3>2. IsFiniteSet(Seeking')
      BY PoolAssumption, FS_Subset
    <3>3. Cardinality(Seeking') \in Nat
      BY <3>2, FS_CardinalityType
    <3> QED
      BY <3>1, <3>3 DEF WorkConserving
  <2>3. CASE Take(w)
    <3>1. count' = count - 1 /\ Waiting' = Waiting /\ w \in Seeking /\ Seeking' = Seeking \ {w}
      BY <2>3 DEF Take
    <3>2. Cardinality(Seeking') = Cardinality(Seeking) - 1 /\ Cardinality(Seeking) \in Nat
      BY <3>1, SeekingFinite
    <3> QED
      BY <3>1, <3>2 DEF WorkConserving
  <2>4. CASE Run(w) \/ Spurious(w)
    <3>1. count' = count /\ Waiting' \subseteq Waiting /\ w \notin Seeking /\ Seeking' = Seeking \cup {w}
      BY <2>4 DEF Run, Spurious
    <3> QED
      BY <1>3, <3>1
  <2>5. CASE Exit(w)
    <3>1. shutdown # Running /\ Waiting' = Waiting
      BY <2>5 DEF Exit, MustExit, Running, Immediate, Graceful
    <3> QED
      BY <1>4, <3>1 DEF PhaseInv
  <2> QED
    BY <1>12, <2>1, <2>2, <2>3, <2>4, <2>5 DEF WorkerStep
<1>13. ASSUME NEW how \in {Immediate, Graceful}, DestroyCall(how) PROVE WorkConserving'
  <2>1. count' = count /\ \A w \in Workers : pc'[w] = pc[w]
    BY <1>13 DEF DestroyCall
  <2> QED
    BY <1>2, <2>1
<1>14. CASE DestroyLock \/ Join \/ Free
  <2>1. count' = count /\ \A w \in Workers : pc'[w] = pc[w]
    BY <1>14 DEF DestroyLock, Join, Free
  <2> QED
    BY <1>2, <2>1
<1>15. CASE DestroyClose
  <2>1. pc' = Broadcast([pc EXCEPT ![Main] = "join"])
    BY <1>15 DEF DestroyClose, PhaseInv
  <2>2. Waiting' = {}
    BY <2>1 DEF Broadcast
  <2> QED
    BY <1>4, <2>2
<1> QED
  BY <1>5, <1>6, <1>7, <1>8, <1>9, <1>10, <1>11, <1>12, <1>13, <1>14, <1>15
  DEF Next, CreateStep, DestroyStep, AddStep

(* No wake-up is lost, for any number of workers: while one sleeps, every  *)
(* queued task has a worker coming for it, so one cnd_signal per           *)
(* threadpool_add is enough.                                               *)
THEOREM NoLostWakeup == Spec => []WorkConserving
<1>1. Init => WorkConserving
  BY PoolAssumption DEF Init, WorkConserving, Waiting, Threads
<1>2. DataInv /\ PhaseInv /\ WorkConserving /\ [Next]_vars => WorkConserving'
  BY WorkNext
<1> QED
  BY <1>1, <1>2, DataInvariant, PhaseInvariant, PTL DEF Spec
-----------------------------------------------------------------------------
Created == {w \in Workers : pc[w] # "absent"}
Exited  == {w \in Workers : pc[w] = "exited"}

\* The counters of *pool count threads, and Main's phase bounds who is alive.
LifeInv ==
  /\ threadCount = Cardinality(Created)
  /\ started = Cardinality(Alive)
  /\ pc[Main] = "start" => Created = {}
  /\ pc[Main] = "idle" => Created = Workers
  /\ pc[Main] \in {"free", "gone", "nopool"} => Alive = {}
  /\ memory = "freed" => pc[Main] \in {"gone", "nopool"} /\ shutdown # Running
  /\ CallersFirst /\ pc[Main] # "idle" => \A c \in Clients : pc[c] = "idle"

LEMMA WorkerSetsFinite ==
  /\ IsFiniteSet(Workers) /\ IsFiniteSet(Created) /\ IsFiniteSet(Alive) /\ IsFiniteSet(Exited)
  /\ Cardinality(Alive) \in Nat /\ Cardinality(Created) \in Nat
BY PoolAssumption, FS_Subset, FS_CardinalityType DEF Created, Alive, Exited

\* Steps in which every worker stays where it is, or stays alive.
LEMMA SameLife ==
  ASSUME LifeInv, Alive' = Alive, Created' = Created, threadCount' = threadCount,
         started' = started
  PROVE  threadCount' = Cardinality(Created') /\ started' = Cardinality(Alive')
BY DEF LifeInv

LEMMA LifeNext ==
  ASSUME DataInv, PhaseInv, LifeInv, [Next]_vars
  PROVE  LifeInv'
<1>1. /\ pc \in [Threads -> States] /\ Main \in Threads /\ Workers \subseteq Threads
      /\ Clients \subseteq Threads /\ Main \notin Workers \cup Clients
      /\ Workers \cap Clients = {} /\ PcInv
  BY PoolAssumption DEF DataInv, TypeOK, Threads
<1> USE <1>1 DEF Goto, Acquire, PcInv, history, pool, ring
<1>2. CASE UNCHANGED vars \/ Terminated
  BY <1>2 DEF vars, Terminated, LifeInv, Created, Alive
<1>3. CASE CreateBegin \/ CreateErr
  <2>1. /\ \A w \in Workers : pc'[w] = pc[w]
        /\ \A c \in Clients : pc'[c] = pc[c]
        /\ pc[Main] = "start" /\ pc'[Main] \in {"create", "nopool"} /\ memory' # "freed"
        /\ UNCHANGED <<threadCount, started, shutdown>>
    BY <1>3 DEF CreateBegin, CreateErr, LifeInv
  <2>2. Alive' = Alive /\ Created' = Created /\ Alive \subseteq Created
    BY <2>1 DEF Alive, Created
  <2> QED
    BY <2>1, <2>2, SameLife DEF LifeInv
<1>4. CASE CreateFail \/ CreateReturn
  <2>1. /\ \A w \in Workers : pc'[w] = pc[w]
        /\ \A c \in Clients : pc'[c] = pc[c]
        /\ pc[Main] = "create" /\ pc'[Main] \in {"destroy", "idle"}
        /\ UNCHANGED <<threadCount, started, memory, shutdown>>
        /\ pc'[Main] = "idle" => threadCount = Cardinality(Workers)
    BY <1>4 DEF CreateFail, CreateReturn
  <2>2. Alive' = Alive /\ Created' = Created
    BY <2>1 DEF Alive, Created
  <2>3. pc'[Main] = "idle" => Created = Workers
    BY <2>1, WorkerSetsFinite, FS_Subset DEF LifeInv, Created
  <2> QED
    BY <2>1, <2>2, <2>3, SameLife DEF LifeInv
<1>5. ASSUME NEW w \in Workers, CreateWorker(w) PROVE LifeInv'
  <2>1. /\ pc[Main] = "create" /\ pc'[Main] = "create" /\ \A c \in Clients : pc'[c] = pc[c]
        /\ threadCount' = threadCount + 1 /\ started' = started + 1
        /\ UNCHANGED <<memory, shutdown>>
    BY <1>5 DEF CreateWorker
  <2>2. w \notin Created /\ Created' = Created \cup {w} /\ w \notin Alive /\ Alive' = Alive \cup {w}
    BY <1>5 DEF CreateWorker, Created, Alive
  <2>3. Cardinality(Created') = Cardinality(Created) + 1 /\ Cardinality(Alive') = Cardinality(Alive) + 1
    BY <2>2, WorkerSetsFinite, FS_AddElement
  <2> QED
    BY <2>1, <2>3 DEF LifeInv
<1>6. ASSUME NEW t \in Tasks, NEW c \in Clients, Execute(c, t) PROVE LifeInv'
  <2>1. /\ \A u \in Workers \cup {Main} : pc'[u] = pc[u]
        /\ UNCHANGED <<threadCount, started, memory, shutdown>>
        /\ pc[Main] = "idle" \/ \A d \in Clients : pc'[d] = pc[d]
    BY <1>6 DEF Execute, PhaseInv
  <2>2. Alive' = Alive /\ Created' = Created
    BY <2>1 DEF Alive, Created
  <2> QED
    BY <2>1, <2>2, SameLife DEF LifeInv
\* A step of a worker or client that is inside the pool and stays there.
<1>7. ASSUME NEW t \in Workers \cup Clients, \A u \in Threads \ {t} : pc'[u] = pc[u] \/ u \in Workers,
             Alive' = Alive, Created' = Created, \A c \in Clients : pc[c] = "idle" => pc'[c] = "idle",
             UNCHANGED <<threadCount, started, memory, shutdown>>, pc'[Main] = pc[Main]
      PROVE  LifeInv'
  BY <1>7, SameLife DEF LifeInv
<1>8. ASSUME NEW t \in Tasks, NEW w \in Workers, ExecuteNested(w, t) PROVE LifeInv'
  BY <1>8, <1>7 DEF ExecuteNested, Alive, Created
<1>9. ASSUME NEW t \in Workers \cup Clients, AddLock(t) PROVE LifeInv'
  BY <1>9, <1>7 DEF AddLock, Alive, Created
<1>10. ASSUME NEW t \in Workers \cup Clients, Add(t) PROVE LifeInv'
  <2> DEFINE back == [pc EXCEPT ![t] = IF t \in Workers THEN "run" ELSE "idle"]
  <2>1. pc' = back \/ \E w \in Workers : pc[w] = "wait" /\ pc' = [back EXCEPT ![w] = "lock"]
    BY <1>10 DEF Add, Signal, Waiting
  <2>2. pc[t] = "adding" /\ UNCHANGED <<threadCount, started, memory, shutdown>>
    BY <1>10 DEF Add
  <2> DEFINE Same ==
        /\ Alive' = Alive /\ Created' = Created /\ pc'[Main] = pc[Main]
        /\ \A c \in Clients : pc[c] = "idle" => pc'[c] = "idle"
        /\ \A u \in Threads \ {t} : pc'[u] = pc[u] \/ u \in Workers
  <2>3. Same
    <3>1. CASE pc' = back
      BY <2>2, <3>1 DEF Alive, Created
    <3>2. ASSUME NEW w \in Workers, pc[w] = "wait", pc' = [back EXCEPT ![w] = "lock"]
          PROVE  Same
      BY <2>2, <3>2 DEF Alive, Created
    <3> QED
      BY <2>1, <3>1, <3>2
  <2> QED
    BY <2>2, <2>3, <1>7
<1>11. ASSUME NEW w \in Workers, WorkerLock(w) \/ Wait(w) \/ Take(w) \/ Run(w) \/ Spurious(w)
       PROVE  LifeInv'
  <2>1. /\ pc[w] \in {"lock", "test", "run", "wait"} /\ pc'[w] \in {"lock", "test", "run", "wait"}
        /\ \A u \in Threads \ {w} : pc'[u] = pc[u]
        /\ UNCHANGED <<threadCount, started, memory, shutdown>>
    BY <1>11 DEF WorkerLock, Wait, Take, Run, Spurious
  <2>2. Alive' = Alive /\ Created' = Created
    BY <2>1 DEF Alive, Created
  <2> QED
    BY <2>1, <2>2, <1>7
<1>12. ASSUME NEW w \in Workers, Exit(w) PROVE LifeInv'
  <2>1. /\ \A u \in Threads \ {w} : pc'[u] = pc[u]
        /\ started' = started - 1 /\ UNCHANGED <<threadCount, memory, shutdown>>
    BY <1>12 DEF Exit
  <2>2. Created' = Created /\ w \in Alive /\ Alive' = Alive \ {w}
    BY <1>12 DEF Exit, Created, Alive
  <2>3. Cardinality(Alive') = Cardinality(Alive) - 1
    BY <2>2, WorkerSetsFinite, FS_RemoveElement
  <2> QED
    BY <2>1, <2>2, <2>3 DEF LifeInv
<1>13. ASSUME NEW how \in {Immediate, Graceful}, DestroyCall(how) PROVE LifeInv'
  <2>1. /\ \A u \in Threads \ {Main} : pc'[u] = pc[u]
        /\ pc[Main] = "idle" /\ pc'[Main] = "destroy"
        /\ UNCHANGED <<threadCount, started, memory, shutdown>>
        /\ CallersFirst => \A c \in Clients : pc[c] = "idle"
    BY <1>13 DEF DestroyCall
  <2>2. Alive' = Alive /\ Created' = Created
    BY <2>1 DEF Alive, Created
  <2> QED
    BY <2>1, <2>2, SameLife DEF LifeInv
<1>14. CASE DestroyLock
  <2>1. /\ \A u \in Threads \ {Main} : pc'[u] = pc[u]
        /\ pc[Main] = "destroy" /\ pc'[Main] = "closing"
        /\ UNCHANGED <<threadCount, started, memory, shutdown>>
    BY <1>14 DEF DestroyLock
  <2>2. Alive' = Alive /\ Created' = Created
    BY <2>1 DEF Alive, Created
  <2> QED
    BY <2>1, <2>2, SameLife DEF LifeInv
<1>15. CASE DestroyClose
  <2>1. /\ pc' = Broadcast([pc EXCEPT ![Main] = "join"]) /\ pc[Main] = "closing"
        /\ UNCHANGED <<threadCount, started, memory>>
    BY <1>15 DEF DestroyClose, PhaseInv
  <2>2. /\ Alive' = Alive /\ Created' = Created /\ pc'[Main] = "join"
        /\ \A c \in Clients : pc'[c] = pc[c]
    BY <2>1 DEF Alive, Created, Broadcast, Waiting
  <2> QED
    BY <2>1, <2>2, SameLife DEF LifeInv
<1>16. CASE Join
  <2>1. /\ \A u \in Threads \ {Main} : pc'[u] = pc[u]
        /\ pc[Main] = "join" /\ pc'[Main] = "free"
        /\ UNCHANGED <<threadCount, started, memory, shutdown>>
        /\ Cardinality(Exited) = threadCount
    BY <1>16 DEF Join, Exited
  <2>2. Alive' = Alive /\ Created' = Created /\ Exited \subseteq Created
    BY <2>1 DEF Alive, Created, Exited
  <2>3. Exited = Created
    BY <2>1, <2>2, WorkerSetsFinite, FS_Subset DEF LifeInv
  <2>4. Alive = {}
    BY <2>3 DEF Alive, Created, Exited
  <2> QED
    BY <2>1, <2>2, <2>4, SameLife DEF LifeInv
<1>17. CASE Free
  <2>1. /\ \A u \in Threads \ {Main} : pc'[u] = pc[u]
        /\ pc[Main] = "free" /\ pc'[Main] \in {"gone", "nopool"}
        /\ UNCHANGED <<threadCount, started, shutdown>>
    BY <1>17 DEF Free
  <2>2. Alive' = Alive /\ Created' = Created
    BY <2>1 DEF Alive, Created
  <2> QED
    BY <2>1, <2>2, SameLife DEF LifeInv, PhaseInv
<1> QED
  BY <1>2, <1>3, <1>4, <1>5, <1>6, <1>8, <1>9, <1>10, <1>11, <1>12, <1>13, <1>14, <1>15, <1>16, <1>17
  DEF Next, CreateStep, DestroyStep, AddStep, WorkerStep

THEOREM LifeInvariant == Spec => []LifeInv
<1>1. Init => LifeInv
  <2> SUFFICES ASSUME Init PROVE LifeInv
    OBVIOUS
  <2>1. \A w \in Workers : pc[w] = "absent"
    BY PoolAssumption DEF Init, Threads
  <2>2. Created = {} /\ Alive = {}
    BY <2>1 DEF Created, Alive
  <2>3. Cardinality({}) = 0
    BY FS_EmptySet
  <2>4. pc[Main] = "start" /\ \A c \in Clients : pc[c] = "idle"
    BY PoolAssumption DEF Init, Threads
  <2>5. threadCount = 0 /\ started = 0 /\ memory # "freed"
    BY DEF Init
  <2> QED
    BY <2>2, <2>3, <2>4, <2>5 DEF LifeInv
<1>2. DataInv /\ PhaseInv /\ LifeInv /\ [Next]_vars => LifeInv'
  BY LifeNext
<1> QED
  BY <1>1, <1>2, DataInvariant, PhaseInvariant, PTL DEF Spec

(* threadpool_free never frees a pool some thread may still touch, as long *)
(* as the program destroys the pool only when no caller is inside          *)
(* ThreadPoolExecute.                                                      *)
THEOREM FreedIsUnused == ASSUME CallersFirst PROVE Spec => []NoUseAfterFree
<1>1. LifeInv => NoUseAfterFree
  BY DEF LifeInv, NoUseAfterFree
<1> QED
  BY <1>1, LifeInvariant, PTL
-----------------------------------------------------------------------------
Busy(w) == pc[w] \in {"run", "add", "adding"}

\* Every task that was taken has finished or is in the hands of a busy worker.
HandsInv ==
  /\ finished \subseteq Elements(taken)
  /\ \A w \in Workers : Busy(w) => task[w] \in Elements(taken)
  /\ \A x \in Elements(taken) : x \in finished \/ \E w \in Workers : Busy(w) /\ task[w] = x

\* A graceful shutdown finds workers there, and they leave an empty ring behind.
LeaveInv ==
  /\ mode = Graceful \/ shutdown = Graceful => Created # {}
  /\ shutdown = Running => Exited = {}
  /\ shutdown = Graceful /\ Exited # {} => count = 0

LEMMA AppendElements ==
  ASSUME NEW S, NEW s \in Seq(S), NEW e \in S
  PROVE  Elements(Append(s, e)) = Elements(s) \cup {e}
<1>1. /\ DOMAIN Append(s, e) = 1..Len(s) + 1 /\ DOMAIN s = 1..Len(s) /\ Len(s) \in Nat
      /\ \A i \in 1..Len(s) : Append(s, e)[i] = s[i]
      /\ Append(s, e)[Len(s) + 1] = e
  BY AppendProperties, LenProperties
<1>2. 1..Len(s) + 1 = 1..Len(s) \cup {Len(s) + 1}
  BY <1>1
<1> QED
  BY <1>1, <1>2 DEF Elements

\* Steps that neither begin nor finish a task and let no worker leave.
LEMMA DrainQuiet ==
  ASSUME HandsInv, LeaveInv, UNCHANGED <<taken, finished, mode, shutdown>>,
         \A w \in Workers : /\ Busy(w)' = Busy(w) /\ task'[w] = task[w]
                            /\ pc[w] # "absent" => pc'[w] # "absent"
                            /\ pc'[w] = "exited" <=> pc[w] = "exited",
         count' = count \/ shutdown = Running
  PROVE  HandsInv' /\ LeaveInv'
<1>1. HandsInv'
  BY DEF HandsInv
<1>2. Exited' = Exited /\ Created \subseteq Created'
  BY DEF Exited, Created
<1> QED
  BY <1>1, <1>2 DEF LeaveInv, Running, Graceful

LEMMA DrainNext ==
  ASSUME DataInv, PhaseInv, LifeInv, HandsInv, LeaveInv, [Next]_vars
  PROVE  HandsInv' /\ LeaveInv'
<1>1. /\ pc \in [Threads -> States] /\ task \in [Threads -> Tasks \cup {None}]
      /\ Main \in Threads /\ Workers \subseteq Threads /\ Clients \subseteq Threads
      /\ Main \notin Workers \cup Clients /\ Workers \cap Clients = {} /\ PcInv
  BY PoolAssumption DEF DataInv, TypeOK, Threads
<1> USE <1>1 DEF Goto, Acquire, PcInv, Busy, history, pool, ring
<1>2. CASE UNCHANGED vars \/ Terminated
  <2>1. UNCHANGED <<pc, task, taken, finished, mode, shutdown, count>>
    BY <1>2 DEF vars, Terminated
  <2> QED
    BY <2>1, DrainQuiet
<1>3. CASE CreateBegin \/ CreateErr \/ CreateReturn
  BY <1>3, DrainQuiet DEF CreateBegin, CreateErr, CreateReturn
<1>4. CASE CreateFail
  <2>1. /\ UNCHANGED <<task, taken, finished, shutdown, count>> /\ mode' = Immediate
        /\ \A w \in Workers : pc'[w] = pc[w]
    BY <1>4 DEF CreateFail
  <2>2. Exited' = Exited /\ Created' = Created
    BY <2>1 DEF Exited, Created
  <2> QED
    BY <2>1, <2>2 DEF HandsInv, LeaveInv, Immediate, Graceful
<1>5. ASSUME NEW w \in Workers, CreateWorker(w) PROVE HandsInv' /\ LeaveInv'
  BY <1>5, DrainQuiet DEF CreateWorker
<1>6. ASSUME NEW t \in Tasks, NEW c \in Clients, Execute(c, t) PROVE HandsInv' /\ LeaveInv'
  <2>1. /\ UNCHANGED <<taken, finished, mode, shutdown, count>>
        /\ \A w \in Workers : pc'[w] = pc[w] /\ task'[w] = task[w]
    BY <1>6 DEF Execute
  <2> QED
    BY <2>1, DrainQuiet
<1>7. ASSUME NEW t \in Tasks, NEW w \in Workers, ExecuteNested(w, t) PROVE HandsInv' /\ LeaveInv'
  BY <1>7, DrainQuiet DEF ExecuteNested
<1>8. ASSUME NEW t \in Workers \cup Clients, AddLock(t) PROVE HandsInv' /\ LeaveInv'
  BY <1>8, DrainQuiet DEF AddLock
<1>9. ASSUME NEW t \in Workers \cup Clients, Add(t) PROVE HandsInv' /\ LeaveInv'
  <2> DEFINE back == [pc EXCEPT ![t] = IF t \in Workers THEN "run" ELSE "idle"]
  <2>1. pc[t] = "adding" /\ UNCHANGED <<taken, finished, mode, shutdown>>
    BY <1>9 DEF Add
  <2>2. pc' = back \/ \E w \in Workers : pc[w] = "wait" /\ pc' = [back EXCEPT ![w] = "lock"]
    BY <1>9 DEF Add, Signal, Waiting
  <2>3. count' = count \/ shutdown = Running
    BY <1>9 DEF Add, AddError
  <2>4. \A w \in Workers : task'[w] = task[w]
    BY <1>9 DEF Add
  <2>5. CASE pc' = back
    BY <2>1, <2>3, <2>4, <2>5, DrainQuiet
  <2>6. ASSUME NEW w \in Workers, pc[w] = "wait", pc' = [back EXCEPT ![w] = "lock"]
        PROVE  HandsInv' /\ LeaveInv'
    BY <2>1, <2>3, <2>4, <2>6, DrainQuiet
  <2> QED
    BY <2>2, <2>5, <2>6
<1>10. ASSUME NEW w \in Workers, WorkerLock(w) \/ Wait(w) \/ Spurious(w)
       PROVE  HandsInv' /\ LeaveInv'
  BY <1>10, DrainQuiet DEF WorkerLock, Wait, Spurious
<1>11. ASSUME NEW w \in Workers, Take(w) PROVE HandsInv' /\ LeaveInv'
  <2>1. /\ pc[w] = "test" /\ pc' = [pc EXCEPT ![w] = "run"]
        /\ task' = [task EXCEPT ![w] = queue[head]] /\ taken' = Append(taken, queue[head])
        /\ UNCHANGED <<finished, mode, shutdown>>
        /\ shutdown = Graceful => count # 0
    BY <1>11 DEF Take, MustExit
  <2>2. taken' \in Seq(Tasks) /\ taken \in Seq(Tasks) /\ count \in Nat
    BY DataNext DEF DataInv, TypeOK
  <2>3. queue[head] \in Tasks \cup {None}
    BY PoolAssumption DEF DataInv, TypeOK
  <2>4. Elements(taken') = Elements(taken) \cup {queue[head]}
    <3>1. taken \in Seq(Tasks \cup {None})
      BY <2>2
    <3> QED
      BY <2>1, <2>3, <3>1, AppendElements
  <2>5. HandsInv'
    BY <2>1, <2>4 DEF HandsInv
  <2>6. Exited' = Exited /\ Created' = Created
    BY <2>1 DEF Exited, Created
  <2> QED
    BY <2>1, <2>5, <2>6 DEF LeaveInv
<1>12. ASSUME NEW w \in Workers, Run(w) PROVE HandsInv' /\ LeaveInv'
  <2>1. /\ pc[w] = "run" /\ pc' = [pc EXCEPT ![w] = "lock"]
        /\ finished' = finished \cup {task[w]} /\ task' = [task EXCEPT ![w] = None]
        /\ UNCHANGED <<taken, mode, shutdown, count>>
    BY <1>12 DEF Run
  <2>2. HandsInv'
    BY <2>1 DEF HandsInv
  <2>3. Exited' = Exited /\ Created' = Created
    BY <2>1 DEF Exited, Created
  <2> QED
    BY <2>1, <2>2, <2>3 DEF LeaveInv
<1>13. ASSUME NEW w \in Workers, Exit(w) PROVE HandsInv' /\ LeaveInv'
  <2>1. /\ pc[w] = "test" /\ pc' = [pc EXCEPT ![w] = "exited"]
        /\ UNCHANGED <<task, taken, finished, mode, shutdown, count>>
        /\ shutdown = Immediate \/ (shutdown = Graceful /\ count = 0)
    BY <1>13 DEF Exit, MustExit
  <2>2. HandsInv'
    BY <2>1 DEF HandsInv
  <2>3. Created' = Created
    BY <2>1 DEF Created
  <2> QED
    BY <2>1, <2>2, <2>3 DEF LeaveInv, Running, Immediate, Graceful
<1>14. ASSUME NEW how \in {Immediate, Graceful}, DestroyCall(how) PROVE HandsInv' /\ LeaveInv'
  <2>1. /\ UNCHANGED <<task, taken, finished, shutdown, count>> /\ pc[Main] = "idle"
        /\ \A w \in Workers : pc'[w] = pc[w]
    BY <1>14 DEF DestroyCall
  <2>2. Exited' = Exited /\ Created' = Created /\ Created # {}
    BY <2>1, PoolAssumption DEF Exited, Created, LifeInv
  <2> QED
    BY <2>1, <2>2 DEF HandsInv, LeaveInv
<1>15. CASE DestroyLock \/ Join \/ Free
  BY <1>15, DrainQuiet DEF DestroyLock, Join, Free
<1>16. CASE DestroyClose
  <2>1. /\ pc' = Broadcast([pc EXCEPT ![Main] = "join"]) /\ shutdown = Running /\ shutdown' = mode
        /\ UNCHANGED <<task, taken, finished, mode, count>>
    BY <1>16 DEF DestroyClose, PhaseInv
  <2>2. /\ \A w \in Workers : Busy(w)' = Busy(w)
        /\ Exited' = Exited /\ Created' = Created
    BY <2>1 DEF Broadcast, Waiting, Exited, Created
  <2> QED
    BY <2>1, <2>2 DEF HandsInv, LeaveInv
<1> QED
  BY <1>2, <1>3, <1>4, <1>5, <1>6, <1>7, <1>8, <1>9, <1>10, <1>11, <1>12, <1>13, <1>14, <1>15, <1>16
  DEF Next, CreateStep, DestroyStep, AddStep, WorkerStep

THEOREM DrainInvariant == Spec => [](HandsInv /\ LeaveInv)
<1>1. Init => HandsInv /\ LeaveInv
  <2> SUFFICES ASSUME Init PROVE HandsInv /\ LeaveInv
    OBVIOUS
  <2>1. \A w \in Workers : pc[w] = "absent"
    BY PoolAssumption DEF Init, Threads
  <2>2. finished = {} /\ Elements(taken) = {} /\ Exited = {}
    BY <2>1 DEF Init, Elements, Exited
  <2> QED
    BY <2>1, <2>2 DEF HandsInv, LeaveInv, Busy, Init, Running, Immediate, Graceful
<1>2. DataInv /\ PhaseInv /\ LifeInv /\ HandsInv /\ LeaveInv /\ [Next]_vars => HandsInv' /\ LeaveInv'
  BY DrainNext
<1> QED
  BY <1>1, <1>2, DataInvariant, PhaseInvariant, LifeInvariant, PTL DEF Spec

\* What threadpool_free finds once every worker has been joined.
LEMMA AllDone ==
  ASSUME DataInv, HandsInv, LeaveInv, Alive = {}
  PROVE  /\ finished = Elements(taken)
         /\ shutdown = Graceful => Len(taken) = Len(accepted) /\ taken = accepted
<1>1. \A w \in Workers : pc[w] \in {"absent", "exited"}
  BY DEF Alive
<1>2. finished = Elements(taken)
  BY <1>1 DEF HandsInv, Busy
<1>3. ASSUME shutdown = Graceful PROVE Len(taken) = Len(accepted) /\ taken = accepted
  <2>1. Exited # {}
    BY <1>1, <1>3 DEF LeaveInv, Created, Exited
  <2>2. count = 0
    BY <1>3, <2>1 DEF LeaveInv
  <2>3. taken \in Seq(Tasks) /\ accepted \in Seq(Tasks)
    BY DEF DataInv, TypeOK
  <2>4. Len(accepted) = Len(taken) /\ \A i \in 1..Len(taken) : taken[i] = accepted[i]
    BY <2>2, <2>3, LenProperties DEF DataInv, RingInv
  <2> QED
    BY <2>3, <2>4, SeqEqual
<1> QED
  BY <1>2, <1>3

(* A pool destroyed gracefully is freed only after every task it accepted  *)
(* has run to its end: the promise threadpool.h makes of                   *)
(* threadpool_graceful, for every number of workers and tasks.             *)
THEOREM GracefulFinishesAll == Spec => []GracefulDrains
<1>1. DataInv /\ LifeInv /\ HandsInv /\ LeaveInv => GracefulDrains
  BY AllDone DEF LifeInv, GracefulDrains
<1> QED
  BY <1>1, DataInvariant, LifeInvariant, DrainInvariant, PTL
-----------------------------------------------------------------------------
Callers == Workers \cup Clients

\* The task a thread hands to threadpool_add.
Arg(t) == IF t \in Workers THEN extra[t] ELSE task[t]

\* A task on its way into the ring is not in it, and on its way only once.
OnceInv ==
  \A t \in Callers : Arg(t) # None =>
    /\ Arg(t) \notin Elements(accepted)
    /\ \A u \in Callers \ {t} : Arg(u) # Arg(t)

LEMMA OnceQuiet ==
  ASSUME OnceInv, accepted' = accepted, \A t \in Callers : Arg(t)' \in {None, Arg(t)}
  PROVE  OnceInv'
BY DEF OnceInv

LEMMA OnceNext ==
  ASSUME DataInv, OnceInv, [Next]_vars
  PROVE  OnceInv'
<1>1. /\ task \in [Threads -> Tasks \cup {None}] /\ extra \in [Workers -> Tasks \cup {None}]
      /\ Workers \subseteq Threads /\ Clients \subseteq Threads /\ Workers \cap Clients = {}
      /\ None \notin Tasks /\ accepted \in Seq(Tasks) /\ PcInv /\ TaskInv
  BY PoolAssumption DEF DataInv, TypeOK, Threads
<1> USE <1>1 DEF Callers, Arg, Goto, Acquire, history, pool, ring
<1>2. CASE UNCHANGED vars \/ Terminated
  BY <1>2, OnceQuiet DEF vars, Terminated
<1>3. CASE CreateBegin \/ CreateErr \/ CreateFail \/ CreateReturn
  BY <1>3, OnceQuiet DEF CreateBegin, CreateErr, CreateFail, CreateReturn
<1>4. ASSUME NEW w \in Workers, CreateWorker(w) PROVE OnceInv'
  BY <1>4, OnceQuiet DEF CreateWorker
<1>5. ASSUME NEW t \in Tasks, NEW c \in Clients, Execute(c, t) PROVE OnceInv'
  <2>1. \A u \in Callers : Arg(u) # t
    BY <1>5 DEF Execute, Submitted
  <2>2. t \notin Elements(accepted) /\ accepted' = accepted
    BY <1>5 DEF Execute, Submitted
  <2>3. CASE task' = task /\ extra' = extra
    BY <2>2, <2>3, OnceQuiet
  <2>4. CASE task' = [task EXCEPT ![c] = t] /\ extra' = extra
    <3>1. Arg(c)' = t /\ \A u \in Callers \ {c} : Arg(u)' = Arg(u)
      BY <2>4
    <3> HIDE DEF Arg
    <3> QED
      BY <2>1, <2>2, <3>1 DEF OnceInv
  <2> QED
    BY <1>5, <2>3, <2>4 DEF Execute
<1>6. ASSUME NEW t \in Tasks, NEW w \in Workers, ExecuteNested(w, t) PROVE OnceInv'
  <2>1. \A u \in Callers : Arg(u) # t
    BY <1>6 DEF ExecuteNested, Submitted
  <2>2. t \notin Elements(accepted) /\ accepted' = accepted
    BY <1>6 DEF ExecuteNested, Submitted
  <2>3. Arg(w)' = t /\ \A u \in Callers \ {w} : Arg(u)' = Arg(u)
    BY <1>6 DEF ExecuteNested
  <2> HIDE DEF Arg
  <2> QED
    BY <2>1, <2>2, <2>3 DEF OnceInv
<1>7. ASSUME NEW t \in Callers, AddLock(t) PROVE OnceInv'
  BY <1>7, OnceQuiet DEF AddLock
<1>8. ASSUME NEW t \in Callers, Add(t) PROVE OnceInv'
  <2>1. Arg(t)' = None /\ \A u \in Callers \ {t} : Arg(u)' = Arg(u)
    BY <1>8 DEF Add
  <2>2. Arg(t) \in Tasks
    BY <1>8 DEF Add, TaskInv
  <2>3. accepted' = accepted \/ accepted' = Append(accepted, Arg(t))
    BY <1>8 DEF Add
  <2> HIDE DEF Arg
  <2>4. CASE accepted' = accepted
    BY <2>1, <2>4, OnceQuiet
  <2>5. CASE accepted' = Append(accepted, Arg(t))
    <3>1. Elements(accepted') = Elements(accepted) \cup {Arg(t)}
      BY <2>2, <2>5, AppendElements
    <3> QED
      BY <2>1, <2>2, <3>1 DEF OnceInv
  <2> QED
    BY <2>3, <2>4, <2>5
<1>9. ASSUME NEW w \in Workers, WorkerStep(w) \/ Spurious(w) PROVE OnceInv'
  BY <1>9, OnceQuiet DEF WorkerStep, WorkerLock, Wait, Take, Run, Exit, Spurious
<1>10. ASSUME NEW how \in {Immediate, Graceful}, DestroyCall(how) PROVE OnceInv'
  BY <1>10, OnceQuiet DEF DestroyCall
<1>11. CASE DestroyLock \/ DestroyClose \/ Join \/ Free
  BY <1>11, OnceQuiet DEF DestroyLock, DestroyClose, Join, Free
<1> QED
  BY <1>2, <1>3, <1>4, <1>5, <1>6, <1>7, <1>8, <1>9, <1>10, <1>11
  DEF Next, CreateStep, DestroyStep, AddStep

THEOREM OnceInvariant == Spec => []OnceInv
<1>1. Init => OnceInv
  BY PoolAssumption DEF Init, OnceInv, Arg, Callers, Threads
<1>2. DataInv /\ OnceInv /\ [Next]_vars => OnceInv'
  BY OnceNext
<1> QED
  BY <1>1, <1>2, DataInvariant, PTL DEF Spec
-----------------------------------------------------------------------------
\* How far the pool is closed, and whether it is gone, as TaskPool sees it.
Closing == CASE shutdown = Running -> "no" [] shutdown = Immediate -> "now" [] OTHER -> "drain"
Abstract == <<accepted, taken, finished, Closing, memory = "freed">>

LEMMA StepIsPromised ==
  ASSUME DataInv, PhaseInv, LifeInv, HandsInv, LeaveInv, OnceInv, [Next]_vars
  PROVE  Promise!Next \/ Abstract' = Abstract
<1>1. /\ accepted \in Seq(Tasks) /\ taken \in Seq(Tasks) /\ count \in 0..QueueSize
      /\ QueueSize \in Nat \ {0} /\ Len(accepted) = Len(taken) + count
      /\ shutdown \in {Running, Immediate, Graceful} /\ mode \in {Immediate, Graceful}
      /\ Len(taken) \in Nat
  BY PoolAssumption, LenProperties DEF DataInv, TypeOK, RingInv
<1>2. \A s : Promise!Elements(s) = Elements(s)
  BY DEF Promise!Elements, Elements
<1>3. /\ shutdown = Running => Closing = "no"
      /\ shutdown = Immediate => Closing = "now"
      /\ shutdown = Graceful => Closing = "drain"
  BY DEF Closing, Running, Immediate, Graceful
<1>4. shutdown' = shutdown => Closing' = Closing
  BY DEF Closing
<1> USE DEF Goto, Acquire, history, pool, ring
<1>5. ASSUME UNCHANGED <<accepted, taken, finished, shutdown>>,
             memory' = memory \/ (memory # "freed" /\ memory' # "freed")
      PROVE  Abstract' = Abstract
  BY <1>4, <1>5 DEF Abstract
<1>6. CASE UNCHANGED vars \/ Terminated
  BY <1>5, <1>6 DEF vars, Terminated
<1>7. CASE CreateBegin
  BY <1>5, <1>7 DEF CreateBegin, LifeInv
<1>8. CASE CreateErr \/ CreateFail \/ CreateReturn
  BY <1>5, <1>8 DEF CreateErr, CreateFail, CreateReturn
<1>9. CASE \E w \in Workers : CreateWorker(w) \/ WorkerLock(w) \/ Wait(w) \/ Exit(w) \/ Spurious(w)
  BY <1>5, <1>9 DEF CreateWorker, WorkerLock, Wait, Exit, Spurious
<1>10. CASE \E t \in Tasks : (\E c \in Clients : Execute(c, t)) \/ (\E w \in Workers : ExecuteNested(w, t))
  BY <1>5, <1>10 DEF Execute, ExecuteNested
<1>11. CASE \E t \in Callers : AddLock(t)
  BY <1>5, <1>11 DEF AddLock
<1>12. ASSUME NEW t \in Callers, Add(t) PROVE Promise!Next \/ Abstract' = Abstract
  <2>1. UNCHANGED <<taken, finished, shutdown, memory>>
    BY <1>12 DEF Add
  <2>2. CASE AddError
    BY <1>5, <1>12, <2>1, <2>2 DEF Add
  <2>3. CASE ~AddError
    <3>1. accepted' = Append(accepted, Arg(t))
      BY <1>12, <2>3 DEF Add, Arg
    <3>2. Arg(t) \in Tasks
      BY <1>12, PoolAssumption DEF Add, Arg, DataInv, TaskInv, Callers
    <3>3. Arg(t) \notin Elements(accepted)
      BY <3>2, PoolAssumption DEF OnceInv
    <3>4. Closing = "no" /\ Closing' = Closing /\ Len(accepted) - Len(taken) < QueueSize
      BY <1>1, <1>3, <1>4, <2>1, <2>3 DEF AddError, Full
    <3>5. Promise!Accept(Arg(t))
      BY <1>2, <2>1, <3>1, <3>3, <3>4 DEF Promise!Accept, Closing
    <3> QED
      BY <3>2, <3>5 DEF Promise!Next
  <2> QED
    BY <2>2, <2>3
<1>13. ASSUME NEW w \in Workers, Take(w) PROVE Promise!Next \/ Abstract' = Abstract
  <2>1. /\ taken' = Append(taken, queue[head])
        /\ UNCHANGED <<accepted, finished, shutdown, memory>>
        /\ shutdown # Immediate /\ count # 0
    BY <1>13, <1>1 DEF Take, MustExit, Running, Immediate, Graceful
  <2>2. queue[head] = accepted[Len(taken) + 1]
    <3>1. head \in 0..QueueSize-1 /\ 0 \in 0..count-1
      BY <1>1, <2>1 DEF DataInv, TypeOK
    <3>2. queue[(head + 0) % QueueSize] = accepted[Len(taken) + 1 + 0]
      BY <3>1 DEF DataInv, RingInv
    <3>3. (head + 0) % QueueSize = head /\ Len(taken) + 1 + 0 = Len(taken) + 1
      BY SMTT(30), <1>1, <3>1, ModSmall
    <3> QED
      BY <3>2, <3>3
  <2>3. Closing # "now" /\ Closing' = Closing /\ Len(taken) < Len(accepted)
    BY <1>1, <1>3, <1>4, <2>1
  <2>4. Promise!Begin
    BY <2>1, <2>2, <2>3 DEF Promise!Begin, Closing
  <2> QED
    BY <2>4 DEF Promise!Next
<1>14. ASSUME NEW w \in Workers, Run(w) PROVE Promise!Next \/ Abstract' = Abstract
  <2>1. /\ finished' = finished \cup {task[w]} /\ UNCHANGED <<accepted, taken, shutdown, memory>>
        /\ task[w] \in Elements(taken) /\ task[w] \in Tasks
    BY <1>14 DEF Run, HandsInv, Busy, DataInv, TaskInv
  <2>2. CASE task[w] \in finished
    BY <1>5, <2>1, <2>2
  <2>3. CASE task[w] \notin finished
    <3>1. Promise!Finish(task[w])
      BY <1>2, <1>4, <2>1, <2>3 DEF Promise!Finish, Closing
    <3> QED
      BY <2>1, <3>1 DEF Promise!Next
  <2> QED
    BY <2>2, <2>3
<1>15. CASE \E how \in {Immediate, Graceful} : DestroyCall(how)
  BY <1>5, <1>15 DEF DestroyCall
<1>16. CASE DestroyLock \/ Join
  BY <1>5, <1>16 DEF DestroyLock, Join
<1>17. CASE DestroyClose
  <2>1. shutdown = Running /\ shutdown' = mode /\ UNCHANGED <<accepted, taken, finished, memory>>
    BY <1>17 DEF DestroyClose, PhaseInv
  <2>2. Closing = "no" /\ Closing' \in {"now", "drain"}
    BY <1>1, <1>3, <2>1 DEF Closing, Running, Immediate, Graceful
  <2>3. Promise!Close(Closing')
    BY <2>1, <2>2 DEF Promise!Close, Closing
  <2> QED
    BY <2>2, <2>3 DEF Promise!Next
<1>18. CASE Free
  <2>1. /\ pc[Main] = "free" /\ UNCHANGED <<accepted, taken, finished, shutdown>>
        /\ memory' \in {memory, "freed"}
    BY <1>18 DEF Free
  <2>2. memory # "freed" /\ Alive = {} /\ shutdown # Running
    BY <2>1 DEF LifeInv, PhaseInv
  <2>3. CASE memory' = memory
    BY <1>5, <2>1, <2>3
  <2>4. CASE memory' = "freed"
    <3>1. /\ finished = Elements(taken)
          /\ shutdown = Graceful => Len(taken) = Len(accepted)
      BY <2>2, AllDone
    <3>2. Closing # "no" /\ Closing' = Closing /\ Closing = "drain" => shutdown = Graceful
      BY <1>1, <1>3, <1>4, <2>1, <2>2
    <3>3. Promise!Stop
      BY <1>2, <2>1, <2>2, <2>4, <3>1, <3>2 DEF Promise!Stop, Closing
    <3> QED
      BY <3>3 DEF Promise!Next
  <2> QED
    BY <2>1, <2>3, <2>4
<1> QED
  BY <1>6, <1>7, <1>8, <1>9, <1>10, <1>11, <1>12, <1>13, <1>14, <1>15, <1>16, <1>17, <1>18
  DEF Next, CreateStep, DestroyStep, AddStep, WorkerStep, Callers

(* With its mutex, ring and wake-ups, the pool keeps the promise of        *)
(* TaskPool: tasks are accepted once, begun in order, none after the pool  *)
(* was closed, and it is gone only when what it must finish is finished.   *)
THEOREM ThreadPoolIsTaskPool == Spec => ImplementsTaskPool
<1>1. Init => Promise!Init
  BY DEF Init, Promise!Init, Running, Immediate
<1>2. DataInv /\ PhaseInv /\ LifeInv /\ HandsInv /\ LeaveInv /\ OnceInv /\ [Next]_vars
      => [Promise!Next]_(Promise!vars)
  BY StepIsPromised DEF Promise!vars, Abstract, Closing
<1> QED
  BY <1>1, <1>2, DataInvariant, PhaseInvariant, LifeInvariant, DrainInvariant, OnceInvariant, PTL
  DEF Spec, ImplementsTaskPool, Promise!Spec
=============================================================================
