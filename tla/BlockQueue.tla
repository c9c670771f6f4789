----------------------------- MODULE BlockQueue -----------------------------
(***************************************************************************)
(* The echo server of network/chap-26/thread02.c: the main thread accepts  *)
(* connections and pushes their descriptors into a block_queue; a fixed    *)
(* set of threads pops descriptors and serves them.                        *)
(*                                                                         *)
(* block_queue_push and block_queue_pop touch the queue only with its      *)
(* mutex held, so a critical section up to its unlock or its wait is one   *)
(* step, taken by a thread that stands before pthread_mutex_lock or        *)
(* returns from pthread_cond_wait.                                         *)
(***************************************************************************)
EXTENDS Integers, Sequences, FiniteSets

CONSTANTS
  Servers,   \* the THREAD_NUMBER threads running thread_run
  Main,      \* the thread that accepts
  Fds,       \* the descriptors accept can return
  number,    \* blockQueue->number
  None

ASSUME QueueAssumption ==
  /\ number \in Nat \ {0}
  /\ IsFiniteSet(Servers)
  /\ Main \notin Servers
  /\ Fds \subseteq Nat /\ None \notin Fds

VARIABLES
  pc,                         \* where each thread stands
  conn,                       \* the descriptor it has in its hands, or None
  opened,                     \* kernel: the descriptors accept has returned
  fd, front, rear, count      \* *blockQueue

queue == <<fd, front, rear, count>>
vars  == <<pc, conn, opened, queue>>

Threads == Servers \cup {Main}
\* The slot i places behind front, and the descriptors in the queue.
Slot(i) == IF front + i < number THEN front + i ELSE front + i - number
Content == [i \in 1..count |-> fd[Slot(i - 1)]]

Asleep == {s \in Servers : pc[s] = "not_empty"}

Init ==
  /\ pc = [t \in Threads |-> IF t = Main THEN "accept" ELSE "pop"]
  /\ conn = [t \in Threads |-> None] /\ opened = {}
  /\ fd = [i \in 0..number-1 |-> None]       \* calloc
  /\ front = 0 /\ rear = 0 /\ count = 0

Goto(from, t, to) == [from EXCEPT ![t] = to]

\* pthread_cond_signal: one thread that waits for cond, if there is one, goes on.
SignalForgotten(from, cond, to) == pc' = from
Signal(from, cond, to) ==
  LET waiting == {t \in Threads : pc[t] = cond}
  IN IF waiting = {} THEN pc' = from
     ELSE \E t \in waiting : pc' = Goto(from, t, to)

\* The index after i, reset at the end of the array.
NextSlot(i) == IF i + 1 = number THEN 0 ELSE i + 1

\* error(1, ...) ends the process, with all its threads.
Exit   == pc' = [t \in Threads |-> "exited"] /\ UNCHANGED <<conn, opened, queue>>
Exited == pc[Main] = "exited"

\* accept returns the lowest free descriptor; none is ever closed.
Accept(f) ==
  /\ pc[Main] = "accept"
  /\ f \in Fds \ opened /\ \A g \in Fds \ opened : f <= g
  /\ opened' = opened \cup {f}
  /\ conn' = [conn EXCEPT ![Main] = f]
  /\ pc' = Goto(pc, Main, "push")
  /\ UNCHANGED queue

\* accept fails: with no descriptor left at the latest.
AcceptFails == pc[Main] = "accept" /\ Exit

(* block_queue_push, called by Main.                                       *)
Full == count = number

PushWait ==
  /\ pc[Main] = "push" /\ Full
  /\ pc' = Goto(pc, Main, "not_full")
  /\ UNCHANGED <<conn, opened, queue>>

Push ==
  /\ pc[Main] = "push" /\ ~Full
  /\ fd' = [fd EXCEPT ![rear] = conn[Main]]
  /\ rear' = NextSlot(rear)
  /\ count' = count + 1
  /\ Signal(Goto(pc, Main, "accept"), "not_empty", "pop")
  /\ conn' = [conn EXCEPT ![Main] = None]
  /\ UNCHANGED <<opened, front>>

(* block_queue_pop, called by a server.                                    *)
NothingToPopIgnored == FALSE
NothingToPop == front = rear

PopWait(s) ==
  /\ pc[s] = "pop" /\ NothingToPop
  /\ pc' = Goto(pc, s, "not_empty")
  /\ UNCHANGED <<conn, opened, queue>>

Pop(s) ==
  /\ pc[s] = "pop" /\ ~NothingToPop
  /\ conn' = [conn EXCEPT ![s] = fd[front]]
  /\ front' = NextSlot(front)
  /\ count' = count - 1
  /\ Signal(Goto(pc, s, "echo"), "not_full", "push")
  /\ UNCHANGED <<opened, fd, rear>>

\* loop_echo returns: the peer has closed the connection.  The descriptor stays open.
Echoed(s) ==
  /\ pc[s] = "echo"
  /\ pc' = Goto(pc, s, "pop")
  /\ conn' = [conn EXCEPT ![s] = None]
  /\ UNCHANGED <<opened, queue>>

\* recv fails in loop_echo.
EchoFails(s) == pc[s] = "echo" /\ Exit

\* pthread_cond_wait returns without a signal.
Spurious(t) ==
  /\ pc[t] \in {"not_empty", "not_full"}
  /\ pc' = Goto(pc, t, IF t = Main THEN "push" ELSE "pop")
  /\ UNCHANGED <<conn, opened, queue>>

ServerStep(s) == PopWait(s) \/ Pop(s) \/ Echoed(s) \/ EchoFails(s)

Next ==
  \/ (\E f \in Fds : Accept(f)) \/ AcceptFails
  \/ PushWait \/ Push
  \/ \E s \in Servers : ServerStep(s)
  \/ \E t \in Threads : Spurious(t)

Spec == Init /\ [][Next]_vars

\* Threads that can run do run and connections end, well or badly; nobody has to connect,
\* and no wait has to return without a signal.
Fairness == WF_vars(PushWait \/ Push) /\ \A s \in Servers : WF_vars(ServerStep(s))
FairSpec == Spec /\ Fairness
-----------------------------------------------------------------------------
TypeOK ==
  /\ pc \in [Threads -> {"accept", "push", "not_full", "pop", "not_empty", "echo", "exited"}]
  /\ opened \subseteq Fds
  /\ conn \in [Threads -> Fds \cup {None}]
  /\ fd \in [0..number-1 -> Fds \cup {None}]
  /\ front \in 0..number-1 /\ rear \in 0..number-1 /\ count \in 0..number

(* The descriptors from front on, count of them, are those pushed and not  *)
(* yet popped, in order: front, rear and count agree across every          *)
(* wrap-around, each descriptor goes to one thread, none is overwritten.   *)
Fifo == INSTANCE BoundedQueue WITH
  content  <- Content,
  held     <- [s \in Servers |-> conn[s]],
  Items    <- Fds,
  Takers   <- Servers,
  Capacity <- number
ImplementsBoundedQueue == Fifo!Spec

(* No wake-up is lost: while a server sleeps, every queued descriptor has  *)
(* a server of its own on the way to it (unless the ring is full, when     *)
(* front = rear hides all of it).                                          *)
NoLostWakeup ==
  Asleep # {} /\ ~Full => Cardinality({s \in Servers : pc[s] = "pop"}) >= count

(* A connection that was accepted is served, unless the ring fills up (a   *)
(* full ring looks empty to the servers) or an error of accept or recv     *)
(* ends the process first.                                                 *)
Served == \A f \in Fds : conn[Main] = f ~> Full \/ Exited \/ \E s \in Servers : conn[s] = f

(* thread02.c:67, of block_queue_pop: it waits when there is no new        *)
(* connection to serve in the queue.                                       *)
WaitsOnlyWhenEmpty ==
  [][\A s \in Servers : pc[s] = "pop" /\ pc'[s] = "not_empty" => count = 0]_vars
=============================================================================
