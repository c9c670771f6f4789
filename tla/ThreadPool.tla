----------------------------- MODULE ThreadPool -----------------------------
(***************************************************************************)
(* The thread pool of the download manager (src/common/threadpool.c) and   *)
(* the manager that owns the one pool of the program                       *)
(* (src/common/threadpool_manager.c): a mutex, a condition variable, a     *)
(* ring buffer of tasks, worker threads that drain it, and a main thread   *)
(* that creates and destroys the pool.                                     *)
(*                                                                         *)
(* One step is what a thread does between two points where another thread  *)
(* can interfere: acquiring the mutex, the rest of a critical section up   *)
(* to its unlock or wait, and running a task.                              *)
(***************************************************************************)
EXTENDS Integers, Sequences, FiniteSets

CONSTANTS
  Workers,       \* the threads threadpool_create starts
  Clients,       \* other threads that call ThreadPoolExecute
  Main,          \* the thread that creates and destroys the pool
  Tasks,         \* the tasks to submit, each at most once
  QueueSize,     \* pool->queue_size
  CallersFirst,  \* Main destroys the pool only when no client is in a call
  MaxSpurious,   \* bound: spurious returns from cnd_wait
  None

Threads == Workers \cup Clients \cup {Main}

ASSUME PoolAssumption ==
  /\ IsFiniteSet(Workers)
  /\ Workers # {}
  /\ QueueSize \in Nat \ {0}
  /\ MaxSpurious \in Nat
  /\ CallersFirst \in BOOLEAN
  /\ Workers \cap Clients = {}
  /\ Main \notin Workers \cup Clients
  /\ None \notin Threads \cup Tasks

Running   == 0   \* values of pool->shutdown
Immediate == 1
Graceful  == 2

VARIABLES
  memory,        \* the pool's memory: "none", "live" or "freed"
  handle,        \* the manager's global pointer: "NULL" or "pool"
  lock,          \* the thread that owns pool->lock, or None
  pc,            \* where each thread stands
  task,          \* the task a thread runs (worker) or submits (client)
  extra,         \* the task a worker submits from inside the task it runs
  mode,          \* the shutdown mode Main's flags ask for
  queue, head, tail, count, shutdown, started, threadCount,   \* fields of *pool
  accepted,      \* history: tasks threadpool_add put in the ring, in order
  taken,         \* history: tasks workers grabbed, in order
  finished,      \* history: tasks that returned
  refused,       \* history: tasks threadpool_add returned an error for
  spurious       \* spurious wake-ups so far

ring    == <<queue, head, tail, count>>
history == <<accepted, taken, finished, refused>>
pool    == <<ring, shutdown, started, threadCount>>
vars    == <<memory, handle, lock, pc, task, extra, mode, pool, history, spurious>>

Elements(s) == {s[i] : i \in DOMAIN s}
Waiting == {w \in Workers : pc[w] = "wait"}                \* asleep in cnd_wait
Seeking == {w \in Workers : pc[w] \in {"lock", "test"}}    \* on the way to the ring
Alive   == {w \in Workers : pc[w] \notin {"absent", "exited"}}

\* The tasks some thread has handed to ThreadPoolExecute.
Submitted == Elements(accepted) \cup refused
             \cup {task[c] : c \in Clients} \cup {extra[w] : w \in Workers}
-----------------------------------------------------------------------------
Init ==
  /\ memory = "none" /\ handle = "NULL" /\ lock = None
  /\ pc = [t \in Threads |->
             IF t = Main THEN "start" ELSE IF t \in Workers THEN "absent" ELSE "idle"]
  /\ task = [t \in Threads |-> None]
  /\ extra = [w \in Workers |-> None]
  /\ mode = Immediate
  /\ queue = [i \in 0..QueueSize-1 |-> None]
  /\ head = 0 /\ tail = 0 /\ count = 0
  /\ shutdown = Running /\ started = 0 /\ threadCount = 0
  /\ accepted = << >> /\ taken = << >> /\ finished = {} /\ refused = {}
  /\ spurious = 0

Goto(t, from, to) == pc[t] = from /\ pc' = [pc EXCEPT ![t] = to]

\* mtx_lock(&pool->lock), and its success for thread t.
Acquire(t, from, to) == lock = None /\ lock' = t /\ Goto(t, from, to)

(* threadpool_create: the allocation, then one thrd_create after another.  *)
CreateBegin ==
  /\ Goto(Main, "start", "create")
  /\ memory' = "live"
  /\ UNCHANGED <<handle, lock, task, extra, mode, pool, history, spurious>>

\* Out of memory, or the mutex or condition cannot be made: NULL is returned.
CreateErr ==
  /\ Goto(Main, "start", "nopool")
  /\ UNCHANGED <<memory, handle, lock, task, extra, mode, pool, history, spurious>>

CreateWorkerUncounted(w) ==
  /\ pc[Main] = "create"
  /\ Goto(w, "absent", "lock")
  /\ UNCHANGED <<memory, handle, lock, task, extra, mode, pool, history, spurious>>
CreateWorker(w) ==
  /\ pc[Main] = "create"
  /\ Goto(w, "absent", "lock")
  /\ threadCount' = threadCount + 1
  /\ started' = started + 1
  /\ UNCHANGED <<memory, handle, lock, task, extra, mode, ring, shutdown, history, spurious>>

\* thrd_create failed: threadpool_destroy(pool, 0), then NULL is returned.
CreateFail ==
  /\ threadCount < Cardinality(Workers)
  /\ Goto(Main, "create", "destroy")
  /\ mode' = Immediate
  /\ UNCHANGED <<memory, handle, lock, task, extra, pool, history, spurious>>

\* threadpool_create returned, and InitThreadPool stored the pool.
CreateReturn ==
  /\ threadCount = Cardinality(Workers)
  /\ Goto(Main, "create", "idle")
  /\ handle' = "pool"
  /\ UNCHANGED <<memory, lock, task, extra, mode, pool, history, spurious>>
-----------------------------------------------------------------------------
(* ThreadPoolExecute and threadpool_add.                                   *)

\* A client calls after InitThreadPool and before DestroyThreadPool.
Execute(c, t) ==
  /\ t \notin Submitted
  /\ pc[c] = "idle" /\ pc[Main] \in {"idle", "nopool"}
  /\ \/ /\ handle = "pool"
        /\ pc' = [pc EXCEPT ![c] = "add"]
        /\ task' = [task EXCEPT ![c] = t]
        /\ UNCHANGED refused
     \/ /\ handle = "NULL"                     \* pool == NULL: threadpool_invalid
        /\ refused' = refused \cup {t}
        /\ UNCHANGED <<pc, task>>
  /\ UNCHANGED <<memory, handle, lock, extra, mode, pool, accepted, taken, finished, spurious>>

\* A task submits another task from the worker that runs it.
ExecuteNested(w, t) ==
  /\ t \notin Submitted
  /\ handle = "pool"
  /\ Goto(w, "run", "add")
  /\ extra' = [extra EXCEPT ![w] = t]
  /\ UNCHANGED <<memory, handle, lock, task, mode, pool, history, spurious>>

AddLock(t) ==
  /\ t # Main
  /\ Acquire(t, "add", "adding")
  /\ UNCHANGED <<memory, handle, task, extra, mode, pool, history, spurious>>

\* cnd_signal: one waiting worker, if there is one, goes on to re-acquire the lock.
SignalForgotten(from) == pc' = from
SignalFirstOnly(from) ==
  IF Waiting = {} \/ count > 0 THEN pc' = from
  ELSE \E w \in Waiting : pc' = [from EXCEPT ![w] = "lock"]
Signal(from) ==
  IF Waiting = {} THEN pc' = from
  ELSE \E w \in Waiting : pc' = [from EXCEPT ![w] = "lock"]

\* cnd_broadcast: every waiting worker does.
SignalOnly(from) ==
  IF Waiting = {} THEN from ELSE [from EXCEPT ![CHOOSE w \in Waiting : TRUE] = "lock"]
Broadcast(from) == [t \in Threads |-> IF t \in Waiting THEN "lock" ELSE from[t]]

\* The slot after slot i of the ring.
NextSlotLate(i) == IF i = QueueSize THEN 0 ELSE i + 1
NextSlot(i) == (i + 1) % QueueSize

\* The errors threadpool_add returns, tested in this order: full, shutting down.
Full == count = QueueSize
AddErrorFullOnly == Full
AddError == Full \/ shutdown # Running

\* The critical section of threadpool_add by thread t, and its return.
Add(t) ==
  LET arg  == IF t \in Workers THEN extra[t] ELSE task[t]
      back == [pc EXCEPT ![t] = IF t \in Workers THEN "run" ELSE "idle"]
  IN
  /\ pc[t] = "adding"
  /\ IF AddError
     THEN /\ refused' = refused \cup {arg}
          /\ pc' = back
          /\ UNCHANGED <<ring, accepted>>
     ELSE /\ queue' = [queue EXCEPT ![tail] = arg]
          /\ tail' = NextSlot(tail)
          /\ count' = count + 1
          /\ accepted' = Append(accepted, arg)
          /\ Signal(back)
          /\ UNCHANGED <<head, refused>>
  /\ lock' = None
  /\ task' = IF t \in Workers THEN task ELSE [task EXCEPT ![t] = None]
  /\ extra' = IF t \in Workers THEN [extra EXCEPT ![t] = None] ELSE extra
  /\ UNCHANGED <<memory, handle, mode, shutdown, started, threadCount, taken, finished, spurious>>
-----------------------------------------------------------------------------
(* threadpool_thread: the worker.                                          *)
WorkerLock(w) ==
  /\ Acquire(w, "lock", "test")
  /\ UNCHANGED <<memory, handle, task, extra, mode, pool, history, spurious>>

\* cnd_wait releases the lock and sleeps in one step.
Wait(w) ==
  /\ count = 0 /\ shutdown = Running
  /\ Goto(w, "test", "wait")
  /\ lock' = None
  /\ UNCHANGED <<memory, handle, task, extra, mode, pool, history, spurious>>

Spurious(w) ==
  /\ spurious < MaxSpurious
  /\ spurious' = spurious + 1
  /\ Goto(w, "wait", "lock")
  /\ UNCHANGED <<memory, handle, lock, task, extra, mode, pool, history>>

\* Whether a worker that need not wait leaves its loop.
MustExitAtOnce == shutdown # Running
MustExit == shutdown = Immediate \/ (shutdown = Graceful /\ count = 0)

Take(w) ==
  /\ ~(count = 0 /\ shutdown = Running) /\ ~MustExit
  /\ Goto(w, "test", "run")
  /\ task' = [task EXCEPT ![w] = queue[head]]
  /\ taken' = Append(taken, queue[head])
  /\ head' = NextSlot(head)
  /\ count' = count - 1
  /\ lock' = None
  /\ UNCHANGED <<memory, handle, extra, mode, queue, tail, shutdown, started, threadCount,
                 accepted, finished, refused, spurious>>

\* (*(task.function))(task.argument) returned.
Run(w) ==
  /\ Goto(w, "run", "lock")
  /\ finished' = finished \cup {task[w]}
  /\ task' = [task EXCEPT ![w] = None]
  /\ UNCHANGED <<memory, handle, lock, extra, mode, pool, accepted, taken, refused, spurious>>

Exit(w) ==
  /\ MustExit
  /\ Goto(w, "test", "exited")
  /\ started' = started - 1
  /\ lock' = None
  /\ UNCHANGED <<memory, handle, task, extra, mode, ring, shutdown, threadCount, history, spurious>>
-----------------------------------------------------------------------------
(* DestroyThreadPool, threadpool_destroy and threadpool_free, by Main.     *)
DestroyCall(how) ==
  /\ handle = "pool"
  /\ CallersFirst => \A c \in Clients : pc[c] = "idle"
  /\ Goto(Main, "idle", "destroy")
  /\ mode' = how
  /\ UNCHANGED <<memory, handle, lock, task, extra, pool, history, spurious>>

DestroyLock ==
  /\ Acquire(Main, "destroy", "closing")
  /\ UNCHANGED <<memory, handle, task, extra, mode, pool, history, spurious>>

\* Set pool->shutdown, broadcast and unlock; a pool already shutting down is
\* left alone, and left locked: err is threadpool_shutdown.
DestroyClose ==
  /\ pc[Main] = "closing"
  /\ IF shutdown # Running
     THEN pc' = [pc EXCEPT ![Main] = "gone"] /\ UNCHANGED <<lock, shutdown>>
     ELSE /\ shutdown' = mode
          /\ pc' = Broadcast([pc EXCEPT ![Main] = "join"])
          /\ lock' = None
  /\ UNCHANGED <<memory, handle, task, extra, mode, ring, started, threadCount, history, spurious>>

\* The loop of thrd_join over the threads that were started.
Join ==
  /\ Cardinality({w \in Workers : pc[w] = "exited"}) = threadCount
  /\ Goto(Main, "join", "free")
  /\ UNCHANGED <<memory, handle, lock, task, extra, mode, pool, history, spurious>>

\* threadpool_free, and the manager's pool = NULL (or the NULL that
\* threadpool_create returns after CreateFail).
Free ==
  /\ IF started > 0 THEN UNCHANGED memory ELSE lock = None /\ memory' = "freed"
  /\ Goto(Main, "free", IF handle = "pool" THEN "gone" ELSE "nopool")
  /\ handle' = "NULL"
  /\ UNCHANGED <<lock, task, extra, mode, pool, history, spurious>>

\* Nothing is left to do: the pool is gone or was never made, and all calls returned.
Terminated ==
  /\ pc[Main] \in {"gone", "nopool"}
  /\ \A c \in Clients : pc[c] = "idle"
  /\ Alive = {}
  /\ UNCHANGED vars
-----------------------------------------------------------------------------
WorkerStep(w) == WorkerLock(w) \/ Wait(w) \/ Take(w) \/ Run(w) \/ Exit(w)
AddStep(t)    == AddLock(t) \/ Add(t)
DestroyStep   == DestroyLock \/ DestroyClose \/ Join \/ Free
CreateStep    == CreateBegin \/ CreateErr \/ CreateFail \/ CreateReturn

Next ==
  \/ CreateStep
  \/ \E w \in Workers : CreateWorker(w) \/ WorkerStep(w) \/ Spurious(w)
  \/ \E t \in Tasks : (\E c \in Clients : Execute(c, t)) \/ (\E w \in Workers : ExecuteNested(w, t))
  \/ \E t \in Workers \cup Clients : AddStep(t)
  \/ \E how \in {Immediate, Graceful} : DestroyCall(how)
  \/ DestroyStep
  \/ Terminated

Spec == Init /\ [][Next]_vars

\* Threads that can run do run, tasks return, and a mutex that is released is
\* granted.  Nobody has to submit a task or to destroy the pool.
Fairness ==
  /\ WF_vars(CreateStep \/ \E w \in Workers : CreateWorker(w))
  /\ \A w \in Workers : WF_vars(WorkerStep(w))
  /\ \A t \in Workers \cup Clients : WF_vars(AddStep(t))
  /\ WF_vars(DestroyStep)

FairSpec == Spec /\ Fairness
-----------------------------------------------------------------------------
States == {"start", "create", "idle", "destroy", "closing", "join", "free", "gone", "nopool",
           "absent", "lock", "test", "wait", "run", "exited", "add", "adding"}

TypeOK ==
  /\ memory \in {"none", "live", "freed"} /\ handle \in {"NULL", "pool"}
  /\ lock \in Threads \cup {None}
  /\ pc \in [Threads -> States]
  /\ task \in [Threads -> Tasks \cup {None}]
  /\ extra \in [Workers -> Tasks \cup {None}]
  /\ mode \in {Immediate, Graceful} /\ shutdown \in {Running, Immediate, Graceful}
  /\ queue \in [0..QueueSize-1 -> Tasks \cup {None}]
  /\ head \in 0..QueueSize-1 /\ tail \in 0..QueueSize-1 /\ count \in 0..QueueSize
  /\ started \in Int /\ threadCount \in Nat
  /\ accepted \in Seq(Tasks) /\ taken \in Seq(Tasks)
  /\ finished \subseteq Tasks /\ refused \subseteq Tasks
  /\ spurious \in 0..MaxSpurious

(* The ring holds, from head on, exactly the accepted tasks no worker has  *)
(* grabbed yet, in the order of their acceptance: head, tail and count     *)
(* agree across every wrap-around, no task is lost, overwritten or begun   *)
(* twice.                                                                  *)
FifoRing ==
  accepted = taken \o [i \in 1..count |-> queue[(head + i - 1) % QueueSize]]

(* No wake-up is lost: while some worker sleeps in cnd_wait, every task in *)
(* the ring has a worker of its own on the way to it.  It is why           *)
(* threadpool_add may signal once per task and a worker may test only the  *)
(* count before it waits.                                                  *)
WorkConserving == Waiting # {} => Cardinality(Seeking) >= count

(* The mutex is owned only inside a critical section: no return path of    *)
(* add, destroy or the worker leaves it locked behind.                     *)
LockReleased == lock # None => pc[lock] \in {"test", "adding", "closing"}

(* threadpool_free frees the pool only when no worker and no caller of     *)
(* threadpool_add can touch it again.                                      *)
NoUseAfterFree ==
  memory = "freed" =>
    /\ Alive = {}
    /\ \A c \in Clients : pc[c] \notin {"add", "adding"}

(* threadpool.h: a pool destroyed with threadpool_graceful "processes all  *)
(* pending tasks before shutdown".                                         *)
GracefulDrains == memory = "freed" /\ shutdown = Graceful => finished = Elements(accepted)

(* The pool implements the abstract task pool: acceptance in one step,     *)
(* begun in order, nothing accepted after the pool was closed, and gone    *)
(* only when what it began has finished.                                   *)
Promise == INSTANCE TaskPool WITH
  Capacity <- QueueSize,
  begun    <- taken,
  closing  <- CASE shutdown = Running -> "no" [] shutdown = Immediate -> "now" [] OTHER -> "drain",
  stopped  <- memory = "freed"
ImplementsTaskPool == Promise!Spec

(* Every accepted task runs to its end, unless the pool is shut down at    *)
(* once.                                                                   *)
AcceptedRuns ==
  \A t \in Tasks : t \in Elements(accepted) ~> (t \in finished \/ shutdown = Immediate)

(* A call of threadpool_destroy returns and the pool is freed: no worker   *)
(* sleeps through the broadcast.                                           *)
DestroyReturns == pc[Main] = "destroy" ~> memory = "freed"
=============================================================================
