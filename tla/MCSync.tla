------------------------------- MODULE MCSync -------------------------------
(***************************************************************************)
(* Objects threads synchronise with, each on its own: the queue of chap-26 *)
(* with three slots, so that it holds two descriptors while it is not full, *)
(* and as many descriptors as it takes to go round it and to fill it and   *)
(* the hands of every thread; the mutex, the condition variable and call_once  *)
(* of tinycthread.                                                         *)
(***************************************************************************)
EXTENDS BlockQueue

CONSTANTS Caller, MaxDepth, MaxTimeouts, Parts

ASSUME SyncAssumption == IsFiniteSet(Caller) /\ None \notin Caller

VARIABLES
  part,                                                               \* which of them runs
  timed, recursive, owner, depth, mAlreadyLocked, call, holds, wild,  \* TinyMutex
  status, lock, exists, onceAt, ran,                                  \* TinyOnce
  at, mutex, mWaitersCount, one, all, owed, credit, merged, timeouts          \* TinyCnd

Mutex == INSTANCE TinyMutex
Once  == INSTANCE TinyOnce WITH at <- onceAt
Cnd   == INSTANCE TinyCnd

mutexVars == <<timed, recursive, owner, depth, mAlreadyLocked, call, holds, wild>>
onceVars  == <<status, lock, exists, onceAt, ran>>
cndVars   == <<at, mutex, mWaitersCount, one, all, owed, credit, merged, timeouts>>
allVars   == <<part, vars, mutexVars, onceVars, cndVars>>

InQueue == part = "queue" /\ UNCHANGED <<part, mutexVars, onceVars, cndVars>>
InMutex == part = "mutex" /\ UNCHANGED <<part, vars, onceVars, cndVars>>
InOnce  == part = "once"  /\ UNCHANGED <<part, vars, mutexVars, cndVars>>
InCnd   == part = "cnd"   /\ UNCHANGED <<part, vars, mutexVars, onceVars>>

AnyInit ==
  /\ part \in Parts /\ Init /\ Once!Init /\ Cnd!Init
  /\ Mutex!Init /\ (part # "mutex" => timed /\ recursive)

\* Nobody has anything to do any more.
AtRest ==
  \/ wild \/ Exited
  \/ \A t \in Caller : onceAt[t] = "returned"
  \/ \A t \in Caller : at[t] = "blocked"

AnyNext ==
  \/ \E f \in Fds : Accept(f) /\ InQueue
  \/ AcceptFails /\ InQueue
  \/ PushWait /\ InQueue
  \/ Push /\ InQueue
  \/ \E s \in Servers : PopWait(s) /\ InQueue
  \/ \E s \in Servers : Pop(s) /\ InQueue
  \/ \E s \in Servers : Echoed(s) /\ InQueue
  \/ \E s \in Servers : EchoFails(s) /\ InQueue
  \/ \E t \in Threads : Spurious(t) /\ InQueue
  \/ \E t \in Caller, f \in {"lock", "timedlock"} : Mutex!Begin(t, f) /\ InMutex
  \/ \E t \in Caller : Mutex!Entered(t) /\ InMutex
  \/ \E t \in Caller : Mutex!TimedOut(t) /\ InMutex
  \/ \E t \in Caller : Mutex!Claim(t) /\ InMutex
  \/ \E t \in Caller : Mutex!TryLock(t) /\ InMutex
  \/ \E t \in Caller : Mutex!TryLockAgain(t) /\ InMutex
  \/ \E t \in Caller : Mutex!Unlock(t) /\ InMutex
  \/ \E t \in Caller : Once!Call(t) /\ InOnce
  \/ \E t \in Caller : Once!Step(t) /\ InOnce
  \/ \E t \in Caller : Cnd!Step(t) /\ InCnd
  \/ \E t \in Caller : Cnd!Lock(t, "out") /\ InCnd
  \/ \E t \in Caller : Cnd!CndWait(t) /\ InCnd
  \/ \E t \in Caller : Cnd!Timeout(t) /\ InCnd
  \/ \E t \in Caller, f \in {"signal", "broadcast"} : Cnd!HaveWaiters(t, f) /\ InCnd
  \/ AtRest /\ UNCHANGED allVars

AnySpec == AnyInit /\ [][AnyNext]_allVars
FairAnySpec ==
  /\ AnySpec
  /\ WF_allVars((PushWait \/ Push) /\ InQueue)
  /\ \A s \in Servers : WF_allVars(ServerStep(s) /\ InQueue)
  /\ \A t \in Caller : WF_allVars(Once!Step(t) /\ InOnce)
-----------------------------------------------------------------------------
(* The mutex is taken as often as the calls say, a broadcast reaches every *)
(* waiter and a signal one: see TinyMutex and TinyCnd.                     *)
LocksAndWaits ==
  Mutex!LocksCounted /\ Cnd!BroadcastReachesAll /\ Cnd!WaitersCounted /\ Cnd!SignalsRelease

(* The callback runs for one caller only, before any call returns: see     *)
(* TinyOnce.                                                               *)
OnceOnly == Once!OnceOnly

(* Every call of call_once returns.                                        *)
OnceReturns == \A t \in Caller : onceAt[t] = "loop" ~> onceAt[t] = "returned"
=============================================================================
