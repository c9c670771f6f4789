----------------------------- MODULE TinyMutex ------------------------------
(***************************************************************************)
(* mtx_t of wget-gui's tinycthread.c on Windows.  The critical section or  *)
(* mutex object below it can be taken again by the thread that has it; the *)
(* flag mAlreadyLocked makes a mutex of it that cannot.                    *)
(*                                                                         *)
(* No thread locks a mutex it has and that is not recursive: mtx_lock then *)
(* blocks for ever, as the header says, and so does mtx_timedlock.         *)
(***************************************************************************)
EXTENDS Integers

CONSTANTS
  Caller,     \* the threads that use the mutex
  MaxDepth,   \* bound: times a recursive mutex is locked
  None

VARIABLES
  timed, recursive,       \* mTimed, mRecursive
  owner, depth,           \* of mHandle.cs or mHandle.mut
  mAlreadyLocked,
  call,                   \* what each thread is inside
  holds,                  \* how often each thread has locked, by what the calls returned
  wild                    \* LeaveCriticalSection got something else

mtx == <<owner, depth, mAlreadyLocked>>
mutexVars == <<timed, recursive, mtx, call, holds, wild>>

\* mtx_init.
Init ==
  /\ timed \in BOOLEAN /\ recursive \in BOOLEAN
  /\ owner = None /\ depth = 0 /\ mAlreadyLocked = FALSE
  /\ call = [t \in Caller |-> "none"]
  /\ holds = [t \in Caller |-> 0]
  /\ wild = FALSE

Holders   == {t \in Caller : holds[t] > 0}
Idle(t)   == call[t] = "none" /\ ~wild
MayLock(t) == IF recursive THEN depth < MaxDepth ELSE holds[t] = 0

\* EnterCriticalSection or WaitForSingleObject can succeed, and does.
Free(t)  == owner \in {None, t}
Enter(t) == Free(t) /\ owner' = t /\ depth' = depth + 1
Leave    == depth' = depth - 1 /\ owner' = IF depth = 1 THEN None ELSE owner

Begin(t, f) ==
  /\ Idle(t) /\ MayLock(t)
  /\ f = "timedlock" => timed      \* else thrd_error at once
  /\ call' = [call EXCEPT ![t] = f]
  /\ UNCHANGED <<timed, recursive, mtx, holds, wild>>

Entered(t) ==
  /\ call[t] \in {"lock", "timedlock"}
  /\ Enter(t)
  /\ call' = [call EXCEPT ![t] = "claim"]
  /\ UNCHANGED <<timed, recursive, mAlreadyLocked, holds, wild>>

\* WAIT_TIMEOUT.
TimedOut(t) ==
  /\ call[t] = "timedlock" /\ ~Free(t)
  /\ call' = [call EXCEPT ![t] = "none"]
  /\ UNCHANGED <<timed, recursive, mtx, holds, wild>>

Locked(t) ==
  /\ mAlreadyLocked' = (mAlreadyLocked \/ ~recursive)
  /\ holds' = [holds EXCEPT ![t] = @ + 1]

\* while(mtx->mAlreadyLocked) Sleep(1) has come to its end.
Claim(t) ==
  /\ call[t] = "claim"
  /\ recursive \/ ~mAlreadyLocked
  /\ Locked(t)
  /\ call' = [call EXCEPT ![t] = "none"]
  /\ UNCHANGED <<timed, recursive, owner, depth, wild>>

TryLock(t) ==
  /\ Idle(t) /\ (recursive => depth < MaxDepth)
  /\ Enter(t)
  /\ recursive \/ ~mAlreadyLocked
  /\ Locked(t)
  /\ UNCHANGED <<timed, recursive, call, wild>>

\* The calling thread has the mutex: LeaveCriticalSection, of mHandle.cs also when
\* it is mHandle.mut that was taken.
BackOut(t) ==
  IF timed THEN Enter(t) /\ wild' = TRUE
           ELSE Free(t) /\ UNCHANGED <<owner, depth, wild>>
TryLockAgain(t) ==
  /\ Idle(t) /\ ~recursive /\ mAlreadyLocked
  /\ BackOut(t)
  /\ UNCHANGED <<timed, recursive, mAlreadyLocked, call, holds>>

Unlock(t) ==
  /\ Idle(t) /\ holds[t] > 0
  /\ mAlreadyLocked' = FALSE
  /\ Leave
  /\ holds' = [holds EXCEPT ![t] = @ - 1]
  /\ UNCHANGED <<timed, recursive, call, wild>>

Next == \E t \in Caller :
  \/ \E f \in {"lock", "timedlock"} : Begin(t, f)
  \/ Entered(t) \/ TimedOut(t) \/ Claim(t)
  \/ TryLock(t) \/ TryLockAgain(t) \/ Unlock(t)
-----------------------------------------------------------------------------
(* The handle below the mutex is taken exactly as often as the calls that  *)
(* succeeded and were not undone say, by one thread, so that the last      *)
(* mtx_unlock sets the mutex free; and a mutex that is not recursive is    *)
(* marked as locked exactly while it is.  It holds until a thread that has *)
(* a timed mutex tries to lock it again.                                   *)
Taken(t) == IF owner = t THEN IF call[t] = "claim" THEN depth - 1 ELSE depth ELSE 0

LocksCounted ==
  ~wild => /\ \A t \in Caller : holds[t] = Taken(t)
           /\ ~recursive => /\ \A t \in Caller : holds[t] <= 1
                            /\ mAlreadyLocked <=> Holders # {}
=============================================================================
