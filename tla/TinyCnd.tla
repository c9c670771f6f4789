------------------------------ MODULE TinyCnd -------------------------------
(***************************************************************************)
(* cnd_t of wget-gui's tinycthread.c on Windows: a counter of waiters, an  *)
(* event for cnd_signal that resets itself when it lets one thread go, and *)
(* an event for cnd_broadcast that lets every thread go until the last     *)
(* waiter resets it.                                                       *)
(*                                                                         *)
(* Used as threadpool.c uses it: the mutex is held by whoever signals.     *)
(***************************************************************************)
EXTENDS Integers, FiniteSets

CONSTANTS Caller, None,
          MaxTimeouts      \* bound: waits that time out

VARIABLES
  at,                 \* where each thread stands
  mutex,              \* the thread that has the mtx, or None
  mWaitersCount,
  one, all,           \* whether the events mEvents[0] and mEvents[1] are set
  owed,               \* history: waiters a broadcast has yet to release
  credit,             \* history: signals to waiters that released nobody so far
  merged,             \* history: cnd_signal has found the event still set
  timeouts            \* history

cndVars == <<at, mutex, mWaitersCount, one, all, owed, credit, merged, timeouts>>
events == <<one, all>>

Init ==
  /\ at = [t \in Caller |-> "out"]
  /\ mutex = None /\ mWaitersCount = 0
  /\ one = FALSE /\ all = FALSE
  /\ owed = {} /\ credit = 0 /\ merged = FALSE /\ timeouts = 0

Goto(t, from, to) == at[t] = from /\ at' = [at EXCEPT ![t] = to]

\* "going" is past mtx_unlock, "blocked" inside WaitForMultipleObjects.
Waiting == {t \in Caller : at[t] \in {"going", "blocked"}}
Blocked == {t \in Caller : at[t] = "blocked"}
Counted == Waiting \cup {t \in Caller : at[t] \in {"one", "all"}}

\* t is let go by a signal or a broadcast.
Releases(t) == owed' = owed \ {t} /\ credit' = IF credit = 0 THEN 0 ELSE credit - 1
Nobody      == UNCHANGED <<owed, credit>>

Lock(t, from) ==
  /\ Goto(t, from, "in") /\ mutex = None /\ mutex' = t
  /\ UNCHANGED <<mWaitersCount, events, owed, credit, merged, timeouts>>

Unlock(t) ==
  /\ Goto(t, "in", "out") /\ mutex' = None
  /\ UNCHANGED <<mWaitersCount, events, owed, credit, merged, timeouts>>

(* _cnd_timedwait_win32.                                                   *)
CndWait(t) ==
  /\ Goto(t, "in", "going")
  /\ mWaitersCount' = mWaitersCount + 1
  /\ mutex' = None
  /\ UNCHANGED <<events, owed, credit, merged, timeouts>>

\* WaitForMultipleObjects takes the first event that is set, or waits.
Wait(t) ==
  /\ \/ one /\ Goto(t, "going", "one") /\ one' = FALSE /\ Releases(t)
     \/ ~one /\ all /\ Goto(t, "going", "all") /\ UNCHANGED one /\ Releases(t)
     \/ ~one /\ ~all /\ Goto(t, "going", "blocked") /\ UNCHANGED one /\ Nobody
  /\ UNCHANGED <<mutex, mWaitersCount, all, merged, timeouts>>

\* WAIT_TIMEOUT: the number of waiters stays as it is.
Timeout(t) ==
  /\ timeouts < MaxTimeouts /\ timeouts' = timeouts + 1
  /\ Goto(t, "blocked", "relock")
  /\ owed' = owed \ {t}
  /\ credit' = IF credit >= Cardinality(Waiting) THEN credit - 1 ELSE credit
  /\ UNCHANGED <<mutex, mWaitersCount, events, merged>>

LastWaiterAny(t) == at[t] = "all"
LastWaiter(t) == at[t] = "all" /\ mWaitersCount = 1
Leave(t) ==
  /\ at[t] \in {"one", "all"}
  /\ mWaitersCount' = mWaitersCount - 1
  /\ at' = [at EXCEPT ![t] = IF LastWaiter(t) THEN "reset" ELSE "relock"]
  /\ UNCHANGED <<mutex, events, owed, credit, merged, timeouts>>

Reset(t) ==
  /\ Goto(t, "reset", "relock")
  /\ all' = FALSE
  /\ UNCHANGED <<mutex, mWaitersCount, one, owed, credit, merged, timeouts>>

(* cnd_signal and cnd_broadcast: first the number of waiters is read, then *)
(* the event is set.                                                       *)
HaveWaiters(t, f) ==
  /\ mWaitersCount > 0
  /\ Goto(t, "in", f)
  /\ UNCHANGED <<mutex, mWaitersCount, events, owed, credit, merged, timeouts>>

\* SetEvent lets one thread go that is blocked, or sets the event.
SetOne(t) ==
  LET more == IF credit < Cardinality(Waiting) THEN credit + 1 ELSE credit IN
  /\ at[t] = "signal"
  /\ \/ \E u \in Blocked :
          /\ at' = [at EXCEPT ![t] = "in", ![u] = "one"]
          /\ owed' = owed \ {u} /\ credit' = more - 1
          /\ UNCHANGED <<one, merged>>
     \/ /\ Blocked = {}
        /\ at' = [at EXCEPT ![t] = "in"]
        /\ one' = TRUE /\ merged' = (merged \/ one) /\ credit' = more /\ UNCHANGED owed
  /\ UNCHANGED <<mutex, mWaitersCount, all, timeouts>>

Resetting == \E t \in Caller : at[t] = "reset"
SetAll(t) ==
  /\ at[t] = "broadcast"
  /\ at' = [u \in Caller |-> IF u = t THEN "in" ELSE IF u \in Blocked THEN "all" ELSE at[u]]
  /\ all' = TRUE
  /\ owed' = IF Resetting THEN owed ELSE Waiting \ Blocked
  /\ credit' = IF credit > Cardinality(Waiting \ Blocked) THEN Cardinality(Waiting \ Blocked) ELSE credit
  /\ UNCHANGED <<mutex, mWaitersCount, one, merged, timeouts>>

Step(t) ==
  \/ Wait(t) \/ Leave(t) \/ Reset(t) \/ Lock(t, "relock")
  \/ SetOne(t) \/ SetAll(t) \/ Unlock(t)
Next == \E t \in Caller :
  \/ Step(t)
  \/ Lock(t, "out") \/ CndWait(t) \/ Timeout(t)
  \/ \E f \in {"signal", "broadcast"} : HaveWaiters(t, f)

Spec == Init /\ [][Next]_cndVars
-----------------------------------------------------------------------------
(* tinycthread.h:286-287: cnd_broadcast unblocks all the threads that are  *)
(* blocked at the time of the call.  Those which have not begun to wait    *)
(* for the events when they are set find the second one set, because the   *)
(* last waiter resets it and they are counted.  It is not so when another  *)
(* thread is about to reset the event for an earlier broadcast.            *)
BroadcastReachesAll == owed # {} => all

(* A call of cnd_signal or cnd_broadcast passes over nobody: every thread  *)
(* that waits is counted.  A wait that timed out stays counted for ever.   *)
WaitersCounted == mWaitersCount = Cardinality(Counted) + timeouts

(* tinycthread.h:276: cnd_signal unblocks one of the threads that are      *)
(* blocked at the time of the call.  When all threads have come to rest,   *)
(* as many have been released as there were signals to waiting threads;    *)
(* unless two signals came before their threads had begun to wait for the  *)
(* event, which then counts for one.                                       *)
SignalsRelease ==
  (\A t \in Caller : at[t] \in {"out", "in", "blocked"}) => credit = 0 \/ merged
=============================================================================
