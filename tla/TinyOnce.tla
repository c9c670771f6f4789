------------------------------ MODULE TinyOnce ------------------------------
(***************************************************************************)
(* call_once of wget-gui's tinycthread.c on Windows: the first caller      *)
(* wins a compare-and-exchange, sets up the critical section and runs the  *)
(* callback inside it; the others spin until the critical section exists,  *)
(* and then wait for it.                                                   *)
(***************************************************************************)
CONSTANTS Caller, None

VARIABLES
  status, lock,   \* of the once_flag; lock is the owner of the critical section
  exists,         \* InitializeCriticalSection has been called
  at,             \* where each thread stands
  ran             \* the threads whose call of func has returned

onceVars == <<status, lock, exists, at, ran>>

Init ==
  /\ status = 0 /\ lock = None /\ exists = FALSE
  /\ at = [t \in Caller |-> "out"]
  /\ ran = {}

Goto(t, from, to) == at[t] = from /\ at' = [at EXCEPT ![t] = to]

Call(t) == Goto(t, "out", "loop") /\ UNCHANGED <<status, lock, exists, ran>>

\* while (flag->status < 3) switch (flag->status); a thread that reads 1 reads again.
Read(t) ==
  /\ CASE status = 0 -> Goto(t, "loop", "case0")
       [] status = 1 -> Goto(t, "loop", "loop")
       [] status = 2 -> Goto(t, "loop", "case2")
       [] status = 3 -> Goto(t, "loop", "returned")
  /\ UNCHANGED <<status, lock, exists, ran>>

ExchangeUnlocked(t) ==
  /\ Goto(t, "case0", "won") /\ status' = 1
  /\ UNCHANGED <<lock, exists, ran>>
\* InterlockedCompareExchange (&(flag->status), 1, 0).
Exchange(t) ==
  /\ Goto(t, "case0", IF status = 0 THEN "won" ELSE "loop")
  /\ status' = IF status = 0 THEN 1 ELSE status
  /\ UNCHANGED <<lock, exists, ran>>

Initialize(t) ==
  /\ Goto(t, "won", "first")
  /\ exists' = TRUE
  /\ UNCHANGED <<status, lock, ran>>

Enter(t, from, to) == Goto(t, from, to) /\ lock = None /\ lock' = t
LeaveForgotten(t, from, to) == Goto(t, from, to) /\ UNCHANGED lock
Leave(t, from, to) == Goto(t, from, to) /\ lock' = None

EnterFirst(t) == Enter(t, "first", "inside") /\ UNCHANGED <<status, exists, ran>>

Publish(t) ==
  /\ Goto(t, "inside", "func")
  /\ status' = 2
  /\ UNCHANGED <<lock, exists, ran>>

\* func() returns.
Func(t) ==
  /\ Goto(t, "func", "over")
  /\ ran' = ran \cup {t}
  /\ UNCHANGED <<status, lock, exists>>

Over(t) ==
  /\ Goto(t, "over", "last")
  /\ status' = 3
  /\ UNCHANGED <<lock, exists, ran>>

LeaveLast(t) == Leave(t, "last", "returned") /\ UNCHANGED <<status, exists, ran>>

EnterToWait(t) == Enter(t, "case2", "waited") /\ UNCHANGED <<status, exists, ran>>
LeaveAtOnce(t) == Leave(t, "waited", "loop") /\ UNCHANGED <<status, exists, ran>>

Step(t) ==
  \/ Read(t) \/ Exchange(t) \/ Initialize(t) \/ EnterFirst(t) \/ Publish(t)
  \/ Func(t) \/ Over(t) \/ LeaveLast(t) \/ EnterToWait(t) \/ LeaveAtOnce(t)
Next == \E t \in Caller : Call(t) \/ Step(t)

Spec == Init /\ [][Next]_onceVars
-----------------------------------------------------------------------------
(* tinycthread.h:464 says of call_once that it invokes a callback exactly  *)
(* once.  No call returns before the callback has, the callback runs for   *)
(* one caller only, and nobody enters a critical section that does not     *)
(* exist yet: a flag read early leads back to the loop.                    *)
OnceOnly ==
  /\ \A s, t \in Caller : s \in ran /\ t \in ran => s = t
  /\ \A t \in Caller : at[t] = "returned" => ran # {} /\ status = 3
  /\ (\E t \in Caller : at[t] \in {"case2", "waited"}) => exists
=============================================================================
