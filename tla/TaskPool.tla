------------------------------ MODULE TaskPool ------------------------------
(***************************************************************************)
(* What a thread pool promises the code that submits tasks to it, without  *)
(* threads, mutex, condition variable or ring buffer: tasks are accepted   *)
(* one at a time, begun once each and in the order of acceptance, and a    *)
(* pool that was closed accepts nothing more.  A pool closed gracefully    *)
(* stops only once every accepted task has finished; a pool closed at once *)
(* may drop the tasks nobody has begun.                                    *)
(***************************************************************************)
EXTENDS Naturals, Sequences

CONSTANTS Tasks,      \* the tasks a caller may submit
          Capacity    \* how many accepted tasks may wait to be begun

VARIABLES accepted,   \* the accepted tasks, in order of acceptance
          begun,      \* the begun tasks, in order of beginning
          finished,   \* the set of tasks that returned
          closing,    \* "no", "now" or "drain"
          stopped     \* the pool no longer exists

vars == <<accepted, begun, finished, closing, stopped>>

Elements(s) == {s[i] : i \in DOMAIN s}

Init ==
  /\ accepted = << >>
  /\ begun = << >>
  /\ finished = {}
  /\ closing = "no"
  /\ stopped = FALSE

Accept(t) ==
  /\ closing = "no"
  /\ t \notin Elements(accepted)
  /\ Len(accepted) - Len(begun) < Capacity
  /\ accepted' = Append(accepted, t)
  /\ UNCHANGED <<begun, finished, closing, stopped>>

Begin ==
  /\ closing # "now"
  /\ Len(begun) < Len(accepted)
  /\ begun' = Append(begun, accepted[Len(begun) + 1])
  /\ UNCHANGED <<accepted, finished, closing, stopped>>

Finish(t) ==
  /\ t \in Elements(begun) \ finished
  /\ finished' = finished \cup {t}
  /\ UNCHANGED <<accepted, begun, closing, stopped>>

Close(how) ==
  /\ closing = "no"
  /\ closing' = how
  /\ UNCHANGED <<accepted, begun, finished, stopped>>

Stop ==
  /\ ~stopped
  /\ closing # "no"
  /\ finished = Elements(begun)
  /\ closing = "drain" => Len(begun) = Len(accepted)
  /\ stopped' = TRUE
  /\ UNCHANGED <<accepted, begun, finished, closing>>

Next ==
  \/ \E t \in Tasks : Accept(t) \/ Finish(t)
  \/ Begin
  \/ \E how \in {"now", "drain"} : Close(how)
  \/ Stop

Spec == Init /\ [][Next]_vars
=============================================================================
