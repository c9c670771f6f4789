---------------------------- MODULE BoundedQueue ----------------------------
(***************************************************************************)
(* What the queue between the accepting thread and the serving threads     *)
(* promises, without ring buffer, mutex and condition variables: items     *)
(* leave in the order in which they came, each goes to one taker, and      *)
(* there are never more than Capacity of them.                             *)
(***************************************************************************)
EXTENDS Naturals, Sequences

CONSTANTS Items, Takers, Capacity, None

VARIABLES content,   \* the items in the queue, in order of arrival
          held       \* the item each taker has taken and not given back

Init == content = << >> /\ held = [t \in Takers |-> None]

Put(item) ==
  /\ Len(content) < Capacity
  /\ content' = Append(content, item)
  /\ UNCHANGED held

Get(t) ==
  /\ content # << >> /\ held[t] = None
  /\ held' = [held EXCEPT ![t] = Head(content)]
  /\ content' = Tail(content)

GiveBack(t) ==
  /\ held[t] # None
  /\ held' = [held EXCEPT ![t] = None]
  /\ UNCHANGED content

Next == (\E item \in Items : Put(item)) \/ (\E t \in Takers : Get(t) \/ GiveBack(t))

Spec == Init /\ [][Next]_<<content, held>>
=============================================================================
