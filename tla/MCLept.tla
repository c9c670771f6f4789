------------------------------- MODULE MCLept -------------------------------
(***************************************************************************)
(* leptjson: its parser, and a program that calls the functions on values. *)
(***************************************************************************)
EXTENDS Lept

CONSTANTS Root, Cell, None, Unset, Scalars, MaxCapacity   \* LeptValue

VARIABLES mem, doubts, wild                               \* LeptValue

Values == INSTANCE LeptValue

\* A variable is not an element of a block; a scalar has no block.
ASSUME ValueAssumption ==
  /\ IsFiniteSet(Cell) /\ None \notin Cell /\ \A r \in Root : r \notin Cell \X Nat
  /\ Unset \notin Nat /\ MaxCapacity \in Nat
  /\ Scalars \cap {"string", "array", "object"} = {}

valueVars == <<mem, doubts, wild>>

JsonInit == Init /\ Values!Init
JsonNext == (Next /\ UNCHANGED valueVars) \/ (Values!Next /\ UNCHANGED vars)
JsonSpec == JsonInit /\ [][JsonNext]_<<vars, valueVars>>
-----------------------------------------------------------------------------
(* No value leaks or shares a block, and nothing is written outside one:   *)
(* see OneOwner and KnowsItsBlock of LeptValue.                            *)
BlocksSafe == Values!OneOwner /\ Values!KnowsItsBlock
=============================================================================
