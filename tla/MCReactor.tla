----------------------------- MODULE MCReactor -----------------------------
(***************************************************************************)
(* Instances of Reactor.  Connections are interchangeable, which the       *)
(* safety run uses as a symmetry; the liveness run does not.               *)
(***************************************************************************)
EXTENDS Reactor, TLC

Symmetric == Permutations(Conns)
=============================================================================
