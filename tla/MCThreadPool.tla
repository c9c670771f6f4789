---------------------------- MODULE MCThreadPool ----------------------------
(***************************************************************************)
(* A small pool: two workers, one client, four tasks through a ring of two *)
(* slots, so that the ring fills and wraps around, tasks submit tasks, and *)
(* shutdown meets every stage of a task's life.                            *)
(***************************************************************************)
EXTENDS ThreadPool
=============================================================================
