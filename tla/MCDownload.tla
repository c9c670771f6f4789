----------------------------- MODULE MCDownload -----------------------------
(***************************************************************************)
(* A few rows and workers; tasks and workers are interchangeable.          *)
(***************************************************************************)
EXTENDS Download, TLC

Symmetric == Permutations(Tasks) \cup Permutations(Workers)
=============================================================================
