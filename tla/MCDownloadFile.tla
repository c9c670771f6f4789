--------------------------- MODULE MCDownloadFile ---------------------------
(***************************************************************************)
(* The tasks of MCDownload and, on its own, the file of one download.      *)
(***************************************************************************)
EXTENDS MCDownload

CONSTANTS Lengths, IntBits, MaxFile

\* Lengths of files, and the values an int has.
ASSUME DiskAssumption == Lengths \subseteq Nat /\ 2^IntBits \in Nat \ {0}

VARIABLES
  part,                                         \* which of them runs
  resource, row, task, transfer, file, spoiled  \* Transfer

Disk == INSTANCE Transfer

diskVars == <<resource, row, task, transfer, file, spoiled>>
allVars  == <<part, vars, diskVars>>

InDownload == part = "download" /\ UNCHANGED <<part, diskVars>>
InDisk     == part = "disk"     /\ UNCHANGED <<part, vars>>

AnyInit ==
  /\ part \in {"download", "disk"} /\ Init /\ Disk!Init
  /\ part # "disk" => resource = [length |-> 1, ranges |-> TRUE, known |-> TRUE]
AnyNext == (Next /\ InDownload) \/ (Disk!Next /\ InDisk)
AnySpec == AnyInit /\ [][AnyNext]_allVars
-----------------------------------------------------------------------------
(* The file of a download holds its progress: see Transfer.                *)
FileFollowsProgress == Disk!FileFollowsProgress
=============================================================================
