---------------------------- MODULE MCDiskPort ----------------------------
(***************************************************************************)
(* DiskPort with three sectors of three bytes.                             *)
(***************************************************************************)
EXTENDS DiskPort

AllRequests == {<<a, n>> : a \in 0..8, n \in 1..6}

InDisk == {r \in AllRequests : r[1] + r[2] <= Sectors * SectorSize}

MCRequests == {r \in InDisk : EndIsKept(r)}
============================================================================
