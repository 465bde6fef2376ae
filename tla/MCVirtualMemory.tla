-------------------------- MODULE MCVirtualMemory --------------------------
(***************************************************************************)
(* VirtualMemory with eight frames for TLC.                                *)
(***************************************************************************)
EXTENDS VirtualMemory, TLC

CONSTANTS p1, p2

\* Processes are interchangeable.
Symmetry == Permutations(Procs)
============================================================================
