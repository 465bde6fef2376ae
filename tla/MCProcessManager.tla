------------------------- MODULE MCProcessManager -------------------------
(***************************************************************************)
(* Small instances of ProcessManager for TLC.                              *)
(***************************************************************************)
EXTENDS ProcessManager, TLC

CONSTANTS p1, p2, p3

\* The PCBs of processes are interchangeable (safety runs only).
Symmetry == Permutations(Tasks)
============================================================================
