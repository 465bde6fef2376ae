--------------------------- MODULE MCCommandLine ---------------------------
(***************************************************************************)
(* CommandLine with a line of a few characters.                            *)
(***************************************************************************)
EXTENDS CommandLine
============================================================================
