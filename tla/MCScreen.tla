------------------------------ MODULE MCScreen ------------------------------
(***************************************************************************)
(* Screen for TLC: the font and the padding have their real sizes, the     *)
(* screen has room for a few glyphs.                                       *)
(***************************************************************************)
EXTENDS Screen
=============================================================================
