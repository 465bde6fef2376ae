------------------------- MODULE MCIntrusiveQueue -------------------------
(***************************************************************************)
(* IntrusiveQueue with two lists and three items.                          *)
(***************************************************************************)
EXTENDS IntrusiveQueue
============================================================================
