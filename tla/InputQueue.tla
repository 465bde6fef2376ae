---------------------------- MODULE InputQueue ----------------------------
(***************************************************************************)
(* What keyboard.h promises of the keyboard's queue: characters come out   *)
(* in the order they were typed, each once.                                *)
(***************************************************************************)
EXTENDS Sequences

CONSTANT Char

VARIABLE unread   \* the characters typed and not read yet

Init == unread = <<>>

\* A character typed goes to the end.
Type(ch) == unread' = Append(unread, ch)

\* The reader takes the first.
Read == unread # <<>> /\ unread' = Tail(unread)

\* The reader starts afresh.
Clear == unread' = <<>>

Next == (\E ch \in Char : Type(ch)) \/ Read \/ Clear

Spec == Init /\ [][Next]_unread
============================================================================
