----------------------------- MODULE TaskLists -----------------------------
(***************************************************************************)
(* What the process manager expects of its three lists: sequences that     *)
(* share no item.                                                          *)
(***************************************************************************)
EXTENDS Sequences, SequencesExt

CONSTANTS Items, Lists

VARIABLE content   \* [Lists -> Seq(Items)]

On(l) == ToSet(content[l])
OnSome(i) == \E l \in Lists : i \in On(l)

Init == content = [l \in Lists |-> <<>>]

Push(l, i) ==
    /\ ~OnSome(i)
    /\ content' = [content EXCEPT ![l] = Append(@, i)]

Pop(l) ==
    /\ content[l] # <<>>
    /\ content' = [content EXCEPT ![l] = Tail(@)]

Take(l, i) ==
    \E n \in DOMAIN content[l] :
        /\ content[l][n] = i
        /\ content' = [content EXCEPT ![l] = RemoveAt(@, n)]

Rotate(l) ==
    /\ content[l] # <<>>
    /\ content' = [content EXCEPT ![l] = Append(Tail(@), Head(@))]

Clear(l) == content' = [content EXCEPT ![l] = <<>>]

Next ==
    \E l \in Lists :
        \/ Pop(l)
        \/ Clear(l)
        \/ Rotate(l)
        \/ \E i \in Items : Push(l, i) \/ Take(l, i)

Spec == Init /\ [][Next]_content
============================================================================
