------------------------------ MODULE MCHeap ------------------------------
(***************************************************************************)
(* Heap with a pool of a few dozen words.                                  *)
(***************************************************************************)
EXTENDS Heap

\* The words that free looks at or a property is about: the first and the last
\* of every block and all a caller holds.  What an earlier block has left in
\* the middle of a free one is never read.
Ends == UNION {{b[1], b[2] - 1} : b \in Blocks}
View ==
    <<[a \in Ends \union UsedWords |-> TagAt(heap, a)], [heap EXCEPT !.tag = << >>],
      live, lost, seams>>
============================================================================
