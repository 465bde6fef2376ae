-------------------------- MODULE IntrusiveQueue --------------------------
(***************************************************************************)
(* headers/queue.h: lists linked through a field of the items themselves.  *)
(* One `next` field serves every list of the process manager, and neither  *)
(* pop nor remove clears it in the item they take out.                     *)
(*                                                                         *)
(* As in the process manager (ListsDisjoint of ProcessManager), an item is *)
(* pushed only while it is on no list.                                     *)
(***************************************************************************)
EXTENDS Naturals, FiniteSets, Sequences

CONSTANTS Items, Lists, Null

ASSUME ItemsAssumption == IsFiniteSet(Items) /\ Null \notin Items

VARIABLES
    start,   \* _start of each list
    size,    \* _size of each list
    next     \* the `next` field of each item

vars == <<start, size, next>>

Init ==
    /\ start = [l \in Lists |-> Null]
    /\ size = [l \in Lists |-> 0]
    /\ next = [i \in Items |-> Null]

\* The n-th item met by following `next` from the start of a list.
Walk(l) ==
    LET at[n \in 1..(Cardinality(Items) + 1)] ==
          IF n = 1 THEN start[l]
          ELSE IF at[n - 1] = Null THEN Null ELSE next[at[n - 1]]
    IN  at

Content(l) ==
    LET at == Walk(l) IN [n \in {m \in DOMAIN at : at[m] # Null} |-> at[n]]

Held(l) == {Walk(l)[n] : n \in DOMAIN Walk(l)} \ {Null}

\* peekEnd.
PeekEnd(l) == CHOOSE i \in Held(l) : next[i] = Null

\* isEmpty, read by the reaper.
IsEmpty(l) == size[l] = 0

PushUnterminated(l, i) ==
    /\ \A k \in Lists : i \notin Held(k)
    /\ IF start[l] = Null
         THEN /\ start' = [start EXCEPT ![l] = i]
              /\ next' = next
              /\ size' = [size EXCEPT ![l] = 1]
         ELSE /\ next' = [next EXCEPT ![PeekEnd(l)] = i]
              /\ size' = [size EXCEPT ![l] = @ + 1]
              /\ start' = start

Push(l, i) ==
    /\ \A k \in Lists : i \notin Held(k)
    /\ IF start[l] = Null
         THEN /\ start' = [start EXCEPT ![l] = i]
              /\ next' = [next EXCEPT ![i] = Null]
              /\ size' = [size EXCEPT ![l] = 1]
         ELSE /\ next' = [next EXCEPT ![PeekEnd(l)] = i, ![i] = Null]
              /\ size' = [size EXCEPT ![l] = @ + 1]
              /\ start' = start

Pop(l) ==
    /\ start[l] # Null
    /\ start' = [start EXCEPT ![l] = next[@]]
    /\ size' = [size EXCEPT ![l] = @ - 1]
    /\ next' = next

\* remove: the head, or the item whose predecessor is found on the way.
RemoveCounting(l, i) ==
    /\ start[l] # Null
    /\ size' = [size EXCEPT ![l] = @ - 1]
    /\ start' = IF start[l] = i THEN [start EXCEPT ![l] = next[i]] ELSE start
    /\ next' = [p \in Items |->
                  IF start[l] # i /\ p \in Held(l) /\ next[p] = i THEN next[i] ELSE next[p]]

Remove(l, i) ==
    /\ start[l] # Null
    /\ \/ /\ start[l] = i
          /\ start' = [start EXCEPT ![l] = next[i]]
          /\ next' = next
          /\ size' = [size EXCEPT ![l] = @ - 1]
       \/ \E prev \in Held(l) :
             /\ start[l] # i /\ next[prev] = i
             /\ next' = [next EXCEPT ![prev] = next[i]]
             /\ size' = [size EXCEPT ![l] = @ - 1]
             /\ start' = start
       \/ /\ i \notin Held(l)
          /\ UNCHANGED vars

\* rotate: the head goes to the end of the list it left.
Rotate(l) ==
    /\ start[l] # Null /\ next[start[l]] # Null
    /\ start' = [start EXCEPT ![l] = next[@]]
    /\ next' = [next EXCEPT ![PeekEnd(l)] = start[l], ![start[l]] = Null]
    /\ size' = size

\* clear: the items keep their `next`.
Clear(l) ==
    /\ start' = [start EXCEPT ![l] = Null]
    /\ size' = [size EXCEPT ![l] = 0]
    /\ next' = next

Next ==
    \E l \in Lists :
        \/ Pop(l)
        \/ Clear(l)
        \/ Rotate(l)
        \/ \E i \in Items : Push(l, i) \/ Remove(l, i)

Spec == Init /\ [][Next]_vars

---------------------------------------------------------------------------
TypeOK ==
    /\ start \in [Lists -> Items \union {Null}]
    /\ size \in [Lists -> Nat]
    /\ next \in [Items -> Items \union {Null}]

(***************************************************************************)
(* The lists are the sequences the process manager takes them for, stale   *)
(* `next` fields of removed items notwithstanding.                         *)
(***************************************************************************)
Abstract == INSTANCE TaskLists WITH content <- [l \in Lists |-> Content(l)]
ImplementsTaskLists == Abstract!Spec

\* _size is the number of items, so isEmpty tells the reaper the truth.
SizeIsLength == \A l \in Lists : size[l] = Len(Content(l))
============================================================================
