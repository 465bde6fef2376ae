----------------------------- MODULE PageFrames -----------------------------
(***************************************************************************)
(* The page frame allocator (pageFrameAllocator.cpp over bitmap.cpp): one  *)
(* bit for each page frame and three unsigned counters, kept in pages.     *)
(* Nothing bounds the index of a bit, so a frame beyond the bitmap has a   *)
(* bit too: whatever the memory behind the bitmap holds.                   *)
(***************************************************************************)
EXTENDS Integers, FiniteSets

CONSTANTS
    Available,    \* pages of all available regions of the memory map
    CounterLimit  \* the pages at which a counter (64 bits, in bytes) wraps

ASSUME AvailableAssumption ==
    Available \in Nat \ {0} /\ CounterLimit \in Nat /\ Available < CounterLimit

\* uint64_t: += and -= of less than CounterLimit.
Plus(a, n) == IF a + n < CounterLimit THEN a + n ELSE a + n - CounterLimit
Minus(a, n) == IF n <= a THEN a - n ELSE a - n + CounterLimit

\* The bitmap has a byte more than these pages need.
BitmapBits == 8 * (Available \div 8 + 1)
Frames == 0..(BitmapBits - 1)

\* Mutant: the counters follow the request, whatever the bits were.
LockPagesCountAll(mem, s) ==
    LET n == Cardinality(s)
    IN  [mem EXCEPT !.locked = @ \union s, !.free = Minus(@, n), !.used = Plus(@, n)]

\* Only a bit that changes is counted.
LockPages(mem, s) ==
    LET n == Cardinality(s \ mem.locked)
    IN  [mem EXCEPT !.locked = @ \union s, !.free = Minus(@, n), !.used = Plus(@, n)]

ReservePages(mem, s) ==
    LET n == Cardinality(s \ mem.locked)
    IN  [mem EXCEPT !.locked = @ \union s, !.free = Minus(@, n), !.reserved = Plus(@, n)]

\* A reserved frame has no bit of its own: it would be freed as a locked one.
FreePages(mem, s) ==
    LET n == Cardinality(s \cap mem.locked)
    IN  [mem EXCEPT !.locked = @ \ s, !.free = Plus(@, n), !.used = Minus(@, n)]

\* The scan of requestPages(1) from the first bit.
IsFirstFree(mem, f) ==
    f \in Frames \ mem.locked /\ \A g \in Frames \ mem.locked : f <= g

NoneFree(mem) == Frames \subseteq mem.locked
=============================================================================
