---------------------------- MODULE ByteDevice ----------------------------
(***************************************************************************)
(* What a disk promises its callers: a write changes the bytes it was      *)
(* asked to change and no other, even when it fails on the way, and a      *)
(* write that succeeds has changed all of them.                            *)
(***************************************************************************)
EXTENDS Integers

CONSTANT NoRequest

VARIABLES
    bytes,    \* the content, by address
    pending,  \* the write in progress: [addr, size, value], or NoRequest
    result    \* what the last write returned

Extent(r) == r.addr..(r.addr + r.size - 1)

Init == pending = NoRequest /\ result \in BOOLEAN

Begin ==
    /\ pending = NoRequest
    /\ pending' # NoRequest
    /\ UNCHANGED <<bytes, result>>

\* Some of the bytes asked for reach the medium.
Progress ==
    /\ pending # NoRequest
    /\ DOMAIN bytes' = DOMAIN bytes
    /\ \A a \in DOMAIN bytes :
          \/ bytes'[a] = bytes[a]
          \/ a \in Extent(pending) /\ bytes'[a] = pending.value
    /\ UNCHANGED <<pending, result>>

Return ==
    /\ pending # NoRequest
    /\ pending' = NoRequest
    /\ result' = TRUE => \A a \in Extent(pending) : bytes[a] = pending.value
    /\ UNCHANGED bytes

Next == Begin \/ Progress \/ Return

Spec == Init /\ [][Next]_<<bytes, pending, result>>
============================================================================
