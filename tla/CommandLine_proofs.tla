------------------------ MODULE CommandLine_proofs ------------------------
(***************************************************************************)
(* The keyboard ring is a queue, for every buffer size, as long as the     *)
(* typist is not a whole buffer ahead of the reader; the shell is a reader *)
(* like any other, so the same holds under the shell, whose line is what   *)
(* was typed, for every size of line.                                      *)
(***************************************************************************)
EXTENDS CommandLine, SequenceTheorems, WellFoundedInduction, TLAPS

\* The assumption of the theorems: less is typed ahead than the ring can hold.
RoomAhead == Backlog < BufferSize - 1

---------------------------------------------------------------------------
(* The arithmetic of the ring.                                             *)

Index == 0..(BufferSize - 2)

\* One more character is written at the end, and the others stay in place.
LEMMA WriteFacts ==
    ASSUME TypeOK, RoomAhead, Count <= Backlog, Count < Backlog,
           writeIndex' = Advance(writeIndex),
           UNCHANGED <<readIndex, reader>>
    PROVE  /\ writeIndex' \in Index
           /\ Count \in Nat /\ Count' = Count + 1
           /\ At(Count) = writeIndex
           /\ \A k \in 0..(Count - 1) : At(k) \in Index /\ At(k) # writeIndex
           /\ \A k \in 0..Count : At(k)' = At(k)
BY BufferAssumption DEF TypeOK, RoomAhead, Index, Count, First, At, Advance

\* Reading moves every character one place to the front.
LEMMA ReadFacts ==
    ASSUME TypeOK, Count > 0, reader = "fetched", reader' = "idle",
           readIndex' = Advance(readIndex),
           UNCHANGED writeIndex
    PROVE  /\ readIndex' \in Index
           /\ Count \in Nat /\ Count' = Count - 1
           /\ \A k \in 0..(Count - 2) : At(k)' = At(k + 1)
BY BufferAssumption DEF TypeOK, Index, Count, First, At, Advance

\* What the unread characters are.
UnreadIsRing ==
    /\ Count \in Nat
    /\ Unread \in Seq(Char)
    /\ Len(Unread) = Count
    /\ \A k \in 1..Count : Unread[k] = buffer[At(k - 1)]

LEMMA UnreadFacts == IInv => UnreadIsRing
<1>. SUFFICES ASSUME IInv PROVE UnreadIsRing
  OBVIOUS
<1>1. Count \in Nat
  BY BufferAssumption DEF IInv, TypeOK, Count, First
<1>2. \A k \in 1..Count : buffer[At(k - 1)] \in Char
  BY <1>1 DEF IInv
<1>. QED
  BY <1>1, <1>2 DEF Unread, UnreadIsRing

LEMMA UnreadFactsNext == IInv' => UnreadIsRing'
BY UnreadFacts, PTL

---------------------------------------------------------------------------
(* The invariant.                                                          *)

LEMMA InitKeeps == Init => IInv
<1>. SUFFICES ASSUME Init PROVE IInv
  OBVIOUS
<1>1. TypeOK
  <2>1. buffer \in [0..(BufferSize - 1) -> Cell] /\ fetched \in Cell
    BY DEF Init, Cell
  <2>2. writeIndex \in 0..(BufferSize - 2) /\ readIndex \in 0..(BufferSize - 2)
    BY BufferAssumption DEF Init
  <2>. QED
    BY <2>1, <2>2 DEF Init, TypeOK
<1>2. Count = 0
  BY DEF Init, Count, First
<1>. QED
  BY <1>1, <1>2, BufferAssumption DEF Init, IInv

LEMMA SendKeeps ==
    ASSUME IInv, RoomAhead, NEW k \in Letters \union Others, SendToQueue(k)
    PROVE  IInv'
<1>1. /\ TypeOK /\ Count <= Backlog /\ Count < Backlog
      /\ writeIndex' = Advance(writeIndex)
      /\ UNCHANGED <<leftShift, rightShift, capsLock, readIndex, reader, fetched, held>>
      /\ buffer' = [buffer EXCEPT ![writeIndex] = Translate(k)]
  BY DEF SendToQueue, IInv, modifiers
<1>2. Translate(k) \in Char
  BY <1>1 DEF Translate, Char, TypeOK
<1>3. TypeOK'
  BY <1>1, <1>2, WriteFacts DEF TypeOK, Cell, Index
<1>4. Count' <= Backlog
  BY <1>1, WriteFacts, BufferAssumption
<1>5. ASSUME NEW j \in 0..(Count' - 1) PROVE (buffer[At(j)])' \in Char
  <2>1. j \in 0..Count /\ At(j)' = At(j) /\ At(Count) = writeIndex /\ Count \in Nat
    BY <1>1, WriteFacts
  <2>2. CASE j = Count
    BY <1>1, <1>2, <2>1, <2>2, BufferAssumption DEF TypeOK
  <2>3. CASE j # Count
    <3>1. j \in 0..(Count - 1)
      BY <2>1, <2>3
    <3>2. At(j) # writeIndex /\ At(j) \in Index /\ buffer[At(j)] \in Char
      BY <1>1, <3>1, WriteFacts DEF IInv
    <3>. QED
      BY <1>1, <2>1, <3>2, BufferAssumption DEF TypeOK, Index
  <2>. QED
    BY <2>2, <2>3
<1>6. ASSUME reader' = "fetched" PROVE Count' > 0 /\ fetched' = (buffer[readIndex])'
  <2>1. reader = "fetched" /\ Count > 0 /\ fetched = buffer[readIndex]
    BY <1>1, <1>6 DEF IInv
  <2>2. readIndex # writeIndex /\ readIndex \in 0..(BufferSize - 1)
    BY <1>1, <2>1, BufferAssumption DEF Count, First, TypeOK
  <2>. QED
    BY <1>1, <2>1, <2>2, WriteFacts DEF TypeOK
<1>. QED
  BY <1>3, <1>4, <1>5, <1>6 DEF IInv

LEMMA GetKeeps ==
    ASSUME IInv, GetFromQueue
    PROVE  IInv'
<1>1. /\ TypeOK /\ Count > 0 /\ Count <= Backlog /\ reader = "fetched" /\ reader' = "idle"
      /\ readIndex' = Advance(readIndex)
      /\ UNCHANGED <<leftShift, rightShift, capsLock, buffer, writeIndex, fetched, held>>
  BY DEF GetFromQueue, IInv, modifiers
<1>2. TypeOK'
  BY <1>1, ReadFacts DEF TypeOK, Index
<1>3. Count' <= Backlog
  BY <1>1, ReadFacts, BufferAssumption
<1>4. ASSUME NEW j \in 0..(Count' - 1) PROVE (buffer[At(j)])' \in Char
  <2>1. j \in 0..(Count - 2) /\ j + 1 \in 0..(Count - 1) /\ At(j)' = At(j + 1)
    BY <1>1, ReadFacts
  <2>. QED
    BY <1>1, <2>1 DEF IInv
<1>. QED
  BY <1>1, <1>2, <1>3, <1>4 DEF IInv

\* Every step of the driver keeps the invariant.
LEMMA NextKeeps == RoomAhead /\ IInv /\ [Next]_vars => IInv'
<1>. SUFFICES ASSUME RoomAhead, IInv, [Next]_vars PROVE IInv'
  OBVIOUS
<1>. USE BufferAssumption
<1>1. ASSUME NEW side \in {"left", "right"}, NEW down \in BOOLEAN, ShiftKey(side, down)
      PROVE  IInv'
  BY <1>1 DEF ShiftKey, ring, IInv, TypeOK, Count, First, At
<1>2. CASE CapsLockKey
  BY <1>2 DEF CapsLockKey, ring, IInv, TypeOK, Count, First, At
<1>3. ASSUME NEW k \in Letters \union Others, SendToQueue(k) PROVE IInv'
  BY <1>3, SendKeeps
<1>4. CASE Fetch
  <2>1. /\ TypeOK /\ Count <= Backlog /\ reader = "idle" /\ reader' = "fetched"
        /\ writeIndex # readIndex /\ fetched' = buffer[readIndex]
        /\ UNCHANGED <<leftShift, rightShift, capsLock, buffer, writeIndex, readIndex, held>>
    BY <1>4 DEF Fetch, HasBeenPressed, modifiers, ring, IInv
  <2>2. Count' = Count /\ \A j : At(j)' = At(j)
    BY <2>1 DEF Count, First, At
  <2>3. Count > 0
    BY <2>1 DEF TypeOK, Count, First
  <2>4. TypeOK'
    BY <2>1 DEF TypeOK
  <2>. QED
    BY <2>1, <2>2, <2>3, <2>4 DEF IInv
<1>5. CASE GetFromQueue
  BY <1>5, GetKeeps
<1>6. CASE Reset
  <2>1. Count' = 0
    BY <1>6 DEF Reset, Count, First
  <2>2. TypeOK'
    <3>1. writeIndex' \in 0..(BufferSize - 2)
      BY <1>6 DEF Reset
    <3>. QED
      BY <1>6, <3>1 DEF Reset, IInv, TypeOK
  <2>. QED
    BY <1>6, <2>1, <2>2 DEF Reset, IInv
<1>7. CASE ResetEnds
  <2>1. Count' = Count /\ \A j : At(j)' = At(j)
    BY <1>7 DEF ResetEnds, Count, First, At
  <2>2. TypeOK'
    BY <1>7 DEF ResetEnds, modifiers, IInv, TypeOK
  <2>. QED
    BY <1>7, <2>1, <2>2 DEF ResetEnds, modifiers, IInv
<1>8. CASE UNCHANGED vars
  BY <1>8 DEF vars, modifiers, ring, IInv, TypeOK, Count, First, At
<1>. QED
  BY <1>1, <1>2, <1>3, <1>4, <1>5, <1>6, <1>7, <1>8 DEF Next

\* The invariant holds for every buffer with room for what is typed ahead.
THEOREM Invariance == ASSUME RoomAhead PROVE Spec => []IInv
<1>1. Init => IInv
  BY InitKeeps
<1>2. IInv /\ [Next]_vars => IInv'
  BY NextKeeps
<1>. QED
  BY <1>1, <1>2, PTL DEF Spec

---------------------------------------------------------------------------
(* The refinement.                                                         *)

\* A character typed goes to the end of what is unread.
LEMMA SendTypes ==
    ASSUME RoomAhead, IInv, IInv', NEW k \in Letters \union Others, SendToQueue(k)
    PROVE  /\ Translate(k) \in Char /\ Unread \in Seq(Char)
           /\ Unread' = Append(Unread, Translate(k))
<1>. USE BufferAssumption
<1>. DEFINE c == Translate(k)
<1>1. /\ TypeOK /\ Count <= Backlog /\ Count < Backlog
      /\ writeIndex' = Advance(writeIndex)
      /\ UNCHANGED <<readIndex, reader>>
      /\ buffer' = [buffer EXCEPT ![writeIndex] = c]
  BY DEF SendToQueue, IInv
<1>2. c \in Char
  BY <1>1 DEF Translate, Char, TypeOK
<1>. HIDE DEF c
<1>3. /\ Unread \in Seq(Char) /\ Len(Unread) = Count /\ Count \in Nat
      /\ \A j \in 1..Count : Unread[j] = buffer[At(j - 1)]
  BY UnreadFacts DEF UnreadIsRing
<1>4. /\ Unread' \in Seq(Char) /\ Len(Unread') = Count'
      /\ \A j \in 1..Count' : Unread'[j] = (buffer[At(j - 1)])'
  BY UnreadFactsNext DEF UnreadIsRing
<1>5. /\ Count' = Count + 1 /\ At(Count) = writeIndex
      /\ \A j \in 0..(Count - 1) : At(j) \in Index /\ At(j) # writeIndex
      /\ \A j \in 0..Count : At(j)' = At(j)
  BY <1>1, WriteFacts
<1>6. Append(Unread, c) \in Seq(Char) /\ Len(Append(Unread, c)) = Count + 1
  BY <1>2, <1>3
<1>7. ASSUME NEW j \in 1..(Count + 1)
      PROVE  Unread'[j] = Append(Unread, c)[j]
  <2>1. Unread'[j] = buffer'[At(j - 1)]
    BY <1>3, <1>4, <1>5
  <2>2. CASE j = Count + 1
    BY <1>1, <1>3, <1>5, <2>1, <2>2 DEF TypeOK
  <2>3. CASE j # Count + 1
    <3>1. j \in 1..Count /\ j - 1 \in 0..(Count - 1)
      BY <1>3, <2>3
    <3>2. buffer'[At(j - 1)] = buffer[At(j - 1)]
      BY <1>1, <1>5, <3>1 DEF TypeOK, Index
    <3>3. Append(Unread, c)[j] = Unread[j]
      BY <1>3, <3>1
    <3>. QED
      BY <1>3, <2>1, <3>1, <3>2, <3>3
  <2>. QED
    BY <2>2, <2>3
<1>8. Unread' = Append(Unread, c)
  BY <1>4, <1>5, <1>6, <1>7, SeqEqual
<1>. QED
  BY <1>2, <1>3, <1>8 DEF c

\* The reader takes the first.
LEMMA GetReads ==
    ASSUME RoomAhead, IInv, IInv', GetFromQueue
    PROVE  /\ Unread \in Seq(Char) /\ Unread # <<>>
           /\ fetched = Head(Unread) /\ Unread' = Tail(Unread)
<1>. USE BufferAssumption
<1>1. /\ TypeOK /\ Count > 0 /\ reader = "fetched" /\ reader' = "idle"
      /\ readIndex' = Advance(readIndex)
      /\ UNCHANGED <<buffer, writeIndex>>
  BY DEF GetFromQueue, IInv
<1>2. /\ Unread \in Seq(Char) /\ Len(Unread) = Count /\ Count \in Nat
      /\ \A j \in 1..Count : Unread[j] = buffer[At(j - 1)]
  BY UnreadFacts DEF UnreadIsRing
<1>3. /\ Unread' \in Seq(Char) /\ Len(Unread') = Count'
      /\ \A j \in 1..Count' : Unread'[j] = (buffer[At(j - 1)])'
  BY UnreadFactsNext DEF UnreadIsRing
<1>4. /\ Count' = Count - 1
      /\ \A j \in 0..(Count - 2) : At(j)' = At(j + 1)
  BY <1>1, ReadFacts
<1>5. /\ Unread # <<>>
      /\ Tail(Unread) \in Seq(Char) /\ Len(Tail(Unread)) = Count - 1
      /\ \A j \in 1..(Count - 1) : Tail(Unread)[j] = Unread[j + 1]
  BY <1>1, <1>2
<1>6. ASSUME NEW j \in 1..(Count - 1)
      PROVE  Unread'[j] = Tail(Unread)[j]
  <2>1. Unread'[j] = buffer[At(j - 1)']
    BY <1>1, <1>2, <1>3, <1>4
  <2>2. At(j - 1)' = At(j)
    <3>1. j - 1 \in 0..(Count - 2) /\ (j - 1) + 1 = j
      BY <1>2
    <3>. QED
      BY <1>4, <3>1
  <2>3. Tail(Unread)[j] = buffer[At(j)]
    <3>1. j + 1 \in 1..Count /\ (j + 1) - 1 = j
      BY <1>2
    <3>. QED
      BY <1>2, <1>5, <3>1
  <2>. QED
    BY <2>1, <2>2, <2>3
<1>7. Unread' = Tail(Unread)
  BY <1>3, <1>4, <1>5, <1>6, SeqEqual
<1>8. fetched = Head(Unread)
  <2>1. fetched = buffer[readIndex] /\ At(0) = readIndex
    BY <1>1 DEF IInv, TypeOK, At, First
  <2>. QED
    BY <1>1, <1>2, <2>1
<1>. QED
  BY <1>2, <1>5, <1>7, <1>8

\* No other step but reset moves a character.
QuietStep ==
    \/ \E side \in {"left", "right"}, down \in BOOLEAN : ShiftKey(side, down)
    \/ CapsLockKey \/ Fetch \/ ResetEnds \/ UNCHANGED vars

LEMMA QuietKeeps ==
    ASSUME IInv, QuietStep
    PROVE  UNCHANGED Unread
<1>1. CASE ResetEnds
  BY <1>1 DEF ResetEnds, Unread, Count, First, At, IInv, TypeOK
<1>2. CASE Fetch
  BY <1>2 DEF Fetch, ring, Unread, Count, First, At
<1>3. ASSUME \/ \E side \in {"left", "right"}, down \in BOOLEAN : ShiftKey(side, down)
             \/ CapsLockKey \/ UNCHANGED vars
      PROVE  UNCHANGED Unread
  BY <1>3 DEF ShiftKey, CapsLockKey, vars, ring, Unread, Count, First, At
<1>. QED
  BY <1>1, <1>2, <1>3 DEF QuietStep

\* A step of the driver is a step of the queue or leaves it alone.
LEMMA StepRefines ==
    ASSUME RoomAhead, IInv, IInv', [Next]_vars
    PROVE  [Fifo!Next]_Unread
<1>. USE BufferAssumption
<1>1. ASSUME NEW k \in Letters \union Others, SendToQueue(k)
      PROVE  \E ch \in Char : Fifo!Type(ch)
  BY <1>1, SendTypes DEF Fifo!Type
<1>2. CASE GetFromQueue
  BY <1>2, GetReads DEF Fifo!Read, Fifo!Next
<1>3. CASE Reset
  <2>1. Count' = 0
    BY <1>3 DEF Reset, Count, First
  <2>2. Unread' = <<>>
    BY <2>1, UnreadFactsNext DEF UnreadIsRing
  <2>. QED
    BY <2>2 DEF Fifo!Clear, Fifo!Next
<1>4. CASE QuietStep
  BY <1>4, QuietKeeps
<1>. QED
  BY <1>1, <1>2, <1>3, <1>4 DEF Next, QuietStep, Fifo!Next

(***************************************************************************)
(* The ring implements the queue of the keyboard: no character typed is    *)
(* lost, doubled or overtaken, whatever the size of the buffer.            *)
(***************************************************************************)
THEOREM Refinement == ASSUME RoomAhead PROVE Spec => ImplementsInputQueue
<1>1. Init => Fifo!Init
  BY BufferAssumption DEF Init, Fifo!Init, Unread, Count, First
<1>2. IInv /\ IInv' /\ [Next]_vars => [Fifo!Next]_Unread
  BY StepRefines
<1>. QED
  BY <1>1, <1>2, Invariance, PTL DEF Spec, ImplementsInputQueue, Fifo!Spec

---------------------------------------------------------------------------
(* The shell.                                                              *)

\* Every step of the shell is one of the driver or leaves it alone.
LEMMA ShellStep == [NextShell]_allVars => [Next]_vars
<1>1. ASSUME KeyEvent PROVE Next
  BY <1>1 DEF KeyEvent, Next
<1>2. ASSUME StartInput PROVE Next
  BY <1>2 DEF StartInput, Next
<1>3. ASSUME Prompt PROVE Next
  BY <1>3 DEF Prompt, Next
<1>4. ASSUME PollFetch PROVE Next
  BY <1>4 DEF PollFetch, Next
<1>5. ASSUME Accept PROVE Next
  BY <1>5 DEF Accept, Next
<1>6. ASSUME Execute \/ UNCHANGED allVars PROVE UNCHANGED vars
  BY <1>6 DEF Execute, allVars
<1>. QED
  BY <1>1, <1>2, <1>3, <1>4, <1>5, <1>6 DEF NextShell

(***************************************************************************)
(* The shell drives the keyboard only in ways Keyboard allows.             *)
(***************************************************************************)
THEOREM ShellReadsKeyboard == SpecShell => Spec
<1>1. InitShell => Init
  BY DEF InitShell
<1>. QED
  BY <1>1, ShellStep, PTL DEF SpecShell, Spec

(***************************************************************************)
(* With the shell as the reader the ring is still a queue: what the shell  *)
(* takes was typed, in that order, however typing and reading interleave.  *)
(***************************************************************************)
THEOREM ShellSeesQueue ==
    ASSUME RoomAhead PROVE SpecShell => []IInv /\ ImplementsInputQueue
BY ShellReadsKeyboard, Invariance, Refinement

(***************************************************************************)
(* No shift key is stuck: every step that leaves a modifier on leaves its  *)
(* key held.                                                               *)
(***************************************************************************)
THEOREM ShiftNeverStuck == Spec => []NoStuckShift
<1>1. Init => NoStuckShift
  BY DEF Init, NoStuckShift
<1>2. NoStuckShift /\ [Next]_vars => NoStuckShift'
  <2> SUFFICES ASSUME NoStuckShift, [Next]_vars PROVE NoStuckShift'
    OBVIOUS
  <2>1. CASE \E side \in {"left", "right"}, down \in BOOLEAN : ShiftKey(side, down)
    BY <2>1 DEF ShiftKey, NoStuckShift
  <2>2. CASE CapsLockKey
    BY <2>2 DEF CapsLockKey, NoStuckShift
  <2>3. CASE \E k \in Letters \union Others : SendToQueue(k)
    BY <2>3 DEF SendToQueue, modifiers, NoStuckShift
  <2>4. CASE Fetch \/ GetFromQueue \/ ResetEnds \/ UNCHANGED vars
    BY <2>4 DEF Fetch, GetFromQueue, ResetEnds, vars, modifiers, NoStuckShift
  <2>5. CASE Reset
    BY <2>5 DEF Reset, NoStuckShift
  <2>. QED
    BY <2>1, <2>2, <2>3, <2>4, <2>5 DEF Next
<1>. QED
  BY <1>1, <1>2, PTL DEF Spec

---------------------------------------------------------------------------
(* Edited, one character at a time.                                        *)

\* t gives what is on the line after each of the characters of s.
IsTrace(t, s) ==
    t = [n \in 0..Len(s) |-> IF n = 0 THEN <<>> ELSE Press(t[n - 1], s[n])]

Trace(s) == CHOOSE t : IsTrace(t, s)
HasTrace(s) == \E t : IsTrace(t, s)

LEMMA EditedIsTrace == \A s : Edited(s) = Trace(s)[Len(s)]
BY DEF Edited, Trace, IsTrace

\* A set of numbers that is not empty has a least one.
LEMMA LeastOf ==
    ASSUME NEW S \in SUBSET Nat, S # {}
    PROVE  \E x \in S : \A y \in S : x <= y
<1>1. IsWellFoundedOn(OpToRel(<, Nat), Nat)
  BY NatLessThanWellFounded, Zenon
<1>2. PICK x \in S : \A y \in S : <<y, x>> \notin OpToRel(<, Nat)
  BY <1>1, WFMin, Zenon
<1>3. ASSUME NEW y \in S PROVE x <= y
  <2>1. ~(y < x)
    BY <1>2, Zenon DEF OpToRel
  <2>2. x \in Nat /\ y \in Nat
    OBVIOUS
  <2>. QED
    BY <2>1, <2>2
<1>. QED
  BY <1>3

\* There is only one: two would part at a first character.
LEMMA TraceIsUnique ==
    ASSUME NEW S, NEW s \in Seq(S), NEW t, NEW u, IsTrace(t, s), IsTrace(u, s)
    PROVE  t = u
<1>. DEFINE Part == {n \in 0..Len(s) : t[n] # u[n]}
<1>1. CASE Part = {}
  <2>1. \A n \in 0..Len(s) : t[n] = u[n]
    BY <1>1
  <2>. QED
    BY <2>1 DEF IsTrace
<1>2. CASE Part # {}
  <2>1. PICK n \in Part : \A m \in Part : n <= m
    <3>1. Part \in SUBSET Nat
      OBVIOUS
    <3>. HIDE DEF Part
    <3>. QED
      BY <1>2, <3>1, LeastOf
  <2>2. n # 0
    BY <2>1 DEF IsTrace
  <2>3. n - 1 \in 0..Len(s) /\ t[n - 1] = u[n - 1]
    BY <2>1, <2>2
  <2>4. t[n] = Press(t[n - 1], s[n]) /\ u[n] = Press(u[n - 1], s[n])
    BY <2>1, <2>2 DEF IsTrace
  <2>. QED
    BY <2>1, <2>3, <2>4
<1>. QED
  BY <1>1, <1>2

\* One more character continues the trace.
LEMMA TraceGrows ==
    ASSUME NEW S, NEW s \in Seq(S), NEW x \in S, NEW t, IsTrace(t, s)
    PROVE  \E u : /\ IsTrace(u, Append(s, x))
                  /\ u[Len(s) + 1] = Press(t[Len(s)], x)
<1>. DEFINE more == Append(s, x)
            u == [n \in 0..(Len(s) + 1) |-> IF n <= Len(s) THEN t[n]
                                            ELSE Press(t[Len(s)], x)]
<1>1. /\ Len(more) = Len(s) + 1 /\ Len(s) \in Nat
      /\ more[Len(s) + 1] = x
      /\ \A n \in 1..Len(s) : more[n] = s[n]
  OBVIOUS
<1>2. ASSUME NEW n \in 0..(Len(s) + 1)
      PROVE  u[n] = IF n = 0 THEN <<>> ELSE Press(u[n - 1], more[n])
  <2>1. CASE n = 0
    BY <2>1, <1>1 DEF IsTrace
  <2>2. CASE n \in 1..Len(s)
    <3>1. u[n] = t[n] /\ u[n - 1] = t[n - 1]
      BY <2>2, <1>1
    <3>2. t[n] = Press(t[n - 1], s[n])
      BY <2>2, <1>1 DEF IsTrace
    <3>. QED
      BY <3>1, <3>2, <2>2, <1>1
  <2>3. CASE n = Len(s) + 1
    <3>1. u[n] = Press(t[Len(s)], x) /\ u[n - 1] = t[Len(s)]
      BY <2>3, <1>1
    <3>. QED
      BY <3>1, <2>3, <1>1
  <2>. QED
    BY <2>1, <2>2, <2>3, <1>1
<1>3. IsTrace(u, more)
  BY <1>1, <1>2 DEF IsTrace
<1>4. u[Len(s) + 1] = Press(t[Len(s)], x)
  BY <1>1
<1>. QED
  BY <1>3, <1>4

\* Every sequence has one.
LEMMA TraceExists ==
    ASSUME NEW S, NEW s \in Seq(S)
    PROVE  HasTrace(s)
<1>. DEFINE Up(n) == SubSeq(s, 1, n)
            None == {n \in 0..Len(s) : ~HasTrace(Up(n))}
<1>1. CASE None = {}
  <2>1. Up(Len(s)) = s /\ Len(s) \in 0..Len(s)
    OBVIOUS
  <2>2. HasTrace(Up(Len(s)))
    BY <1>1, <2>1
  <2>. QED
    BY <2>1, <2>2
<1>2. CASE None # {}
  <2>1. PICK n \in None : \A m \in None : n <= m
    <3>1. None \in SUBSET Nat
      OBVIOUS
    <3>. HIDE DEF None
    <3>. QED
      BY <1>2, <3>1, LeastOf
  <2>2. CASE n = 0
    <3>1. Len(Up(0)) = 0
      OBVIOUS
    <3>2. IsTrace([m \in 0..0 |-> <<>>], Up(0))
      BY <3>1 DEF IsTrace
    <3>. QED
      BY <2>1, <2>2, <3>2 DEF HasTrace
  <2>3. CASE n # 0
    <3>1. n - 1 \in 0..Len(s) /\ n \in 1..Len(s)
      BY <2>1, <2>3
    <3>2. HasTrace(Up(n - 1))
      BY <2>1, <3>1
    <3>3. Up(n) = Append(Up(n - 1), s[n]) /\ Up(n - 1) \in Seq(S) /\ s[n] \in S
      BY <3>1
    <3>4. HasTrace(Up(n))
      BY <3>2, <3>3, TraceGrows DEF HasTrace
    <3>. QED
      BY <2>1, <3>4
  <2>. QED
    BY <2>2, <2>3
<1>. QED
  BY <1>1, <1>2

LEMMA EditedEmpty == Edited(<<>>) = <<>>
<1>. <<>> \in Seq(Cell)
  OBVIOUS
<1>1. HasTrace(<<>>)
  BY TraceExists
<1>2. IsTrace(Trace(<<>>), <<>>)
  BY <1>1 DEF HasTrace, Trace
<1>. QED
  BY <1>2, EditedIsTrace DEF IsTrace

\* One more character is one more press.
LEMMA EditedGrows ==
    ASSUME NEW S, NEW s \in Seq(S), NEW x \in S
    PROVE  Edited(Append(s, x)) = Press(Edited(s), x)
<1>1. IsTrace(Trace(s), s)
  BY TraceExists DEF HasTrace, Trace
<1>2. PICK u : /\ IsTrace(u, Append(s, x))
               /\ u[Len(s) + 1] = Press(Trace(s)[Len(s)], x)
  BY <1>1, TraceGrows
<1>3. IsTrace(Trace(Append(s, x)), Append(s, x))
  BY <1>2 DEF Trace
<1>4. Append(s, x) \in Seq(S) /\ Len(Append(s, x)) = Len(s) + 1
  OBVIOUS
<1>5. Trace(Append(s, x)) = u
  BY <1>2, <1>3, <1>4, TraceIsUnique
<1>. QED
  BY <1>2, <1>4, <1>5, EditedIsTrace

---------------------------------------------------------------------------
(* The invariant of the shell.                                             *)

\* What getInput took has the type of a line, and the ring its own.
LineTypeOK ==
    /\ TypeOK
    /\ line \in Seq(Cell) /\ taken \in Seq(Cell)

LineInv ==
    /\ LineTypeOK
    /\ shell = "reset" => line = <<>> /\ taken = <<>>
    /\ LineIsEdited

\* Every cell and every index of the ring keeps its type, however full it is.
LEMMA DriverTypes == TypeOK /\ [Next]_vars => TypeOK'
<1>. SUFFICES ASSUME TypeOK, [Next]_vars PROVE TypeOK'
  OBVIOUS
<1>. USE BufferAssumption
<1>1. CASE \E side \in {"left", "right"}, down \in BOOLEAN : ShiftKey(side, down)
  BY <1>1 DEF TypeOK, ShiftKey, ring
<1>2. CASE CapsLockKey
  BY <1>2 DEF TypeOK, CapsLockKey, ring
<1>3. ASSUME NEW k \in Letters \union Others, SendToQueue(k) PROVE TypeOK'
  <2>1. Translate(k) \in Cell
    BY DEF TypeOK, Translate, Cell, Char
  <2>. QED
    BY <1>3, <2>1 DEF TypeOK, SendToQueue, Advance, modifiers
<1>4. CASE Fetch
  BY <1>4 DEF TypeOK, Fetch, modifiers, ring
<1>5. CASE GetFromQueue
  BY <1>5 DEF TypeOK, GetFromQueue, Advance, modifiers
<1>6. CASE Reset
  <2>1. 0 \in 0..(BufferSize - 2)
    OBVIOUS
  <2>2. /\ leftShift' = FALSE /\ rightShift' = FALSE /\ capsLock' = FALSE
        /\ writeIndex' = 0 /\ reader' = "reset"
        /\ UNCHANGED <<buffer, readIndex, fetched, held>>
    BY <1>6 DEF Reset
  <2>. QED
    BY <2>1, <2>2 DEF TypeOK
<1>7. CASE ResetEnds
  BY <1>7 DEF TypeOK, ResetEnds, modifiers
<1>8. CASE UNCHANGED vars
  BY <1>8 DEF TypeOK, vars, modifiers, ring
<1>. QED
  BY <1>1, <1>2, <1>3, <1>4, <1>5, <1>6, <1>7, <1>8 DEF Next

\* Accept is the only step that edits the line, one character at a time.
LEMMA AcceptEdits ==
    ASSUME LineInv, Accept, TypeOK'
    PROVE  LineInv'
<1>. DEFINE ch == fetched
<1>1. ch \in Cell /\ line \in Seq(Cell) /\ taken \in Seq(Cell) /\ shell = "poll"
  BY DEF LineInv, LineTypeOK, TypeOK, Accept
<1>2. taken' = Append(taken, ch) /\ taken' \in Seq(Cell)
  BY <1>1 DEF Accept
<1>3. line = Edited(taken) /\ Len(line) < InputSize
  BY <1>1 DEF LineInv, LineIsEdited
<1>4. Edited(taken') = Press(line, ch)
  BY <1>1, <1>2, <1>3, EditedGrows
<1>5. \A s \in Seq(Cell) : IsPrefix(s, s) /\ IsPrefix(s, Append(s, ch))
  BY <1>1 DEF IsPrefix
<1>6. CASE ch.key = Newline /\ line' = line /\ shell' = "command"
  <2>1. Edited(taken') = line'
    BY <1>4, <1>6 DEF Press
  <2>. QED
    BY <1>1, <1>2, <1>3, <1>5, <1>6, <2>1 DEF LineInv, LineTypeOK, LineIsEdited
<1>7. CASE ch.key = Backspace /\ line' = Erase(line) /\ shell' = shell
  <2>1. Edited(taken') = line'
    BY <1>4, <1>7, InputAssumption DEF Press
  <2>2. line' \in Seq(Cell) /\ Len(line') <= Len(line)
    BY <1>1, <1>7 DEF Erase, Front
  <2>3. Len(line') < InputSize /\ IsPrefix(line', line')
    BY <1>1, <1>3, <1>5, <2>2, InputAssumption
  <2>. QED
    BY <1>1, <1>2, <1>7, <2>1, <2>2, <2>3
       DEF LineInv, LineTypeOK, LineIsEdited
<1>8. CASE /\ ch.key \notin {Newline, Backspace} /\ ~Full(line)
           /\ line' = Append(line, ch) /\ shell' = shell
  <2>1. Edited(taken') = line' /\ line' \in Seq(Cell)
    BY <1>1, <1>4, <1>8 DEF Press
  <2>2. Len(line') < InputSize
    BY <1>1, <1>8, InputAssumption DEF Full
  <2>. QED
    BY <1>1, <1>2, <1>5, <1>8, <2>1, <2>2 DEF LineInv, LineTypeOK, LineIsEdited
<1>9. CASE /\ ch.key \notin {Newline, Backspace} /\ ok' = FALSE
           /\ line' = line /\ shell' = "command"
  <2>1. Edited(taken') = Append(line, ch)
    BY <1>4, <1>9 DEF Press
  <2>. QED
    BY <1>1, <1>2, <1>3, <1>5, <1>9, <2>1 DEF LineInv, LineTypeOK, LineIsEdited
<1>. QED
  BY <1>6, <1>7, <1>8, <1>9 DEF Accept

LEMMA LineInvariance == SpecShell => []LineInv
<1>1. InitShell => LineInv
  <2>. SUFFICES ASSUME InitShell PROVE LineInv
    OBVIOUS
  <2>1. TypeOK
    BY InitKeeps DEF InitShell, IInv
  <2>. QED
    BY <2>1 DEF InitShell, LineInv, LineTypeOK, LineIsEdited
<1>2. LineInv /\ [NextShell]_allVars => LineInv'
  <2>. SUFFICES ASSUME LineInv, [NextShell]_allVars PROVE LineInv'
    OBVIOUS
  <2>1. TypeOK'
    BY ShellStep, DriverTypes DEF LineInv, LineTypeOK
  <2>2. CASE KeyEvent \/ PollFetch \/ UNCHANGED allVars
    <3>1. UNCHANGED shellVars
      BY <2>2 DEF KeyEvent, PollFetch, allVars
    <3>. QED
      BY <2>1, <3>1 DEF shellVars, LineInv, LineTypeOK, LineIsEdited
  <2>3. CASE StartInput
    BY <2>1, <2>3 DEF StartInput, LineInv, LineTypeOK, LineIsEdited
  <2>4. CASE Prompt
    <3>1. line' = <<>> /\ taken' = <<>> /\ shell' = "poll"
      BY <2>4 DEF Prompt, LineInv
    <3>. QED
      BY <2>1, <3>1, EditedEmpty, InputAssumption
         DEF LineInv, LineTypeOK, LineIsEdited, IsPrefix
  <2>5. CASE Accept
    BY <2>1, <2>5, AcceptEdits
  <2>6. CASE Execute
    BY <2>1, <2>6 DEF Execute, LineInv, LineTypeOK, LineIsEdited
  <2>. QED
    BY <2>2, <2>3, <2>4, <2>5, <2>6 DEF NextShell
<1>. QED
  BY <1>1, <1>2, PTL DEF SpecShell

(***************************************************************************)
(* The line getInput returns is what was typed since the prompt with the   *)
(* backspaces carried out, cut short only when it would not fit, and it    *)
(* leaves room for the zero byte: for every size of the line and of the    *)
(* ring, and even when the ring overflows.                                 *)
(***************************************************************************)
THEOREM LineStaysEdited == SpecShell => []LineIsEdited
<1>1. LineInv => LineIsEdited
  BY DEF LineInv
<1>. QED
  BY <1>1, LineInvariance, PTL

---------------------------------------------------------------------------
(* What is typed is taken or still to be taken.                            *)

\* What is taken, and then what is unread.
Typed == taken \o Unread

\* One step of a shell that polls loses nothing.
LEMMA StepDropsNothing ==
    ASSUME RoomAhead, IInv, IInv', taken \in Seq(Cell), shell = "poll",
           [NextShell]_allVars
    PROVE  shell' \in {"poll", "command"} => IsPrefix(Typed, Typed')
<1>1. Unread \in Seq(Char) /\ Typed \in Seq(Cell)
  BY UnreadFacts DEF UnreadIsRing, Cell, Typed
<1>2. IsPrefix(Typed, Typed)
  BY <1>1 DEF IsPrefix
<1>3. ASSUME NEW k \in Letters \union Others, SendToQueue(k), taken' = taken
      PROVE  IsPrefix(Typed, Typed')
  <2>1. Unread' = Append(Unread, Translate(k)) /\ Translate(k) \in Cell
    BY <1>3, SendTypes DEF Cell
  <2>2. Typed' = Append(Typed, Translate(k))
    BY <1>1, <1>3, <2>1 DEF Typed
  <2>. QED
    BY <1>1, <2>1, <2>2 DEF IsPrefix
<1>4. ASSUME QuietStep, taken' = taken PROVE IsPrefix(Typed, Typed')
  BY <1>2, <1>4, QuietKeeps DEF Typed
<1>5. CASE Accept
  <2>1. /\ GetFromQueue /\ taken' = Append(taken, fetched)
    BY <1>5 DEF Accept
  <2>2. Unread # <<>> /\ fetched = Head(Unread) /\ Unread' = Tail(Unread)
    BY <2>1, GetReads
  <2>3. Typed' = Typed
    BY <1>1, <2>1, <2>2 DEF Typed, Cell
  <2>. QED
    BY <1>2, <2>3
<1>6. CASE KeyEvent
  BY <1>3, <1>4, <1>6 DEF KeyEvent, shellVars, QuietStep
<1>7. CASE PollFetch \/ UNCHANGED allVars
  BY <1>4, <1>7 DEF PollFetch, shellVars, allVars, QuietStep
<1>. QED
  BY <1>5, <1>6, <1>7 DEF NextShell, StartInput, Prompt, Execute

(***************************************************************************)
(* No character typed at a prompt is dropped: what is taken and what is    *)
(* still unread only grow, and in the order of the keys.                   *)
(***************************************************************************)
THEOREM NothingIsDropped == ASSUME RoomAhead PROVE SpecShell => NothingDropped
<1>1. SpecShell => []IInv
  BY ShellSeesQueue, PTL
<1>2. SpecShell => []LineInv
  BY LineInvariance
<1>3. /\ IInv /\ IInv' /\ LineInv /\ [NextShell]_allVars
      => [shell' \in {"poll", "command"} /\ shell = "poll"
            => IsPrefix(taken \o Unread, (taken \o Unread)')]_allVars
  BY StepDropsNothing DEF LineInv, LineTypeOK, Typed
<1>. QED
  BY <1>1, <1>2, <1>3, PTL DEF SpecShell, NothingDropped
============================================================================
