----------------------------- MODULE Keyboard -----------------------------
(***************************************************************************)
(* The keyboard driver: kernel/drivers/keyboard.cpp.                       *)
(*                                                                         *)
(* The interrupt handler translates a scancode and puts the character in a *)
(* ring; one reader, the shell, takes characters out and resets the        *)
(* driver.  The handler runs with interrupts off, so it is one step; the   *)
(* reader can be interrupted between any two of its accesses.              *)
(***************************************************************************)
EXTENDS Integers, Sequences

CONSTANTS
    BufferSize,  \* KEYBOARD_BUFFER_SIZE
    Letters,     \* keys whose character has a lower and an upper case
    Others,      \* keys whose character has one form: Enter, backspace, space
    Nul,         \* the zero character the buffer starts with
    Backlog      \* the most characters typed ahead of the reader

ASSUME BufferAssumption ==
    /\ BufferSize \in Nat /\ BufferSize > 1
    /\ Backlog \in Nat
    /\ Letters \cap Others = {}

Char == [key : Letters \union Others, upper : BOOLEAN]
Cell == Char \union {Nul}

VARIABLES
    leftShift,   \* _leftShift
    rightShift,  \* _rightShift
    capsLock,    \* _capsLock
    buffer,      \* _buffer
    writeIndex,  \* _writeIndex
    readIndex,   \* _readIndex
    reader,      \* the reader: "idle", "fetched" (in getFromQueue), "reset" (in reset)
    fetched,     \* getFromQueue's ch
    held         \* the shift keys held down, as the user knows it

modifiers == <<leftShift, rightShift, capsLock>>
ring == <<buffer, writeIndex, readIndex>>
vars == <<modifiers, ring, reader, fetched, held>>

\* An index one further; the last cell of the buffer is never used.
AdvanceLate(i) == IF i >= BufferSize THEN 0 ELSE i + 1
Advance(i) == IF i + 1 >= BufferSize - 1 THEN 0 ELSE i + 1

Init ==
    /\ leftShift = FALSE /\ rightShift = FALSE /\ capsLock = FALSE
    /\ buffer = [i \in 0..(BufferSize - 1) |-> Nul]
    /\ writeIndex = 0 /\ readIndex = 0
    /\ reader = "idle"
    /\ fetched = Nul
    /\ held = {}

---------------------------------------------------------------------------
(* What is in the ring.                                                    *)

\* During reset the old characters are gone already.
First == IF reader = "reset" THEN 0 ELSE readIndex

Count == IF writeIndex >= First THEN writeIndex - First
         ELSE writeIndex - First + (BufferSize - 1)

At(k) == IF First + k >= BufferSize - 1 THEN First + k - (BufferSize - 1) ELSE First + k

Unread == [k \in 1..Count |-> buffer[At(k - 1)]]

---------------------------------------------------------------------------
(* The interrupt handler.                                                  *)

\* translateScanCode.
Translate(k) ==
    [key |-> k, upper |-> k \in Letters /\ (leftShift \/ rightShift \/ capsLock)]

ShiftKeyLatches(side, down) ==
    /\ held' = IF down THEN held \union {side} ELSE held \ {side}
    /\ leftShift' = (leftShift \/ (side = "left" /\ down))
    /\ rightShift' = (rightShift \/ (side = "right" /\ down))
    /\ UNCHANGED <<capsLock, ring, reader, fetched>>

\* checkSpecialChar: the make and break codes of the shift keys, and caps lock.
ShiftKey(side, down) ==
    /\ held' = IF down THEN held \union {side} ELSE held \ {side}
    /\ leftShift' = IF side = "left" THEN down ELSE leftShift
    /\ rightShift' = IF side = "right" THEN down ELSE rightShift
    /\ UNCHANGED <<capsLock, ring, reader, fetched>>

CapsLockKey ==
    /\ capsLock' = ~capsLock
    /\ UNCHANGED <<leftShift, rightShift, ring, reader, fetched, held>>

\* sendToQueue.  Nothing in it compares the indices: Backlog bounds the typist.
SendToQueue(k) ==
    /\ Count < Backlog
    /\ buffer' = [buffer EXCEPT ![writeIndex] = Translate(k)]
    /\ writeIndex' = Advance(writeIndex)
    /\ UNCHANGED <<modifiers, readIndex, reader, fetched, held>>

---------------------------------------------------------------------------
(* The reader.                                                             *)

HasBeenPressedAhead == writeIndex > readIndex

\* hasBeenPressed.
HasBeenPressed == writeIndex # readIndex

\* getFromQueue reads the character and then moves the index.
Fetch ==
    /\ reader = "idle"
    /\ HasBeenPressed
    /\ fetched' = buffer[readIndex]
    /\ reader' = "fetched"
    /\ UNCHANGED <<modifiers, ring, held>>

GetSkipsCell ==
    /\ reader = "fetched"
    /\ readIndex' = Advance(Advance(readIndex))
    /\ reader' = "idle"
    /\ UNCHANGED <<modifiers, buffer, writeIndex, fetched, held>>

GetFromQueue ==
    /\ reader = "fetched"
    /\ readIndex' = Advance(readIndex)
    /\ reader' = "idle"
    /\ UNCHANGED <<modifiers, buffer, writeIndex, fetched, held>>

\* reset clears the modifiers and the write index, and at last the read index.
ResetKeepsWriteIndex ==
    /\ reader = "idle"
    /\ leftShift' = FALSE /\ rightShift' = FALSE /\ capsLock' = FALSE
    /\ reader' = "reset"
    /\ UNCHANGED <<ring, fetched, held>>

Reset ==
    /\ reader = "idle"
    /\ leftShift' = FALSE /\ rightShift' = FALSE /\ capsLock' = FALSE
    /\ writeIndex' = 0
    /\ reader' = "reset"
    /\ UNCHANGED <<buffer, readIndex, fetched, held>>

ResetEnds ==
    /\ reader = "reset"
    /\ readIndex' = 0
    /\ reader' = "idle"
    /\ UNCHANGED <<modifiers, buffer, writeIndex, fetched, held>>

---------------------------------------------------------------------------
Next ==
    \/ \E side \in {"left", "right"}, down \in BOOLEAN : ShiftKey(side, down)
    \/ CapsLockKey
    \/ \E k \in Letters \union Others : SendToQueue(k)
    \/ Fetch
    \/ GetFromQueue
    \/ Reset
    \/ ResetEnds

Spec == Init /\ [][Next]_vars

---------------------------------------------------------------------------
TypeOK ==
    /\ leftShift \in BOOLEAN /\ rightShift \in BOOLEAN /\ capsLock \in BOOLEAN
    /\ buffer \in [0..(BufferSize - 1) -> Cell]
    /\ writeIndex \in 0..(BufferSize - 2) /\ readIndex \in 0..(BufferSize - 2)
    /\ reader \in {"idle", "fetched", "reset"}
    /\ fetched \in Cell
    /\ held \subseteq {"left", "right"}

(***************************************************************************)
(* The inductive invariant: the unread cells hold typed characters, no     *)
(* more of them than Backlog, and the character on its way to the reader   *)
(* is still the first of them.                                             *)
(***************************************************************************)
IInv ==
    /\ TypeOK
    /\ Count <= Backlog
    /\ \A k \in 0..(Count - 1) : buffer[At(k)] \in Char
    /\ reader = "fetched" => Count > 0 /\ fetched = buffer[readIndex]

(***************************************************************************)
(* The ring is a first-in first-out queue: no character is lost, doubled   *)
(* or overtaken, with the handler running between any two accesses of the  *)
(* reader.  It holds while fewer than BufferSize - 1 characters are unread.*)
(***************************************************************************)
Fifo == INSTANCE InputQueue WITH unread <- Unread
ImplementsInputQueue == Fifo!Spec

(***************************************************************************)
(* No shift key is stuck: the driver believes a shift key down only while  *)
(* it is held, although reset() forgets a key between its make and break   *)
(* codes.  The converse fails: a key held across reset() is forgotten.     *)
(***************************************************************************)
NoStuckShift ==
    /\ leftShift => "left" \in held
    /\ rightShift => "right" \in held
============================================================================
