------------------------------- MODULE Screen -------------------------------
(***************************************************************************)
(* One task that prints (screen.cpp) and the timer interrupt, which blinks *)
(* the cursor (PIT_InputHandler) whenever _is_printing is down.  showCursor*)
(* and clearCursor take the flag down inside putcCurserPSF2, so a blink may*)
(* fall between almost any two steps of it.  Pixels are kept as the last   *)
(* rectangle drawn; colours and glyphs are left out.                       *)
(***************************************************************************)
EXTENDS Integers

CONSTANTS
    Width, Height,      \* of the framebuffer, whose pitch is Width pixels
    FontWidth, FontHeight,
    Erasable,           \* bound: how many glyphs a backspace may follow
    EraseTopLine        \* whether a backspace may leave the top line

CURSER_PADDING == 16
Right == Width - (CURSER_PADDING + FontWidth)
Bottom == Height - (CURSER_PADDING + FontHeight)

ASSUME ScreenAssumption ==
    /\ Width \in Nat /\ Height \in Nat
    /\ FontWidth \in Nat \ {0} /\ FontHeight \in Nat \ {0}
    /\ Right > CURSER_PADDING /\ Bottom > CURSER_PADDING
    /\ Erasable \in Nat /\ EraseTopLine \in BOOLEAN

\* The font is not higher than the padding and, if it were as high, no line
\* would begin one row above the bottom: a blink just before curserCheckBounds
\* would clear one row too many.  The font is 16 rows high, as the padding is.
ASSUME FontAssumption ==
    /\ FontHeight <= CURSER_PADDING
    /\ \A l \in 0..Height : CURSER_PADDING + l * FontHeight # Bottom - 1

VARIABLES
    pos,        \* _curserPos
    shown,      \* _cursorShow
    printing,   \* _is_printing
    width,      \* _curosr_width
    pc, op,     \* where the task is, in which operation
    back,       \* where curserCheckBounds or cls returns to
    typed,      \* glyphs the shell may erase; -1 until there is a prompt
    drawn       \* the last rectangle of pixels: corners left, top, right, bottom

vars == <<pos, shown, printing, width, pc, op, back, typed, drawn>>

Home == [x |-> CURSER_PADDING, y |-> CURSER_PADDING]
Rect(x, y, w, h) == [left |-> x, top |-> y, right |-> x + w - 1, bottom |-> y + h - 1]
WholeScreen == Rect(0, 0, Width, Height)

\* clearScreen of initializeScreen has run.
Init ==
    /\ pos = Home /\ shown = FALSE /\ printing = FALSE /\ width = 7
    /\ pc = "idle" /\ op = "cls" /\ back = "idle" /\ typed = -1 /\ drawn = WholeScreen

ShowRect(p, w) == Rect(p.x + 1, p.y - 1, w, FontHeight + 2)
ClearRect(p, w) == Rect(p.x + 1, p.y - 2, w, FontHeight + 4)

\* The shell erases what was typed after the prompt of this line, nothing else.
Typed(c) ==
    CASE c = "backspace" -> typed - 1
      [] c = "newline" -> -1
      [] OTHER -> IF typed < Erasable THEN typed + 1 ELSE typed

\* putcCurserPSF2 raises the flag and then looks whether the cursor is shown.
Putc(c) ==
    /\ pc = "idle"
    /\ c = "backspace" =>
        typed > 0 /\ (EraseTopLine \/ pos.x > CURSER_PADDING + FontWidth \/ pos.y > CURSER_PADDING)
    /\ typed' = Typed(c)
    /\ op' = c /\ printing' = TRUE
    /\ pc' = IF shown THEN "hide" ELSE c
    /\ UNCHANGED <<pos, shown, width, back, drawn>>

\* curwide: setCursorWidth between a clearCursor and a showCursor.
SetCursorWidth ==
    /\ pc = "idle"
    /\ op' = "curwide"
    /\ pc' = IF shown THEN "hide" ELSE "curwide"
    /\ UNCHANGED <<pos, shown, printing, width, typed, back, drawn>>

\* clear and setbg.
Cls ==
    /\ pc = "idle"
    /\ op' = "cls" /\ printing' = TRUE /\ pc' = "clear" /\ back' = "idle" /\ typed' = -1
    /\ UNCHANGED <<pos, shown, width, drawn>>

\* clearCursor: the flag is up while it draws and down when it returns.
Hide ==
    /\ pc = "hide" /\ pc' = op
    /\ drawn' = ClearRect(pos, width)
    /\ shown' = FALSE /\ printing' = FALSE
    /\ UNCHANGED <<pos, width, op, back, typed>>

\* curserAdd calls curserCheckBounds, which returns to l.
CurserAdd(dx, dy, l) ==
    /\ pos' = [x |-> pos.x + dx, y |-> pos.y + dy]
    /\ pc' = "check" /\ back' = l

NewLine ==
    /\ pc = "newline" /\ CurserAdd(CURSER_PADDING - pos.x, FontHeight, "show")
    /\ UNCHANGED <<shown, printing, width, op, typed, drawn>>

Tab ==
    /\ pc = "tab" /\ CurserAdd(4 * FontWidth, 0, "show")
    /\ UNCHANGED <<shown, printing, width, op, typed, drawn>>

\* Every pixel of a glyph is preceded by curserCheckBounds; from the second on
\* it finds nothing to do.
StartGlyph ==
    /\ pc = "glyph" /\ CurserAdd(0, 0, "pixels")
    /\ UNCHANGED <<shown, printing, width, op, typed, drawn>>

Glyph ==
    /\ pc = "pixels" /\ pc' = "advance"
    /\ drawn' = Rect(pos.x, pos.y, FontWidth, FontHeight)
    /\ UNCHANGED <<pos, shown, printing, width, op, back, typed>>

Advance ==
    /\ pc = "advance" /\ CurserAdd(FontWidth, 0, "show")
    /\ UNCHANGED <<shown, printing, width, op, typed, drawn>>

\* clearLastPixels when one of the columns to erase is that of the padding or
\* left of it: the cursor goes up a line, unchecked, and the flag stays up.
EraseAtMargin ==
    /\ pc = "backspace" /\ pc' = "show"
    /\ pos.x - FontWidth <= CURSER_PADDING
    /\ pos' = [x |-> Width - CURSER_PADDING - 1, y |-> pos.y - FontHeight]
    /\ drawn' = Rect(CURSER_PADDING + 1, pos.y, pos.x - 1 - CURSER_PADDING, FontHeight)
    /\ printing' = TRUE
    /\ UNCHANGED <<shown, width, op, back, typed>>

Erase ==
    /\ pc = "backspace"
    /\ pos.x - FontWidth > CURSER_PADDING
    /\ drawn' = Rect(pos.x - FontWidth, pos.y, FontWidth, FontHeight)
    /\ printing' = TRUE
    /\ CurserAdd(-FontWidth, 0, "erased")
    /\ UNCHANGED <<shown, width, op, typed>>

Erased ==
    /\ pc = "erased" /\ pc' = "show"
    /\ printing' = FALSE
    /\ UNCHANGED <<pos, shown, width, op, back, typed, drawn>>

\* Mutant: one step too late.
BeyondLate(n, limit) == n < 0 \/ n > limit

\* A coordinate is unsigned: a negative one is beyond every limit.
Beyond(n, limit) == n < 0 \/ n >= limit

\* The first half of curserCheckBounds.
WithinColumns(p) ==
    IF Beyond(p.x, Right) THEN [x |-> CURSER_PADDING, y |-> p.y + FontHeight]
    ELSE IF p.x <= CURSER_PADDING THEN [p EXCEPT !.x = CURSER_PADDING]
    ELSE p

\* The second half; a cursor below the bottom clears the screen.
CheckBounds ==
    /\ pc = "check"
    /\ LET p == WithinColumns(pos)
       IN  \/ /\ Beyond(p.y, Bottom)
              /\ pos' = p /\ printing' = TRUE /\ pc' = "clear"
           \/ /\ ~Beyond(p.y, Bottom)
              /\ pos' = [p EXCEPT !.y = IF @ < CURSER_PADDING THEN CURSER_PADDING ELSE @]
              /\ printing' = printing /\ pc' = back
    /\ UNCHANGED <<shown, width, op, back, typed, drawn>>

\* Mutant: the flag stays up.
ClearScreenKeepsFlag ==
    /\ pc = "clear" /\ pc' = "home"
    /\ drawn' = WholeScreen
    /\ UNCHANGED <<pos, shown, printing, width, op, back, typed>>

\* The loop of clearScreen, which takes the flag down before it moves the
\* cursor home; it leaves _cursorShow as it is.
ClearScreen ==
    /\ pc = "clear" /\ pc' = "home"
    /\ drawn' = WholeScreen /\ printing' = FALSE
    /\ UNCHANGED <<pos, shown, width, op, back, typed>>

GoHome ==
    /\ pc = "home" /\ pc' = back
    /\ pos' = Home
    /\ UNCHANGED <<shown, printing, width, op, back, typed, drawn>>

WidthSet ==
    /\ pc = "curwide" /\ pc' = "show"
    /\ width' = IF width > 1 THEN 1 ELSE 7
    /\ UNCHANGED <<pos, shown, printing, op, back, typed, drawn>>

AfterShow == IF op = "curwide" THEN "idle" ELSE "end"

\* showCursor does nothing when a blink was faster.
ShowReturns ==
    /\ pc = "show" /\ shown /\ pc' = AfterShow
    /\ UNCHANGED <<pos, shown, printing, width, op, back, typed, drawn>>

Show ==
    /\ pc = "show" /\ ~shown /\ pc' = AfterShow
    /\ drawn' = ShowRect(pos, width)
    /\ shown' = TRUE /\ printing' = FALSE
    /\ UNCHANGED <<pos, width, op, back, typed>>

\* Mutant: the flag is left to showCursor.
EndKeepsFlag ==
    /\ pc = "end" /\ pc' = "idle"
    /\ UNCHANGED <<pos, shown, printing, width, op, back, typed, drawn>>

\* The end of putcCurserPSF2.
End ==
    /\ pc = "end" /\ pc' = "idle"
    /\ printing' = FALSE
    /\ UNCHANGED <<pos, shown, width, op, back, typed, drawn>>

\* Every CURSOR_BLINK_TIME milliseconds, between any two instructions.
Blink ==
    /\ ~printing
    /\ drawn' = IF shown THEN ClearRect(pos, width) ELSE ShowRect(pos, width)
    /\ shown' = ~shown
    /\ UNCHANGED <<pos, printing, width, pc, op, back, typed>>

\* The task goes on with what it has begun.
Step ==
    \/ Hide \/ NewLine \/ Tab \/ StartGlyph \/ Glyph \/ Advance \/ EraseAtMargin \/ Erase
    \/ Erased \/ CheckBounds \/ ClearScreen \/ GoHome \/ WidthSet \/ ShowReturns \/ Show \/ End

Next ==
    \/ \E c \in {"newline", "tab", "backspace", "glyph"} : Putc(c)
    \/ SetCursorWidth \/ Cls \/ Step \/ Blink

\* The scheduler comes back to every task, and the timer never stops.
Spec == Init /\ [][Next]_vars /\ WF_vars(Step) /\ WF_vars(Blink)

----------------------------------------------------------------------------
\* No pixel is written outside the framebuffer, not even by a blink that falls
\* between a move of the cursor and its curserCheckBounds (drawPixel checks
\* nothing; a column too far only wraps to the next line).
PixelsInFramebuffer ==
    /\ drawn.top * Width + drawn.left >= 0
    /\ drawn.bottom * Width + drawn.right < Width * Height

\* When the task is not printing the cursor is inside the padding, and nothing
\* holds it off any more (every path of putcCurserPSF2, clearScreen and
\* setCursorWidth, whatever blinks they were cut by).
RestsInBounds ==
    pc = "idle" =>
        /\ ~printing
        /\ pos.x \in CURSER_PADDING..(Width - CURSER_PADDING - 1)
        /\ pos.y \in CURSER_PADDING..(Bottom - 1)

\* Once nobody prints any more the cursor goes on blinking.
CursorBlinks == <>[](pc = "idle") => []<>shown /\ []<>~shown
=============================================================================
