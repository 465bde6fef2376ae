---------------------------- MODULE Screen_proofs ----------------------------
(***************************************************************************)
(* For any screen and any font that fits the padding: no blink and no step *)
(* of printing draws outside the framebuffer, and the cursor comes to rest *)
(* inside the padding.                                                     *)
(***************************************************************************)
EXTENDS Screen, TLAPS

Chars == {"newline", "tab", "backspace", "glyph"}

\* The cursor is at the top of a line of text.
Line(y) == \E l \in Nat : y = CURSER_PADDING + l * FontHeight

Columns == CURSER_PADDING..(Width - CURSER_PADDING - 1)

\* One line below the last, where a newline or a full line leaves it.
BelowLast(p) == p.x = CURSER_PADDING /\ p.y < Bottom + FontHeight

TypeOK ==
    /\ pos \in [x : Int, y : Int]
    /\ shown \in BOOLEAN /\ printing \in BOOLEAN
    /\ width \in {1, 7}
    /\ pc \in Chars \union {"idle", "hide", "curwide", "clear", "check", "pixels",
                            "advance", "erased", "show", "home", "end"}
    /\ op \in Chars \union {"cls", "curwide"}
    /\ back \in {"idle", "show", "pixels", "erased"}
    /\ drawn \in [left : Int, top : Int, right : Int, bottom : Int]

\* Where the cursor is while the task is at pc.
CursorAt ==
    /\ Line(pos.y)
    /\ pos.x >= CURSER_PADDING
    /\ pc = "check" =>
        \/ pos.x < Width - CURSER_PADDING + 4 * FontWidth /\ pos.y < Bottom
        \/ BelowLast(pos)
    /\ pc \in {"clear", "home"} => pos.x \in Columns /\ (pos.y < Bottom \/ BelowLast(pos))
    /\ pc \in {"pixels", "advance"} => pos.x < Right
    /\ pc \notin {"check", "clear", "home"} => pos.x \in Columns /\ pos.y < Bottom

\* Where the flag is down, and who still works with it up.
FlagAt ==
    /\ pc \in {"idle", "home"} => printing = FALSE
    /\ op = "curwide" => pc \in {"idle", "hide", "curwide", "show"} /\ printing = FALSE
    /\ op = "cls" => pc \in {"idle", "clear", "home"} /\ back = "idle"
    /\ pc = "check" => back # "idle"
    /\ pc = "hide" => op \in Chars \union {"curwide"}

\* A backspace that goes up a line has one above it.
LineAbove ==
    (pc = "backspace" \/ (pc = "hide" /\ op = "backspace")) =>
        pos.x > CURSER_PADDING + FontWidth \/ pos.y > CURSER_PADDING

Inside(d) ==
    /\ d.top * Width + d.left >= 0
    /\ d.bottom * Width + d.right < Width * Height

IInv == TypeOK /\ CursorAt /\ FlagAt /\ LineAbove /\ Inside(drawn)

----------------------------------------------------------------------------
\* Lines and rectangles.

LEMMA RowsGrow ==
    ASSUME NEW a \in Int, NEW b \in Int, NEW n \in Nat, a <= b
    PROVE  a * n <= b * n
<1>1. (b - a) * n >= 0  OBVIOUS
<1> QED  BY <1>1

LEMMA LineBelow ==
    ASSUME NEW y \in Int, Line(y)
    PROVE  Line(y + FontHeight) /\ y >= CURSER_PADDING
<1> USE ScreenAssumption DEF CURSER_PADDING
<1>1. PICK l \in Nat : y = CURSER_PADDING + l * FontHeight  BY DEF Line
<1>2. (l + 1) * FontHeight = l * FontHeight + FontHeight  BY <1>1
<1>3. l * FontHeight >= 0  BY RowsGrow, <1>1
<1>4. y + FontHeight = CURSER_PADDING + (l + 1) * FontHeight  BY <1>1, <1>2
<1> QED  BY <1>1, <1>3, <1>4 DEF Line

LEMMA LineBefore ==
    ASSUME NEW y \in Int, Line(y), y > CURSER_PADDING
    PROVE  \E l \in Nat : y = CURSER_PADDING + (l + 1) * FontHeight
                          /\ y - FontHeight = CURSER_PADDING + l * FontHeight
<1> USE ScreenAssumption DEF CURSER_PADDING
<1>1. PICK l \in Nat : y = CURSER_PADDING + l * FontHeight  BY DEF Line
<1>2. l # 0  BY <1>1
<1>3. l - 1 \in Nat /\ (l - 1) + 1 = l  BY <1>2
<1>4. (l - 1) * FontHeight = l * FontHeight - FontHeight  BY <1>1
<1> QED  BY <1>1, <1>3, <1>4

\* A line begins so that even the blink's two rows more stay on the screen.
LEMMA LastLine ==
    ASSUME NEW y \in Int, Line(y), y < Bottom + FontHeight
    PROVE  y + FontHeight + 1 < Height
<1> USE ScreenAssumption, FontAssumption DEF CURSER_PADDING, Bottom
<1>1. SUFFICES ASSUME y + FontHeight + 1 >= Height  PROVE FALSE
  BY SMT
<1>2. FontHeight = CURSER_PADDING /\ y - FontHeight = Bottom - 1 /\ y > CURSER_PADDING
  BY <1>1, SMT
<1>3. PICK l \in Nat : y - FontHeight = CURSER_PADDING + l * FontHeight
  BY <1>2, LineBefore
<1>4. l <= l * FontHeight  BY RowsGrow
<1>5. l \in 0..Height  BY <1>2, <1>3, <1>4
<1> QED  BY <1>2, <1>3, <1>5

\* A rectangle may run over the right edge if there are rows enough below it.
LEMMA RectangleFits ==
    ASSUME NEW d \in [left : Int, top : Int, right : Int, bottom : Int],
           d.left >= 0, d.top >= 0,
           \/ d.bottom <= Height - 1 /\ d.right < Width
           \/ d.bottom <= Height - 16 /\ d.right < 16 * Width
    PROVE  Inside(d)
<1> USE ScreenAssumption DEF CURSER_PADDING
<1>1. d.top * Width >= 0
  BY RowsGrow
<1>2. CASE d.bottom <= Height - 1 /\ d.right < Width
  <2>1. d.bottom * Width <= (Height - 1) * Width  BY <1>2, RowsGrow
  <2>2. (Height - 1) * Width = Width * Height - Width  OBVIOUS
  <2> QED  BY <1>1, <1>2, <2>1, <2>2 DEF Inside
<1>3. CASE d.bottom <= Height - 16 /\ d.right < 16 * Width
  <2>1. d.bottom * Width <= (Height - 16) * Width  BY <1>3, RowsGrow
  <2>2. (Height - 16) * Width = Width * Height - 16 * Width  OBVIOUS
  <2> QED  BY <1>1, <1>3, <2>1, <2>2 DEF Inside
<1> QED  BY <1>2, <1>3

\* Wherever the cursor is when a blink comes, it is drawn inside.
LEMMA CursorFits ==
    ASSUME TypeOK, CursorAt
    PROVE  Inside(ShowRect(pos, width)) /\ Inside(ClearRect(pos, width))
<1> USE ScreenAssumption, FontAssumption DEF CURSER_PADDING
<1> DEFINE s == ShowRect(pos, width)
           c == ClearRect(pos, width)
<1>1. pos.x \in Int /\ pos.y \in Int /\ width \in 1..7
  BY DEF TypeOK
<1>2. pos.x >= CURSER_PADDING /\ pos.y >= CURSER_PADDING
  BY <1>1, LineBelow DEF CursorAt
<1>3. \/ pos.x < Width - CURSER_PADDING + 4 * FontWidth /\ pos.y < Bottom
      \/ BelowLast(pos)
  BY <1>1 DEF CursorAt, Columns
<1>4. /\ s = [left |-> pos.x + 1, top |-> pos.y - 1,
              right |-> pos.x + width, bottom |-> pos.y + FontHeight]
      /\ c = [left |-> pos.x + 1, top |-> pos.y - 2,
              right |-> pos.x + width, bottom |-> pos.y + FontHeight + 1]
  BY <1>1 DEF ShowRect, ClearRect, Rect
<1>5. CASE pos.x < Width - CURSER_PADDING + 4 * FontWidth /\ pos.y < Bottom
  <2>1. pos.y + FontHeight + 1 <= Height - 16  BY <1>1, <1>5 DEF Bottom
  <2>2. pos.x + width < 16 * Width  BY <1>1, <1>5 DEF Right
  <2> QED  BY <1>1, <1>2, <1>4, <2>1, <2>2, RectangleFits
<1>6. CASE BelowLast(pos)
  <2>1. pos.y + FontHeight + 1 <= Height - 1
    BY <1>1, <1>6, LastLine DEF CursorAt, BelowLast
  <2>2. pos.x + width < Width  BY <1>1, <1>6 DEF Right, BelowLast
  <2> QED  BY <1>1, <1>2, <1>4, <2>1, <2>2, RectangleFits
<1> QED  BY <1>3, <1>5, <1>6

----------------------------------------------------------------------------
\* The invariant.

LEMMA InitHolds == Init => IInv
<1> USE ScreenAssumption DEF CURSER_PADDING
<1> SUFFICES ASSUME Init  PROVE IInv
  OBVIOUS
<1>1. drawn = [left |-> 0, top |-> 0, right |-> Width - 1, bottom |-> Height - 1]
  BY DEF Init, WholeScreen, Rect
<1>2. TypeOK /\ FlagAt /\ LineAbove
  <2>1. TypeOK
    <3>1. pos \in [x : Int, y : Int]  BY DEF Init, Home
    <3>2. drawn \in [left : Int, top : Int, right : Int, bottom : Int]  BY <1>1
    <3> QED  BY <3>1, <3>2 DEF Init, TypeOK
  <2>2. FlagAt
    BY DEF Init, FlagAt
  <2>3. LineAbove
    BY DEF Init, LineAbove
  <2> QED  BY <2>1, <2>2, <2>3
<1>3. Line(CURSER_PADDING)
  <2>1. CURSER_PADDING = CURSER_PADDING + 0 * FontHeight  OBVIOUS
  <2> QED  BY <2>1 DEF Line
<1>4. CursorAt
  BY <1>3 DEF Init, CursorAt, Home, Columns, Right, Bottom
<1>5. Inside(drawn)
  BY <1>1, <1>2, RectangleFits DEF TypeOK, Right, Bottom
<1> QED  BY <1>2, <1>4, <1>5 DEF IInv

\* Starting: the flag goes up, the cursor stays.
LEMMA PutcKeeps ==
    ASSUME IInv, EraseTopLine = FALSE, NEW c \in Chars, Putc(c)
    PROVE  IInv'
<1>1. TypeOK' /\ FlagAt' /\ LineAbove'
  <2>1. TypeOK'
    BY DEF IInv, TypeOK, Putc, Chars
  <2>2. FlagAt'
    BY DEF IInv, FlagAt, Putc, Chars
  <2>3. LineAbove'
    BY DEF IInv, LineAbove, Putc, Chars
  <2> QED  BY <2>1, <2>2, <2>3
<1>2. CursorAt'
  BY DEF IInv, TypeOK, CursorAt, Putc, Chars, Line, BelowLast, Columns
<1> QED  BY <1>1, <1>2 DEF IInv, Putc, Inside

LEMMA BeginKeeps ==
    ASSUME IInv, SetCursorWidth \/ Cls
    PROVE  IInv'
<1>1. TypeOK' /\ FlagAt' /\ LineAbove'
  <2>1. TypeOK'
    BY DEF IInv, TypeOK, SetCursorWidth, Cls, Chars
  <2>2. FlagAt'
    BY DEF IInv, FlagAt, SetCursorWidth, Cls, Chars
  <2>3. LineAbove'
    BY DEF IInv, LineAbove, SetCursorWidth, Cls, Chars
  <2> QED  BY <2>1, <2>2, <2>3
<1>2. CursorAt'
  BY DEF IInv, TypeOK, CursorAt, SetCursorWidth, Cls, Line, BelowLast, Columns
<1> QED  BY <1>1, <1>2 DEF IInv, SetCursorWidth, Cls, Inside

\* The blink, and the task's own way of showing and hiding the cursor.
LEMMA CursorDrawnKeeps ==
    ASSUME IInv, Blink \/ Hide \/ Show
    PROVE  IInv'
<1> USE DEF IInv
<1>1. drawn' \in {ShowRect(pos, width), ClearRect(pos, width)}
  BY DEF Blink, Hide, Show
<1>2. Inside(drawn')
  BY <1>1, CursorFits
<1>3. drawn' \in [left : Int, top : Int, right : Int, bottom : Int]
  BY <1>1, ScreenAssumption DEF TypeOK, ShowRect, ClearRect, Rect
<1>4. TypeOK' /\ FlagAt' /\ LineAbove'
  <2>1. TypeOK'
    BY <1>3 DEF TypeOK, FlagAt, Blink, Hide, Show, AfterShow, Chars
  <2>2. FlagAt'
    BY DEF FlagAt, Blink, Hide, Show, AfterShow, Chars
  <2>3. LineAbove'
    BY DEF LineAbove, Blink, Hide, Show, AfterShow, Chars
  <2> QED  BY <2>1, <2>2, <2>3
<1>5. CursorAt'
  BY DEF TypeOK, FlagAt, CursorAt, Blink, Hide, Show, AfterShow, Chars, Line, BelowLast, Columns
<1> QED  BY <1>2, <1>4, <1>5

\* Steps that leave cursor and screen alone.
LEMMA FlagStepKeeps ==
    ASSUME IInv, Erased \/ WidthSet \/ ShowReturns \/ End
    PROVE  IInv'
<1> USE DEF Erased, WidthSet, ShowReturns, End, AfterShow
<1>1. TypeOK' /\ FlagAt' /\ LineAbove'
  <2>1. TypeOK'
    BY DEF IInv, TypeOK, Chars
  <2>2. FlagAt'
    BY DEF IInv, FlagAt, Chars
  <2>3. LineAbove'
    BY DEF IInv, LineAbove, Chars
  <2> QED  BY <2>1, <2>2, <2>3
<1>2. CursorAt'
  BY DEF IInv, TypeOK, CursorAt, Line, BelowLast, Columns
<1> QED  BY <1>1, <1>2 DEF IInv, Inside

\* curserAdd: what a move owes to curserCheckBounds.
LEMMA MoveKeeps ==
    ASSUME IInv, NewLine \/ Tab \/ StartGlyph \/ Advance
    PROVE  IInv'
<1> USE ScreenAssumption DEF CURSER_PADDING, IInv, CurserAdd
<1>1. TypeOK'
  BY DEF TypeOK, Chars, NewLine, Tab, StartGlyph, Advance
<1>2. FlagAt'
  BY DEF FlagAt, NewLine, Tab, StartGlyph, Advance
<1>3. LineAbove'
  BY DEF LineAbove, NewLine, Tab, StartGlyph, Advance
<1>4. CursorAt'
  <2>1. CASE NewLine
    <3>1. pos' = [x |-> CURSER_PADDING, y |-> pos.y + FontHeight] /\ pc' = "check"
      BY <2>1 DEF TypeOK, NewLine
    <3>2. pos.y \in Int /\ pos.y < Bottom /\ Line(pos.y)
      BY <2>1 DEF TypeOK, CursorAt, NewLine
    <3>3. Line(pos'.y)
      BY <3>1, <3>2, LineBelow
    <3> QED  BY <3>1, <3>2, <3>3 DEF CursorAt, BelowLast, Bottom
  <2>2. CASE Tab \/ StartGlyph \/ Advance
    <3>1. PICK dx \in 0..(4 * FontWidth) :
            pos' = [x |-> pos.x + dx, y |-> pos.y + 0] /\ pc' = "check"
      BY <2>2 DEF Tab, StartGlyph, Advance
    <3>2. /\ pos.x \in Int /\ pos.y \in Int /\ Line(pos.y)
          /\ pos.x \in Columns /\ pos.y < Bottom
      BY <2>2 DEF TypeOK, CursorAt, Tab, StartGlyph, Advance
    <3>3. pos'.y = pos.y /\ pos'.x >= CURSER_PADDING
          /\ pos'.x < Width - CURSER_PADDING + 4 * FontWidth
      BY <3>1, <3>2 DEF Columns
    <3> QED  BY <3>1, <3>2, <3>3 DEF CursorAt, Line
  <2> QED  BY <2>1, <2>2
<1>5. Inside(drawn)'
  BY DEF Inside, NewLine, Tab, StartGlyph, Advance
<1> QED  BY <1>1, <1>2, <1>3, <1>4, <1>5

LEMMA GlyphKeeps ==
    ASSUME IInv, Glyph
    PROVE  IInv'
<1> USE ScreenAssumption DEF CURSER_PADDING, IInv, Glyph
<1>1. /\ pos.x \in Int /\ pos.y \in Int
      /\ pos.x >= CURSER_PADDING /\ pos.x < Right
      /\ pos.y >= CURSER_PADDING /\ pos.y < Bottom
  BY LineBelow DEF TypeOK, CursorAt
<1>2. drawn' = [left |-> pos.x, top |-> pos.y,
                right |-> pos.x + FontWidth - 1, bottom |-> pos.y + FontHeight - 1]
  BY DEF Rect
<1>3. Inside(drawn')
  BY <1>1, <1>2, RectangleFits DEF Right, Bottom
<1>4. TypeOK'
  BY <1>1, <1>2 DEF TypeOK
<1>5. FlagAt' /\ LineAbove'
  BY DEF FlagAt, LineAbove
<1>6. CursorAt'
  BY DEF CursorAt, Line
<1> QED  BY <1>3, <1>4, <1>5, <1>6

\* The backspace that goes up a line stays below the top, thanks to LineAbove.
LEMMA EraseAtMarginKeeps ==
    ASSUME IInv, EraseAtMargin
    PROVE  IInv'
<1> USE ScreenAssumption DEF CURSER_PADDING, IInv, EraseAtMargin
<1>1. /\ pos.x \in Int /\ pos.y \in Int /\ Line(pos.y)
      /\ pos.x \in Columns /\ pos.x <= CURSER_PADDING + FontWidth
      /\ pos.y > CURSER_PADDING /\ pos.y < Bottom
  BY DEF TypeOK, CursorAt, LineAbove, Columns
<1>2. drawn' = [left |-> CURSER_PADDING + 1, top |-> pos.y,
                right |-> pos.x - 1, bottom |-> pos.y + FontHeight - 1]
  BY <1>1 DEF Rect
<1>3. Inside(drawn')
  BY <1>1, <1>2, RectangleFits DEF Right, Bottom, Columns
<1>4. pos' = [x |-> Width - CURSER_PADDING - 1, y |-> pos.y - FontHeight]
  OBVIOUS
<1>5. TypeOK'
  BY <1>1, <1>2, <1>4 DEF TypeOK
<1>6. FlagAt' /\ LineAbove'
  BY DEF FlagAt, LineAbove
<1>7. Line(pos'.y)
  BY <1>1, <1>4, LineBefore DEF Line
<1>8. CursorAt'
  <2>1. pos'.x \in Columns /\ pos'.y < Bottom /\ pc' = "show"
    BY <1>1, <1>4 DEF Columns, Right, Bottom
  <2> QED  BY <1>7, <2>1 DEF CursorAt, Columns, Line
<1> QED  BY <1>3, <1>5, <1>6, <1>8

LEMMA EraseKeeps ==
    ASSUME IInv, Erase
    PROVE  IInv'
<1> USE ScreenAssumption DEF CURSER_PADDING, IInv, Erase, CurserAdd
<1>1. /\ pos.x \in Int /\ pos.y \in Int /\ Line(pos.y)
      /\ pos.x \in Columns /\ pos.x - FontWidth > CURSER_PADDING
      /\ pos.y >= CURSER_PADDING /\ pos.y < Bottom
  BY LineBelow DEF TypeOK, CursorAt
<1>2. drawn' = [left |-> pos.x - FontWidth, top |-> pos.y,
                right |-> pos.x - 1, bottom |-> pos.y + FontHeight - 1]
  BY <1>1 DEF Rect
<1>3. Inside(drawn')
  BY <1>1, <1>2, RectangleFits DEF Right, Bottom, Columns
<1>4. pos' = [x |-> pos.x - FontWidth, y |-> pos.y]
  BY <1>1
<1>5. TypeOK'
  BY <1>1, <1>2, <1>4 DEF TypeOK
<1>6. FlagAt' /\ LineAbove'
  BY DEF FlagAt, LineAbove
<1>7. CursorAt'
  BY <1>1, <1>4 DEF CursorAt, Columns, Line
<1> QED  BY <1>3, <1>5, <1>6, <1>7

\* curserCheckBounds: within the columns at once, below the last line only on
\* the way to clearScreen.
LEMMA CheckBoundsKeeps ==
    ASSUME IInv, CheckBounds
    PROVE  IInv'
<1> USE ScreenAssumption DEF CURSER_PADDING, IInv
<1> DEFINE p == WithinColumns(pos)
<1>1. /\ pos.x \in Int /\ pos.y \in Int /\ Line(pos.y)
      /\ pos.x >= CURSER_PADDING /\ pos.y >= CURSER_PADDING
      /\ \/ pos.x < Width - CURSER_PADDING + 4 * FontWidth /\ pos.y < Bottom
         \/ BelowLast(pos)
      /\ pos \in [x : Int, y : Int]
  BY LineBelow DEF TypeOK, CursorAt, CheckBounds
<1>2. Right \in Int /\ Bottom \in Int
  BY DEF Right, Bottom
<1>3. /\ p \in [x : Int, y : Int]
      /\ p.x >= CURSER_PADDING /\ p.x < Right /\ p.y >= CURSER_PADDING
      /\ p.y < Bottom \/ BelowLast(p)
      /\ p.y = pos.y \/ p.y = pos.y + FontHeight
  <2>1. CASE pos.x >= Right
    <3>1. p = [x |-> CURSER_PADDING, y |-> pos.y + FontHeight]
      BY <1>1, <1>2, <2>1 DEF WithinColumns, Beyond
    <3> QED  BY <1>1, <1>2, <2>1, <3>1 DEF BelowLast
  <2>2. CASE pos.x < Right
    <3>1. p \in [x : Int, y : Int] /\ p.x = pos.x /\ p.y = pos.y
      BY <1>1, <1>2, <2>2 DEF WithinColumns, Beyond
    <3> HIDE DEF p
    <3> QED  BY <1>1, <1>2, <2>2, <3>1 DEF BelowLast
  <2> QED  BY <1>1, <1>2, <2>1, <2>2
<1> HIDE DEF p
<1>4. Line(p.y)
  BY <1>1, <1>3, LineBelow
<1>5. /\ pos' \in [x : Int, y : Int] /\ pos'.x = p.x /\ pos'.y = p.y
      /\ \/ printing' = TRUE /\ pc' = "clear"
         \/ p.y < Bottom /\ printing' = printing /\ pc' = back
  <2>1. CASE p.y >= Bottom
    BY <1>2, <1>3, <2>1 DEF CheckBounds, Beyond, p
  <2>2. CASE p.y < Bottom
    <3>1. printing' = printing /\ pc' = back
      BY <1>2, <1>3, <2>2 DEF CheckBounds, Beyond, p
    <3>2. pos' = [p EXCEPT !.y = IF @ < CURSER_PADDING THEN CURSER_PADDING ELSE @]
      BY <1>2, <1>3, <2>2 DEF CheckBounds, Beyond, p
    <3>3. pos' \in [x : Int, y : Int] /\ pos'.x = p.x
      BY <1>3, <3>2
    <3>4. pos'.y = IF p.y < CURSER_PADDING THEN CURSER_PADDING ELSE p.y
      BY <1>3, <3>2
    <3>5. pos'.y = p.y
      BY <1>3, <3>4
    <3> QED  BY <2>2, <3>1, <3>3, <3>5
  <2>3. p.y >= Bottom \/ p.y < Bottom
    BY <1>2, <1>3
  <2> QED  BY <2>1, <2>2, <2>3
<1>6. UNCHANGED <<shown, width, op, back, drawn>> /\ pc = "check"
  BY DEF CheckBounds
<1>7. TypeOK'
  <2>1. printing' \in BOOLEAN  BY <1>5 DEF TypeOK
  <2>2. pc' \in {"clear"} \union {"idle", "show", "pixels", "erased"}
    BY <1>5 DEF TypeOK
  <2> QED  BY <1>5, <1>6, <2>1, <2>2 DEF TypeOK
<1>8. FlagAt' /\ LineAbove'
  BY <1>5, <1>6 DEF TypeOK, FlagAt, LineAbove
<1>9. CursorAt'
  <2>1. Line(pos.y)'  BY <1>4, <1>5 DEF Line
  <2>2. p.x \in Columns  BY <1>2, <1>3 DEF Columns, Right
  <2>3. CASE pc' = "clear"
    BY <1>3, <1>5, <2>1, <2>2, <2>3 DEF CursorAt, BelowLast
  <2>4. CASE p.y < Bottom /\ pc' = back
    BY <1>3, <1>5, <1>6, <2>1, <2>2, <2>4 DEF TypeOK, CursorAt
  <2> QED  BY <1>5, <2>3, <2>4
<1>10. Inside(drawn)'
  BY <1>6 DEF Inside
<1> QED  BY <1>7, <1>8, <1>9, <1>10

LEMMA ClearScreenKeeps ==
    ASSUME IInv, ClearScreen
    PROVE  IInv'
<1> USE ScreenAssumption DEF CURSER_PADDING, IInv, ClearScreen
<1>1. drawn' = [left |-> 0, top |-> 0, right |-> Width - 1, bottom |-> Height - 1]
  BY DEF WholeScreen, Rect
<1>2. Inside(drawn')
  BY <1>1, RectangleFits DEF Right, Bottom
<1>3. TypeOK'
  <2>1. drawn' \in [left : Int, top : Int, right : Int, bottom : Int]  BY <1>1
  <2> QED  BY <2>1 DEF TypeOK
<1>4. FlagAt' /\ LineAbove'
  BY DEF FlagAt, LineAbove
<1>5. CursorAt'
  BY DEF CursorAt, Line, BelowLast, Columns
<1> QED  BY <1>2, <1>3, <1>4, <1>5

LEMMA GoHomeKeeps ==
    ASSUME IInv, GoHome
    PROVE  IInv'
<1> USE ScreenAssumption DEF CURSER_PADDING, IInv, GoHome
<1>1. pos' = [x |-> CURSER_PADDING, y |-> CURSER_PADDING]
  BY DEF Home
<1>2. Line(CURSER_PADDING)
  <2>1. CURSER_PADDING = CURSER_PADDING + 0 * FontHeight  OBVIOUS
  <2> QED  BY <2>1 DEF Line
<1>3. TypeOK'
  BY <1>1 DEF TypeOK
<1>4. FlagAt' /\ LineAbove'
  BY DEF TypeOK, FlagAt, LineAbove
<1>5. CursorAt'
  BY <1>1, <1>2 DEF TypeOK, CursorAt, Line, Columns, Right, Bottom
<1>6. Inside(drawn)'
  BY DEF Inside
<1> QED  BY <1>3, <1>4, <1>5, <1>6

LEMMA StepKeeps ==
    ASSUME IInv, EraseTopLine = FALSE, [Next]_vars
    PROVE  IInv'
<1>1. CASE \E c \in Chars : Putc(c)
  BY <1>1, PutcKeeps
<1>2. CASE SetCursorWidth \/ Cls
  BY <1>2, BeginKeeps
<1>3. CASE Blink \/ Hide \/ Show
  BY <1>3, CursorDrawnKeeps
<1>4. CASE Erased \/ WidthSet \/ ShowReturns \/ End
  BY <1>4, FlagStepKeeps
<1>5. CASE NewLine \/ Tab \/ StartGlyph \/ Advance
  BY <1>5, MoveKeeps
<1>6. CASE Glyph
  BY <1>6, GlyphKeeps
<1>7. CASE EraseAtMargin
  BY <1>7, EraseAtMarginKeeps
<1>8. CASE Erase
  BY <1>8, EraseKeeps
<1>9. CASE CheckBounds
  BY <1>9, CheckBoundsKeeps
<1>10. CASE ClearScreen
  BY <1>10, ClearScreenKeeps
<1>11. CASE GoHome
  BY <1>11, GoHomeKeeps
<1>12. CASE UNCHANGED vars
  BY <1>12 DEF vars, IInv, TypeOK, CursorAt, FlagAt, LineAbove, Inside, Line, BelowLast
<1> QED
  BY <1>1, <1>2, <1>3, <1>4, <1>5, <1>6, <1>7, <1>8, <1>9, <1>10, <1>11, <1>12
  DEF Next, Step, Chars

LEMMA Invariance == ASSUME EraseTopLine = FALSE PROVE Spec => []IInv
<1>1. Init => IInv  BY InitHolds
<1>2. IInv /\ [Next]_vars => IInv'  BY StepKeeps
<1> QED  BY <1>1, <1>2, PTL DEF Spec

----------------------------------------------------------------------------
\* As long as no backspace leaves the top line, neither printing nor a blink
\* that cuts it in two writes outside the framebuffer (drawPixel).
THEOREM PixelsStayInside ==
    ASSUME EraseTopLine = FALSE PROVE Spec => []PixelsInFramebuffer
<1>1. IInv => PixelsInFramebuffer  BY DEF IInv, Inside, PixelsInFramebuffer
<1> QED  BY <1>1, Invariance, PTL

\* Whatever blinks cut it, every way through putcCurserPSF2, clearScreen and
\* setCursorWidth ends with the flag down and the cursor within the padding.
THEOREM CursorRestsInBounds ==
    ASSUME EraseTopLine = FALSE PROVE Spec => []RestsInBounds
<1>1. IInv => RestsInBounds
  <2> SUFFICES ASSUME IInv, pc = "idle"
      PROVE  ~printing /\ pos.x \in Columns /\ pos.y \in CURSER_PADDING..(Bottom - 1)
    BY DEF RestsInBounds, Columns
  <2>1. ~printing /\ pos.x \in Columns /\ pos.y \in Int /\ Line(pos.y) /\ pos.y < Bottom
    BY DEF IInv, TypeOK, FlagAt, CursorAt
  <2>2. pos.y >= CURSER_PADDING
    BY <2>1, LineBelow
  <2> QED  BY <2>1, <2>2, ScreenAssumption DEF Bottom, CURSER_PADDING
<1> QED  BY <1>1, Invariance, PTL
==============================================================================
