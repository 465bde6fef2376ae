\* Seven columns and four lines of 8x16 glyphs.
CONSTANTS
    Width = 96
    Height = 112
    FontWidth = 8
    FontHeight = 16
    Erasable = 2
    EraseTopLine = FALSE
SPECIFICATION Spec
INVARIANTS
    PixelsInFramebuffer
    RestsInBounds
PROPERTIES
    CursorBlinks
