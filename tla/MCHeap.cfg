\* malloc and free of blocks of one word and more, with cuts before, between and
\* behind them: a block of 17 words is long enough to be cut once it is free.
CONSTANTS
    Words = 30
    Sizes = {1, 2, 17}
    AlignedSizes = {2, 3}
    Alignments = {8}
    UnsafeFrees = FALSE
SPECIFICATION Spec
VIEW View
INVARIANTS
    BlocksTile
    TagsAgree
    DataUntouched
    Coalesced
    CountersTrue
