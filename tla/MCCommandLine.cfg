\* Lines of two characters at most, five keys for one prompt.
CONSTANTS
    BufferSize = 4
    Letters = {a}
    Nul = Nul
    Others = {enter, backspace}
    Newline = enter
    Backspace = backspace
    Backlog = 2
    InputSize = 3
    MaxTyped = 5
SPECIFICATION FairShell
INVARIANTS
    IInv
    NoStuckShift
    LineIsEdited
PROPERTIES
    ImplementsInputQueue
    NothingDropped
    EnterReturns
