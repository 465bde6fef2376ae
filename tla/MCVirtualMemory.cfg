\* Four frames are free after boot, two processes want two each, and two pages
\* may be faulted in: frames run out.
CONSTANTS
    p1 = p1
    p2 = p2
    Procs = {p1, p2}
    Kernel = Kernel
    Available = 6
    CounterLimit = 16
    PageSize = 4
    KernelEnd = 10
    BitmapFrames = {1}
    Reserved = {1, 2, 3, 9}
    FbPage = 12
    FbLength = 4
    ProcPages = {4, 5}
    StackTop = 4
    FaultPages = {5, 6}
SPECIFICATION Spec
SYMMETRY Symmetry
INVARIANTS
    FramesOwned
    LockedIsOwned
    IdentityKept
    CountersTrue
