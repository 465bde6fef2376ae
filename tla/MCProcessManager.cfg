\* Two priorities, three processes, every process can be killed.
CONSTANTS
    p1 = p1
    p2 = p2
    p3 = p3
    Kernel = Kernel
    NoTask = NoTask
    Tasks = {p1, p2, p3}
    Priorities = {"HIGH", "LOW"}
    KillIds = {p1, p2, p3}
SPECIFICATION Spec
SYMMETRY Symmetry
INVARIANTS
    IInv
    ListsDisjoint
    AllocatedIsListed
    OneRunning
    NoFault
PROPERTIES
    FreedOnlyByKernel
