\* The processes of the shell: exec starts them with LOW priority.
CONSTANTS
    p1 = p1
    p2 = p2
    p3 = p3
    Kernel = Kernel
    NoTask = NoTask
    Tasks = {p1, p2, p3}
    Priorities = {"LOW"}
    KillIds = {p1, p2, p3}
SPECIFICATION FairSpec
PROPERTIES
    DeadStaysDead
    LowNeverTwice
    StartedRuns
    DeadIsReaped
    KernelRuns
