\* A killed HIGH process and the switch away from a task that returned.
CONSTANTS
    p1 = p1
    p2 = p2
    p3 = p3
    Kernel = Kernel
    NoTask = NoTask
    Tasks = {p1, p2}
    Priorities = {"HIGH", "LOW"}
    KillIds = {p1, p2}
SPECIFICATION FairSpec
PROPERTY DeadStaysDead
