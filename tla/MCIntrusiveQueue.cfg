CONSTANTS
    Items = {i1, i2, i3, i4}
    Lists = {run, dead}
    Null = Null
SPECIFICATION Spec
INVARIANTS
    SizeIsLength
PROPERTIES
    ImplementsTaskLists
