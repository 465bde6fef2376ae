\* The blocks in use reach the bits that deleteInode clears (the real disk has
\* 1029 blocks before the data instead of 5).
CONSTANTS
    u = u
    v = v
    Zero = Zero
    NumInodes = 7
    HeapBit = {}
    NumBlocks = 10
    DataStart = 5
    NumPtrs = 2
    BlockUnits = 4
    Names = {"a", "ab"}
    Begins <- MCBegins
    HomeDir = "a"
    SubDirs <- MCSubDirs
    Hello = "hello"
    HelloText <- MCHelloText
    Texts <- MCTexts
    CrashIn = {}
    MaxBlocks = 9
SPECIFICATION Spec
INVARIANT BlocksOwned
