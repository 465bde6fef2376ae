\* Two inodes and two blocks more than createFS uses; no deletion brings a block
\* back (RevBlockOffset lies beyond those in use), so MaxBlocks ends a run.
CONSTANTS
    u = u
    v = v
    Zero = Zero
    NumInodes = 7
    HeapBit = {}
    NumBlocks = 10
    DataStart = 20
    NumPtrs = 3
    BlockUnits = 4
    Names = {"a", "ab"}
    Begins <- MCBegins
    HomeDir = "a"
    SubDirs <- MCSubDirs
    Hello = "hello"
    HelloText <- MCHelloText
    Texts <- MCTexts
    CrashIn = {"touch", "mkdir", "write", "append"}
    MaxBlocks = 6
SPECIFICATION Spec
VIEW View
INVARIANTS
    EntriesLive
    DotsTrue
    BlocksOwned
    ListIsDisk
    PathLeads
PROPERTIES
    TextArrives
    ImplementsFileTree
