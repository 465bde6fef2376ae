----------------------------- MODULE FileSystem -----------------------------
(***************************************************************************)
(* The upper half of the file system (fileSystem.cpp) as the shell's       *)
(* commands use it: directories as lists of entries, the current           *)
(* directory with its copy in memory and its path, and a loss of power     *)
(* after any of a command's writes.                                        *)
(***************************************************************************)
EXTENDS Inodes

CONSTANTS
    Names,      \* what the user may call a file or directory
    Begins,     \* pairs <<name, a shorter name it begins with>>
    HomeDir, SubDirs, Hello, HelloText,  \* what createFS makes
    Texts,      \* what the user may write to a file
    CrashIn,    \* the commands during which the power may be lost
    MaxBlocks   \* no command is given that would use more blocks

ASSUME InputAssumption ==
    /\ MaxBlocks \in Nat
    /\ \A s \in Texts \union {HelloText, SubDirs} : s \in Seq(ToSet(s))

VARIABLES
    disk,
    up,    \* the kernel runs
    cwd,   \* currDirInodeIdxG
    list,  \* currDir: the current directory's entries in memory
    path   \* currPath, one name for each level below "/"

vars == <<disk, up, cwd, list, path>>

FATHER == 1
ROOT == 2

Entry(name, x, type) == [name |-> name, ino |-> x, type |-> type]
NoEntry == Entry("", 0, "none")
Dots == {".", ".."}

----------------------------------------------------------------------------
\* The entry on the disk, or NoEntry.
GetDirEntry(m, name) ==
    LET here == ReadDirectoryList(m.disk, m.cwd)
        found == {i \in DOMAIN here : here[i].name = name}
    IN  IF name = "/" THEN GetInodeData(m.disk, FATHER)[1]
        ELSE IF found = {} THEN NoEntry ELSE here[Min(found)]

\* The inode first, then the bit that takes its number.
CreateDirEntry(m, name, type) ==
    LET bits == GetInodeBitmap(m.disk)
        x == GetFreeInodeIdx(bits)
    IN  [m |-> SetInodeBitmap(SetInode(m, x, NewInode(type)), bits \union {x}),
         entry |-> Entry(name, x, type)]

\* Mutant: no name is taken.
TakenNever(entries, name) == FALSE

\* memcmp over the length of the new name: a longer name that begins with it
\* is the same name.  The first entry is not compared.
Taken(entries, name) ==
    \E i \in 2..Len(entries) : entries[i].name = name \/ <<entries[i].name, name>> \in Begins

\* Mutant: only the disk is told.
AddDirEntryOnDisk(m, entry) ==
    IF Taken(m.list, entry.name) THEN m ELSE WriteInode(m, Append(m.list, entry), m.cwd)

\* The list in memory, with the entry, is written over the directory.
AddDirEntryToPath(m, entry) ==
    IF Taken(m.list, entry.name) THEN m
    ELSE LET new == Append(m.list, entry)
         IN  WriteInode([m EXCEPT !.list = new], new, m.cwd)

\* Mutant: the directory keeps the entry.
RemoveDirEntryNot(m, name) == m

RemoveDirEntryFromPath(m, name) ==
    LET found == {i \in DOMAIN m.list : m.list[i].name = name}
        new == IF found = {} THEN m.list ELSE RemoveAt(m.list, Min(found))
    IN  IF m.list = <<>> THEN m ELSE WriteInode([m EXCEPT !.list = new], new, m.cwd)

\* Mutant: ".." is made when the new directory is the current one.
CreateNewDirectoryOwnParent(m, name) ==
    LET made == CreateDirEntry(m, name, "dir")
        x == made.entry.ino
        named == AddDirEntryToPath(made.m, made.entry)
        dot == AddDirEntryToPath([named EXCEPT !.list = <<>>, !.cwd = x], Entry(".", x, "dir"))
        dotDot == AddDirEntryToPath(dot, Entry("..", dot.cwd, "dir"))
    IN  [dotDot EXCEPT !.list = named.list, !.cwd = m.cwd]

\* Whether the name could be added is not asked.
CreateNewDirectory(m, name) ==
    LET made == CreateDirEntry(m, name, "dir")
        x == made.entry.ino
        named == AddDirEntryToPath(made.m, made.entry)
        inside == [named EXCEPT !.list = <<>>, !.cwd = x]
        dot == AddDirEntryToPath(inside, Entry(".", x, "dir"))
        dotDot == AddDirEntryToPath(dot, Entry("..", m.cwd, "dir"))
    IN  [dotDot EXCEPT !.list = named.list, !.cwd = m.cwd]

----------------------------------------------------------------------------
\* Mutant: ".." is just another name.
PathGrows(m, name, x) ==
    IF name = "/" \/ x = ROOT THEN <<>> ELSE IF name = "." THEN m.path ELSE Append(m.path, name)

PathAfter(m, name, x) ==
    IF name = "/" \/ x = ROOT THEN <<>>
    ELSE IF name = "." THEN m.path
    ELSE IF name = ".." THEN Front(m.path) ELSE Append(m.path, name)

CanEnter(m, name) == GetDirEntry(m, name).type = "dir"

ChangeDir(m, name) ==
    LET x == GetDirEntry(m, name).ino
    IN  IF CanEnter(m, name)
        THEN [m EXCEPT !.cwd = x, !.list = ReadDirectoryList(m.disk, x), !.path = PathAfter(m, name, x)]
        ELSE m

WriteToFile(m, name, units) ==
    LET x == GetDirEntry(m, name).ino IN IF x = 0 THEN m ELSE WriteInode(m, units, x)

ReadFromFile(d, dir, name) ==
    GetInodeData(d, GetDirEntry([disk |-> d, cwd |-> dir], name).ino)

\* Mutant: the new content begins after the old terminator.
AppendAfterTerminator(m, name, units) ==
    WriteToFile(m, name, ReadFromFile(m.disk, m.cwd, name) \o units)

\* The last unit of the old content is replaced by the first of the new, and
\* what the old size counted too much is a zero at the end.
AppendToFile(m, name, units) ==
    WriteToFile(m, name, Front(ReadFromFile(m.disk, m.cwd, name)) \o units \o <<Zero>>)

DeleteFile(m, name) ==
    LET e == GetDirEntry(m, name)
    IN  IF e.type = "file" THEN RemoveDirEntryFromPath(DeleteInode(m, e.ino), name) ELSE m

\* One step of deleteDir, its recursion made a list of what is still to do: an
\* entry to delete, or a directory to leave and delete once its entries are gone.
\* The entries behind the first two are deleted from inside the directory.
DeleteNext(s) ==
    LET t == Head(s.todo)
        e == GetDirEntry(s.m, t.name)
        dir == ReadDirectoryList(s.m.disk, e.ino)
        Done(m) == [m |-> m, todo |-> Tail(s.todo)]
    IN  IF s.todo = <<>> THEN s
        ELSE IF t.type = "leave"
        THEN Done(RemoveDirEntryFromPath(DeleteInode(ChangeDir(s.m, ".."), t.ino), t.name))
        ELSE IF t.type # "dir" THEN Done(DeleteFile(s.m, t.name))
        ELSE IF e.ino = 0 \/ dir = <<>> THEN Done(s.m)
        ELSE [m |-> ChangeDir(s.m, t.name),
              todo |-> SubSeq(dir, 3, Len(dir)) \o <<Entry(t.name, e.ino, "leave")>> \o Tail(s.todo)]

\* A directory takes two steps and a file one.
DeleteDir(m, name) ==
    LET after[n \in 0..(2 * NumInodes)] ==
          IF n = 0 THEN [m |-> m, todo |-> <<Entry(name, 0, "dir")>>]
          ELSE DeleteNext(after[n - 1])
    IN  after[2 * NumInodes].m

\* rename, mv to the parent (and stay there), mv to a directory.
RenameEntry(m, src, new) ==
    LET e == GetDirEntry(m, src)
    IN  IF e.ino = 0 THEN m
        ELSE AddDirEntryToPath(RemoveDirEntryFromPath(m, src), [e EXCEPT !.name = new])

MoveUp(m, src) ==
    LET e == GetDirEntry(m, src)
    IN  IF e.ino = 0 THEN m
        ELSE AddDirEntryToPath(ChangeDir(RemoveDirEntryFromPath(m, src), ".."), e)

MoveDown(m, src, dest) ==
    LET e == GetDirEntry(m, src)
        cut == RemoveDirEntryFromPath(ChangeDir(ChangeDir(m, dest), ".."), src)
    IN  IF e.ino = 0 \/ ~CanEnter(m, dest) THEN m
        ELSE ChangeDir(AddDirEntryToPath(ChangeDir(cut, dest), e), "..")

----------------------------------------------------------------------------
\* The entries of a directory of d, and the inodes at and below x, one of d.
ChildrenOn(d, x) == {e \in ToSet(ReadDirectoryList(d, x)) : e.name \notin Dots}

BelowOn(d, x) ==
    LET below[y \in 1..(NumInodes - 1)] == {y} \union UNION {below[e.ino] : e \in ChildrenOn(d, y)}
    IN  below[x]

AtRoot(m) == [m EXCEPT !.cwd = ROOT, !.list = ReadDirectoryList(m.disk, ROOT), !.path = <<>>]

\* The magic number goes to the disk first.
CreateFS(m) ==
    LET father == SetInode(SetSuperblock(m), FATHER, NewInode("dir"))
        marked == SetInodeBitmap(father, GetInodeBitmap(father.disk) \union {FATHER})
        root == AtRoot(CreateNewDirectory([marked EXCEPT !.cwd = FATHER, !.list = <<>>], "/"))
        home == ChangeDir(CreateNewDirectory(root, HomeDir), HomeDir)
        made[i \in 0..Len(SubDirs)] ==
            IF i = 0 THEN home ELSE CreateNewDirectory(made[i - 1], SubDirs[i])
        filled == ChangeDir(made[Len(SubDirs)], "..")
        hello == CreateDirEntry(filled, Hello, "file")
    IN  WriteToFile(AddDirEntryToPath(hello.m, hello.entry), Hello, HelloText)

InitFileSystem(m) == IF m.disk.magic THEN AtRoot(m) ELSE CreateFS(m)

Machine(d, dir, entries, names) ==
    [disk |-> d, cwd |-> dir, list |-> entries, path |-> names, log |-> <<>>]
m0 == Machine(disk, cwd, list, path)

Init == disk = UnformattedDisk /\ up = FALSE /\ cwd = 0 /\ list = <<>> /\ path = <<>>

Completes(m) == disk' = m.disk /\ cwd' = m.cwd /\ list' = m.list /\ path' = m.path /\ up' = TRUE

\* Only the disk is left, as one of the command's writes left it.
LosesPower(m) ==
    disk' \in {disk} \union ToSet(m.log) /\ cwd' = 0 /\ list' = <<>> /\ path' = <<>> /\ up' = FALSE

Runs(command, m) ==
    /\ Cardinality(m.disk.blockBits) <= MaxBlocks
    /\ Completes(m) \/ (command \in CrashIn /\ LosesPower(m))

----------------------------------------------------------------------------
(* The commands.  What a guard of theirs asks beyond the code's own checks *)
(* keeps to the input for which the code is meant; README.md names each.   *)

Listing(x) == ReadDirectoryList(disk, x)
Children(x) == ChildrenOn(disk, x)
ChildrenOf(x) == {e.ino : e \in Children(x)}
Below(x) == BelowOn(disk, x)

IsDir(x) == GetInode(disk, x).type = "dir"
\* mkdir came as far as the two entries every directory has.
Whole(x) == Len(Listing(x)) >= 2

Here(name) == GetDirEntry(m0, name)
\* The last number is left out: it is written to slot NumInodes and read from 0.
InodeFree == \E x \in 1..(NumInodes - 1) : x \notin disk.inodeBits
RoomIn(x) == GetInode(disk, x).size < NumPtrs * BlockUnits

Touch(n) ==
    LET made == CreateDirEntry(m0, n, "file")
    IN  up /\ InodeFree /\ RoomIn(cwd) /\ Runs("touch", AddDirEntryToPath(made.m, made.entry))

Mkdir(n) == up /\ InodeFree /\ RoomIn(cwd) /\ Runs("mkdir", CreateNewDirectory(m0, n))

Rm(n) == up /\ Runs("rm", DeleteFile(m0, n))

Rmdir(n) ==
    /\ up
    /\ \A x \in IF Here(n).ino = 0 THEN {} ELSE Below(Here(n).ino) : IsDir(x) => Whole(x)
    /\ Runs("rmdir", DeleteDir(m0, n))

\* cmd_write ends what it writes with a zero.
Write(n, text) ==
    up /\ Here(n).type # "dir" /\ Runs("write", WriteToFile(m0, n, text \o <<Zero>>))

AppendText(n, text) ==
    /\ up
    /\ Here(n).type = "file" /\ GetInode(disk, Here(n).ino).size > 0
    /\ GetInode(disk, Here(n).ino).size + Len(text) + 1 <= NumPtrs * BlockUnits
    /\ Runs("append", AppendToFile(m0, n, text \o <<Zero>>))

Cd(n) ==
    /\ up
    /\ n = ".." => cwd # ROOT
    /\ CanEnter(m0, n) => Whole(Here(n).ino)
    /\ Runs("cd", ChangeDir(m0, n))

Rename(n, new) ==
    /\ up
    /\ ~Taken(SelectSeq(list, LAMBDA e : e.name # n), new)
    /\ Runs("rename", RenameEntry(m0, n, new))

Mv(n, dest) ==
    LET x == Here(dest).ino
    IN  /\ up
        /\ Here(n).type # "dir"
        /\ CanEnter(m0, dest) => Whole(x) /\ RoomIn(x) /\ ~Taken(Listing(x), n)
        /\ \/ dest = ".." /\ cwd # ROOT /\ Runs("mv", MoveUp(m0, n))
           \/ dest \in Names /\ Runs("mv", MoveDown(m0, n, dest))

\* getCurrentDir reads the list again.
Ls == up /\ Runs("ls", [m0 EXCEPT !.list = ReadDirectoryList(disk, cwd)])

Boot == ~up /\ Runs("format", InitFileSystem(Machine(disk, 0, <<>>, <<>>)))

PowerCut == up /\ LosesPower(m0)

Next ==
    \/ Boot
    \/ \E n \in Names : Touch(n) \/ Mkdir(n) \/ Rm(n) \/ Rmdir(n)
    \/ \E n \in Names, text \in Texts : Write(n, text) \/ AppendText(n, text)
    \/ \E n \in Names \union {".", "..", "/"} : Cd(n)
    \/ \E n, new \in Names : Rename(n, new)
    \/ \E n \in Names, dest \in Names \union {".."} : Mv(n, dest)
    \/ Ls
    \/ PowerCut

Spec == Init /\ [][Next]_vars

----------------------------------------------------------------------------
Reachable == IF disk.magic THEN Below(ROOT) ELSE {}
Dirs == {x \in Reachable : IsDir(x)}

\* Every name leads to an inode that is in use and of the entry's kind; a
\* directory has no name twice, and no inode is behind two names (the parent's
\* list, the bitmap and the inode table, written one after the other).
EntriesLive ==
    /\ \A x \in Dirs : \A e \in Children(x) :
        e.ino \in disk.inodeBits /\ GetInode(disk, e.ino).type = e.type
    /\ \A x \in Dirs : \A i, j \in DOMAIN Listing(x) : Listing(x)[i].name = Listing(x)[j].name => i = j
    /\ \A x, y \in Dirs : \A e \in Children(x), f \in Children(y) :
        e.ino = f.ino => x = y /\ e = f

\* "." and ".." of a directory that mkdir finished lead to itself and to the
\* directory that names it.
DotsTrue ==
    \A x \in Dirs : Whole(x) =>
        /\ Listing(x)[1] = Entry(".", x, "dir")
        /\ Listing(x)[2].name = ".."
        /\ x = ROOT \/ x \in ChildrenOf(Listing(x)[2].ino)

\* A block of an inode in use is marked in use itself and is no other inode's
\* (deleteInode, writeInode).
Blocks(x) == ToSet(GetInode(disk, x).ptrs) \ {0}
BlocksOwned ==
    /\ \A x \in disk.inodeBits : Blocks(x) \subseteq disk.blockBits
    /\ \A x, y \in disk.inodeBits : x # y => Blocks(x) \cap Blocks(y) = {}

\* What is in memory of the current directory is what is on the disk
\* (addDirEntryToPath writes the one over the other).
ListIsDisk == up => list = Listing(cwd)

\* The prompt's path leads from the root to the current directory (cd, and the
\* cds inside rmdir and mv).
PathLeads ==
    LET at[n \in 0..Len(path)] ==
          IF n = 0 THEN {ROOT}
          ELSE {e.ino : e \in {f \in UNION {Children(x) : x \in at[n - 1]} : f.name = path[n]}}
    IN  up => at[Len(path)] = {cwd}

\* What cat shows: the content up to its terminator.
Text(units) ==
    LET ends == {i \in DOMAIN units : units[i] = Zero}
    IN  IF ends = {} THEN units ELSE SubSeq(units, 1, Min(ends) - 1)
Shown(d, n) == Text(ReadFromFile(d, cwd, n))

\* A write or append that is not cut off arrives: cat shows the new text, or
\* the old text with the new one behind it when the old text's terminator was
\* the file's last unit (writeToFile and appendToFile over writeInode).
TextArrives ==
    [][\A n \in Names, text \in Texts :
        up /\ up' /\ Here(n).type = "file" =>
            /\ Write(n, text) => Shown(disk', n) = text
            /\ AppendText(n, text)
               /\ Len(ReadFromFile(disk, cwd, n)) = Len(Shown(disk, n)) + 1
               => Shown(disk', n) = Shown(disk, n) \o text]_vars

\* The tree the disk holds; a disk without the magic number is formatted by
\* the next boot.
TreeOf(d) ==
    LET Naming(entries) == [n \in {e.name : e \in entries} |-> (CHOOSE e \in entries : e.name = n).ino]
    IN  [x \in BelowOn(d, ROOT) |->
            [kind |-> GetInode(d, x).type,
             kids |-> Naming(ChildrenOn(d, x)),
             content |-> IF GetInode(d, x).type = "file" THEN GetInodeData(d, x) ELSE <<>>]]

FormattedTree == TreeOf(CreateFS(Machine(UnformattedDisk, 0, <<>>, <<>>)).disk)

Tree == INSTANCE FileTree WITH
    Root <- ROOT,
    InitialTree <- FormattedTree,
    tree <- IF disk.magic THEN TreeOf(disk) ELSE FormattedTree,
    here <- IF up THEN cwd ELSE ROOT

\* Seen from the shell the files are a tree that each command changes in one
\* step, and that a loss of power leaves as it was but for what the command was
\* making or writing.
ImplementsFileTree == Tree!Spec
=============================================================================
