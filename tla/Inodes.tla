------------------------------- MODULE Inodes -------------------------------
(***************************************************************************)
(* The lower half of the file system (fsHelper.cpp, blockGroups.cpp): a    *)
(* magic number, two bitmaps, the inode table and data blocks, one block   *)
(* group.  A block is known by its index in the block bitmap, and holds    *)
(* BlockUnits units (directory entries or pieces of content).              *)
(*                                                                         *)
(* An operator takes the machine m (what a command works on) and returns   *)
(* it as the calls of disk.write leave it; m.log keeps the disk after each *)
(* of them, so that a loss of power can be put between any two.            *)
(***************************************************************************)
EXTENDS Integers, SequencesExt, FiniteSetsExt

CONSTANTS
    NumInodes,   \* inodesInBg
    NumBlocks,   \* blocksInBg
    DataStart,   \* blocks before the data: bgd.inodeTable and the inode table
    NumPtrs,     \* NUM_DIRECT_POINTERS
    BlockUnits,  \* BLOCK_SIZE in units
    Zero,        \* the unit of a block nobody wrote
    HeapBit      \* {NumInodes} if the word behind the bitmap's buffer has its first bit set

ASSUME GeometryAssumption ==
    /\ {NumInodes, NumBlocks, DataStart, NumPtrs, BlockUnits} \subseteq Nat \ {0}
    /\ NumInodes >= 3 /\ HeapBit \in SUBSET {NumInodes}

SIZE_ERROR == 3

NewInode(type) == [type |-> type, size |-> 0, ptrs |-> [i \in 1..NumPtrs |-> 0]]

\* The slots of the inode table, and the first one behind it.
Slots == 0..NumInodes

UnformattedDisk ==
    [magic |-> FALSE, inodeBits |-> {}, blockBits |-> {},
     inode |-> [x \in Slots |-> NewInode("none")],
     data |-> [b \in 1..NumBlocks |-> [k \in 1..BlockUnits |-> Zero]]]

\* The disk d reaches the device.
DiskWrite(m, d) == [m EXCEPT !.disk = d, !.log = Append(@, d)]

SetSuperblock(m) == DiskWrite(m, [m.disk EXCEPT !.magic = TRUE])
SetInode(m, x, node) == DiskWrite(m, [m.disk EXCEPT !.inode[x] = node])
SetBlockBitmap(m, bits) == DiskWrite(m, [m.disk EXCEPT !.blockBits = bits])

\* Bit NumInodes lies behind the buffer of the bitmap: what the heap holds there
\* is read, and what is set there is not stored.
GetInodeBitmap(d) == d.inodeBits \union HeapBit
SetInodeBitmap(m, bits) == DiskWrite(m, [m.disk EXCEPT !.inodeBits = bits \ {NumInodes}])

GetFreeBlockIdx(bits) ==
    LET free == (1..NumBlocks) \ bits IN IF free = {} THEN 0 ELSE Min(free)

GetFreeInodeIdx(bits) ==
    LET free == (1..NumInodes) \ bits IN IF free = {} THEN SIZE_ERROR ELSE Min(free)

----------------------------------------------------------------------------
\* The slot that is read is the number modulo the table's length; setInode takes
\* it as it is.  (The ELSE is for values that are no numbers.)
GetInode(d, x) ==
    IF x % NumInodes \in DOMAIN d.inode THEN d.inode[x % NumInodes] ELSE NewInode("none")

\* The units of an inode; a pointer of 0 ends what is read, the buffer's
\* rest stays as calloc left it.
GetInodeData(d, x) ==
    LET node == GetInode(d, x)
        holes == {i \in 1..NumPtrs : node.ptrs[i] = 0}
        read == IF holes = {} THEN NumPtrs ELSE Min(holes) - 1
        Unit(i, k) == IF i <= read THEN d.data[node.ptrs[i]][k] ELSE Zero
    IN  [k \in 1..node.size |-> Unit((k - 1) \div BlockUnits + 1, ((k - 1) % BlockUnits) + 1)]

\* nullptr is the empty list.
ReadDirectoryList(d, x) == IF GetInode(d, x).type = "dir" THEN GetInodeData(d, x) ELSE <<>>

\* The first units of a block are replaced, the rest of it stays.
Overlay(units, old) == units \o SubSeq(old, Len(units) + 1, BlockUnits)

Chunks(units) == Min({NumPtrs, (Len(units) + BlockUnits - 1) \div BlockUnits})
Chunk(units, i) == SubSeq(units, (i - 1) * BlockUnits + 1, Min({i * BlockUnits, Len(units)}))

\* Block i of the content: the inode's own, or a free one, marked at once.
WriteBlock(w, units, i) ==
    LET new == w.ptrs[i] = 0
        p == IF new THEN GetFreeBlockIdx(w.m.disk.blockBits) ELSE w.ptrs[i]
        marked == IF new THEN SetBlockBitmap(w.m, w.m.disk.blockBits \union {p}) ELSE w.m
    IN  IF ~w.ok \/ p = 0
        THEN [w EXCEPT !.ok = FALSE]
        ELSE [w EXCEPT !.ptrs[i] = p,
                       !.m = DiskWrite(marked, [marked.disk EXCEPT !.data[p] = Overlay(units, @)])]

\* The inode is written last, and not at all when the blocks run out.
WriteInode(m, units, x) ==
    LET node == GetInode(m.disk, x)
        after[i \in 0..Chunks(units)] ==
          IF i = 0 THEN [m |-> m, ptrs |-> node.ptrs, ok |-> TRUE]
          ELSE WriteBlock(after[i - 1], Chunk(units, i), i)
        w == after[Chunks(units)]
    IN  IF w.ok
        THEN SetInode(w.m, x, [node EXCEPT !.size = Len(units), !.ptrs = w.ptrs])
        ELSE w.m

\* Mutant: one block too far.
RevBlockOneOff(p) == p + 1

\* The bit that deleteInode clears for block p: REV_BLOCK_OFFSET shifts its
\* quotient by blockSize + 1, since + binds stronger than the << in BLOCK_SIZE.
RevBlockOffset(p) == 2 * (p + DataStart - 1) - DataStart

DeleteInode(m, x) ==
    LET cleared == {RevBlockOffset(p) : p \in ToSet(GetInode(m.disk, x).ptrs) \ {0}}
    IN  SetInodeBitmap(SetBlockBitmap(m, m.disk.blockBits \ cleared), GetInodeBitmap(m.disk) \ {x})
=============================================================================
