------------------------------- MODULE Heap -------------------------------
(***************************************************************************)
(* The heap of the kernel and of every process:                            *)
(* kernel/memory/memoryAllocator.cpp, an allocator with boundary tags.     *)
(*                                                                         *)
(* Addresses and sizes count words of 4 bytes: a tag (the header of a used *)
(* block, the first word of a free one, a footer) is one word, the header  *)
(* of a free block three.  The words in between belong to the caller and   *)
(* read as Junk.  The free list (libs/dList.cpp) is the sequence of its    *)
(* blocks.                                                                 *)
(***************************************************************************)
EXTENDS Integers, Sequences, FiniteSetsExt, SequencesExt

CONSTANTS
    Words,        \* the length of the memory pool
    Sizes,        \* the sizes asked of malloc
    AlignedSizes, \* the sizes asked of mallocAligned
    Alignments,   \* the alignments asked of mallocAligned
    UnsafeFrees   \* whether callers also free the blocks that free spoils the heap with

FREE_BLOCK_HEADER_SIZE == 3
USED_BLOCK_HEADER_SIZE == 1
FOOTER_SIZE == 1
MIN_ALLOC_SIZE == FREE_BLOCK_HEADER_SIZE + FOOTER_SIZE + 1

\* The size fields are 31 bits of bytes.
SizeLimit == 2^29

ASSUME HeapAssumption ==
    /\ Words \in Nat /\ Words > FREE_BLOCK_HEADER_SIZE + FOOTER_SIZE
    /\ Words <= SizeLimit
    /\ Sizes \subseteq Nat \ {0}
    /\ AlignedSizes \subseteq Nat \ {0, 1}  \* the smallest in the kernel is four words
    /\ Alignments \subseteq Nat \ {0}

VARIABLES
    heap,    \* tags, free list and counters
    live,    \* the blocks callers hold: data address -> size
    lost,    \* the words no block has since a cut, as <<start, end>>
    seams    \* history: the second halves of cuts that gave nothing out and are free since

vars == <<heap, live, lost, seams>>

---------------------------------------------------------------------------
(* Tags.                                                                   *)

\* What a word that holds no tag reads as: the caller's data.
Junk == [size |-> 0, inUse |-> TRUE]

Tag(n, used) == [size |-> n % SizeLimit, inUse |-> used]

\* A write outside the pool leaves the pool alone.
Write(h, a, t) == [h EXCEPT !.tag = [b \in DOMAIN @ |-> IF b = a THEN t ELSE @[b]]]

TagAt(h, a) == IF a \in DOMAIN h.tag THEN h.tag[a] ELSE Junk
SizeAt(h, a) == TagAt(h, a).size

\* Both tags of a block; createFooter.
WriteUsed(h, b, n) ==
    Write(Write(h, b, Tag(n, TRUE)), b + USED_BLOCK_HEADER_SIZE + n, Tag(n, TRUE))
WriteFreeHeader(h, b, n) == Write(h, b, Tag(n, FALSE))
WriteFree(h, b, n) ==
    LET t == Tag(n, FALSE)
    IN  Write(Write(h, b, t), b + FREE_BLOCK_HEADER_SIZE + t.size, t)

\* The three counters, moved together.
Count(h, f, u, r) ==
    [h EXCEPT !.freeMem = @ + f, !.usedMem = @ + u, !.reservedMem = @ + r]

\* The first word behind a free block.
FreeEnd(h, b) == b + FREE_BLOCK_HEADER_SIZE + SizeAt(h, b) + FOOTER_SIZE

PushFront(h, b) == [h EXCEPT !.list = <<b>> \o @]
Unlink(h, b) ==
    [h EXCEPT !.list = IF b \in ToSet(@) THEN RemoveAt(@, CHOOSE i \in DOMAIN @ : @[i] = b)
                       ELSE @]

\* The caller's words [a, a + n).
Scribble(h, a, n) ==
    [h EXCEPT !.tag = [b \in DOMAIN @ |-> IF b \in a..(a + n - 1) THEN Junk ELSE @[b]]]

---------------------------------------------------------------------------
\* init: one free block that spans the pool.
Init ==
    /\ LET n == Words - FREE_BLOCK_HEADER_SIZE - FOOTER_SIZE
       IN  heap = WriteFree([tag |-> [a \in 0..(Words - 1) |-> Junk],
                             list |-> <<0>>,
                             freeMem |-> n, usedMem |-> 0, reservedMem |-> Words - n],
                            0, n)
    /\ live = << >>
    /\ lost = {}
    /\ seams = {}

(***************************************************************************)
(* malloc.                                                                 *)
(***************************************************************************)

SplitKeepsList(h, b, n) ==
    LET total == SizeAt(h, b)
        rest == b + USED_BLOCK_HEADER_SIZE + n + FOOTER_SIZE
        r == total - (n + USED_BLOCK_HEADER_SIZE + FOOTER_SIZE)
        split == WriteFree(WriteUsed(h, b, n), rest, r)
    IN  Count(PushFront(split, rest), -(n + 2), n, 2)

\* splitBlock: a used block of size n, and a free one of what is left.
SplitBlock(h, b, n) ==
    LET total == SizeAt(h, b)
        rest == b + USED_BLOCK_HEADER_SIZE + n + FOOTER_SIZE
        r == total - (n + USED_BLOCK_HEADER_SIZE + FOOTER_SIZE)
        split == WriteFree(WriteUsed(Unlink(h, b), b, n), rest, r)
    IN  Count(PushFront(split, rest),
              -(n + USED_BLOCK_HEADER_SIZE + FOOTER_SIZE), n,
              USED_BLOCK_HEADER_SIZE + FOOTER_SIZE)

\* The room of a free block once it is a used one.
Room(h, b) == SizeAt(h, b) + (FREE_BLOCK_HEADER_SIZE - USED_BLOCK_HEADER_SIZE)

(***************************************************************************)
(* mallocAddr: only a block that can be split is given out.  The guard of  *)
(* splitBlock, size >= total - 2 by the expansion of its macro, never      *)
(* fails after this one.                                                   *)
(***************************************************************************)
CanSplit(h, b, n) == Room(h, b) - n >= MIN_ALLOC_SIZE

Fits(n) == {i \in DOMAIN heap.list : Room(heap, heap.list[i]) >= n}

\* The first block in the list that fits; it is this block or none.
FirstFit(n) == heap.list[Min(Fits(n))]

Give(h, b, n) ==
    LET p == b + USED_BLOCK_HEADER_SIZE
    IN  /\ heap' = Scribble(SplitBlock(h, b, n), p, n)
        /\ live' = [q \in DOMAIN live \union {p} |-> IF q = p THEN n ELSE live[q]]

Malloc(n) ==
    /\ n <= heap.freeMem
    /\ Fits(n) # {}
    /\ CanSplit(heap, FirstFit(n), n)
    /\ Give(heap, FirstFit(n), n)
    /\ seams' = seams \ {FirstFit(n)}
    /\ UNCHANGED lost

MallocFails(n) ==
    /\ \/ n > heap.freeMem
       \/ Fits(n) = {}
       \/ Fits(n) # {} /\ ~CanSplit(heap, FirstFit(n), n)
    /\ UNCHANGED vars

(***************************************************************************)
(* mallocAligned cuts the first free block with room before the aligned    *)
(* address and behind it in two, and gives out the start of the second.    *)
(***************************************************************************)
Aligned(b, al) == ((b + USED_BLOCK_HEADER_SIZE + al - 1) \div al) * al

FitsAligned(n, al) ==
    {i \in DOMAIN heap.list :
        LET b == heap.list[i]
        IN  /\ SizeAt(heap, b) - (Aligned(b, al) - b) >= n
            /\ (Aligned(b, al) - USED_BLOCK_HEADER_SIZE) - b > MIN_ALLOC_SIZE
            /\ \A j \in 1..i : Aligned(heap.list[j], al) < Words}

\* The two free blocks of the cut: the second ends short of the end of the first.
CutAligned(h, b, al) ==
    LET second == Aligned(b, al) - USED_BLOCK_HEADER_SIZE
        n2 == SizeAt(h, b) - (second + FREE_BLOCK_HEADER_SIZE - b)
        n1 == second - FOOTER_SIZE - (b + FREE_BLOCK_HEADER_SIZE)
        shift == FREE_BLOCK_HEADER_SIZE + FOOTER_SIZE
    IN  Count(WriteFree(PushFront(WriteFree(h, second, n2), second), b, n1),
              -shift, 0, shift)

MallocAligned(n, al) ==
    /\ n <= heap.freeMem
    /\ FitsAligned(n, al) # {}
    /\ LET b == heap.list[Min(FitsAligned(n, al))]
           h == CutAligned(heap, b, al)
           second == Aligned(b, al) - USED_BLOCK_HEADER_SIZE
       IN  /\ lost' = lost \union {<<FreeEnd(h, second), FreeEnd(heap, b)>>}
           /\ \/ CanSplit(h, second, n) /\ Give(h, second, n) /\ UNCHANGED seams
              \/ /\ ~CanSplit(h, second, n) /\ heap' = h /\ UNCHANGED live
                 /\ seams' = seams \union {second}

MallocAlignedFails(n, al) ==
    /\ n > heap.freeMem \/ FitsAligned(n, al) = {}
    /\ UNCHANGED vars

---------------------------------------------------------------------------
(* free.                                                                   *)

SkipPredecessor(h, b) == [heap |-> h, merged |-> FALSE, block |-> b]

\* coalescePredecessor: [heap, whether it merged, the block that results].
CoalescePredecessor(h, b) ==
    LET footer == TagAt(h, b - FOOTER_SIZE)
        pred == b - FOOTER_SIZE - footer.size - FREE_BLOCK_HEADER_SIZE
        n == SizeAt(h, b)
        own == TagAt(h, b + USED_BLOCK_HEADER_SIZE + n).size
        gain == USED_BLOCK_HEADER_SIZE + FOOTER_SIZE
        sum == SizeAt(h, pred) + n + gain
    IN  IF b = 0 \/ footer.inUse
          THEN [heap |-> h, merged |-> FALSE, block |-> b]
          ELSE [heap |-> Count(Write(Write(h, pred, Tag(sum, TagAt(h, pred).inUse)),
                                     b + USED_BLOCK_HEADER_SIZE + n, Tag(sum, FALSE)),
                               own + gain, -own, -gain),
                merged |-> TRUE, block |-> pred]

\* coalesceSuccessor on the block the first step left.
CoalesceSuccessor(s) ==
    LET h == s.heap
        n == SizeAt(h, s.block)
        header == IF s.merged THEN FREE_BLOCK_HEADER_SIZE ELSE USED_BLOCK_HEADER_SIZE
        succ == s.block + header + n + FOOTER_SIZE
        m == SizeAt(h, succ)
        sum == n + header + FOOTER_SIZE + m
        tags == Write(Write(h, s.block, Tag(sum, FALSE)),
                      succ + FREE_BLOCK_HEADER_SIZE + m,
                      Tag(sum, TagAt(h, succ + FREE_BLOCK_HEADER_SIZE + m).inUse))
    IN  IF succ = Words \/ TagAt(h, succ).inUse
          THEN s
          ELSE [s EXCEPT !.merged = TRUE,
                         !.heap =
                  IF s.merged
                    THEN Count(Unlink(tags, succ), FOOTER_SIZE + FREE_BLOCK_HEADER_SIZE, 0,
                               -(FOOTER_SIZE + FREE_BLOCK_HEADER_SIZE))
                    ELSE Count(PushFront(Unlink(tags, succ), s.block),
                               n + FOOTER_SIZE + USED_BLOCK_HEADER_SIZE, -n,
                               -(FOOTER_SIZE + USED_BLOCK_HEADER_SIZE))]

ConvertUnshrunk(h, b) ==
    LET n == SizeAt(h, b)
    IN  Count(PushFront(WriteFree(h, b, n), b), n, -n, 0)

ConvertCountsAll(h, b) ==
    LET n == SizeAt(h, b)
        grow == FREE_BLOCK_HEADER_SIZE - USED_BLOCK_HEADER_SIZE
    IN  Count(PushFront(WriteFree(h, b, n - grow), b), n, -n, grow)

\* A block with no free neighbour becomes a free block of its own.
ConvertAlone(h, b) ==
    LET n == SizeAt(h, b)
        grow == FREE_BLOCK_HEADER_SIZE - USED_BLOCK_HEADER_SIZE
        freed == PushFront(WriteFree(h, b, n - grow), b)
    IN  Count(freed, SizeAt(freed, b), -n, grow)

FreeBlock(h, b) ==
    LET s == CoalesceSuccessor(CoalescePredecessor(h, b))
    IN  IF s.merged THEN s.heap ELSE ConvertAlone(s.heap, b)

Free(p) ==
    LET b == p - USED_BLOCK_HEADER_SIZE
    IN  /\ heap' = IF TagAt(heap, b).inUse THEN FreeBlock(heap, b) ELSE heap
        /\ live' = [q \in DOMAIN live \ {p} |-> live[q]]
        /\ UNCHANGED <<lost, seams>>

---------------------------------------------------------------------------
UsedEnd(p) == p + live[p] + FOOTER_SIZE

\* The blocks as intervals: where each starts and where it ends.
UsedBlocks == {<<p - USED_BLOCK_HEADER_SIZE, UsedEnd(p)>> : p \in DOMAIN live}
FreeBlocks == {<<b, FreeEnd(heap, b)>> : b \in ToSet(heap.list)}

(***************************************************************************)
(* What free is not safe for.  The words a cut lost end with the footer    *)
(* the block had before, so the block behind them finds a free neighbour   *)
(* that is none; and one word between two used blocks is too short for the *)
(* header of a free block.                                                 *)
(***************************************************************************)
BehindCut(p) == \E g \in lost : g[2] = p - USED_BLOCK_HEADER_SIZE
TooShort(p) ==
    /\ live[p] < FREE_BLOCK_HEADER_SIZE - USED_BLOCK_HEADER_SIZE
    /\ \A b \in FreeBlocks : b[2] # p - USED_BLOCK_HEADER_SIZE /\ b[1] # UsedEnd(p)

\* The pointers callers pass to free.
Freeable == {p \in DOMAIN live : UnsafeFrees \/ (~BehindCut(p) /\ ~TooShort(p))}

Next ==
    \/ \E n \in Sizes : Malloc(n) \/ MallocFails(n)
    \/ \E n \in AlignedSizes, al \in Alignments :
        MallocAligned(n, al) \/ MallocAlignedFails(n, al)
    \/ \E p \in Freeable : Free(p)

Spec == Init /\ [][Next]_vars

---------------------------------------------------------------------------
(* Properties.                                                             *)

Blocks == UsedBlocks \union FreeBlocks \union lost

(***************************************************************************)
(* The blocks tile the pool: every word belongs to exactly one block that  *)
(* a caller holds or the free list knows, or was lost by a cut, so none    *)
(* overlap, nothing else is lost and nothing reaches out of the pool.      *)
(***************************************************************************)
BlocksTile ==
    /\ \E b \in Blocks : b[1] = 0
    /\ \A b \in Blocks : b[2] = Words \/ (\E c \in Blocks : c[1] = b[2])
    /\ \A b, c \in Blocks : b # c => b[2] <= c[1] \/ c[2] <= b[1]
    /\ Len(heap.list) = Cardinality(FreeBlocks)

\* The tags at both ends of a block agree with each other and with the block.
TagsAgree ==
    /\ \A p \in DOMAIN live :
          /\ TagAt(heap, p - USED_BLOCK_HEADER_SIZE) = Tag(live[p], TRUE)
          /\ TagAt(heap, p + live[p]) = Tag(live[p], TRUE)
    /\ \A b \in ToSet(heap.list) :
          /\ ~TagAt(heap, b).inUse
          /\ TagAt(heap, FreeEnd(heap, b) - FOOTER_SIZE) = TagAt(heap, b)

(***************************************************************************)
(* No bookkeeping is ever written into memory a caller holds.              *)
(***************************************************************************)
DataUntouched ==
    \A p \in DOMAIN live : \A a \in p..(p + live[p] - 1) : heap.tag[a] = Junk

\* Free neighbours are always merged, so memory does not crumble: two lie side
\* by side only where a cut put them and gave out neither.
Coalesced ==
    \A b, c \in FreeBlocks : b[2] = c[1] => c[1] \in seams

\* The words that count as free: those of the free blocks between their header
\* and their footer, and those a cut lost.
FreeWords ==
    {a \in 0..(Words - 1) :
        \/ \E b \in ToSet(heap.list) :
              a - (b + FREE_BLOCK_HEADER_SIZE) \in 0..(SizeAt(heap, b) - 1)
        \/ \E g \in lost : a \in g[1]..(g[2] - 1)}
UsedWords == {a \in 0..(Words - 1) : \E p \in DOMAIN live : a \in p..(p + live[p] - 1)}

(***************************************************************************)
(* The counters are what they say: the words of the free blocks and those  *)
(* a cut lost, those the callers hold, and what headers and footers take.  *)
(***************************************************************************)
CountersTrue ==
    /\ heap.freeMem = Cardinality(FreeWords)
    /\ heap.usedMem = Cardinality(UsedWords)
    /\ heap.freeMem + heap.usedMem + heap.reservedMem = Words
============================================================================
