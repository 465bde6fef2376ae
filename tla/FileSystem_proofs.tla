------------------------- MODULE FileSystem_proofs -------------------------
(***************************************************************************)
(* For a disk of any size and any tree of files: who owns the blocks,      *)
(* wherever any command loses the power; and, where it is lost only while  *)
(* something is made or written, that the directories stay a tree in which *)
(* every name leads to a live inode, that the list in memory and the path  *)
(* follow it, and that what is written is what is read.                    *)
(***************************************************************************)
EXTENDS FileSystem, SequenceTheorems, FiniteSetTheorems, WellFoundedInduction, TLAPS

---------------------------------------------------------------------------
(* Sequences of anything.                                                  *)

IsSeq(s) == \E S : s \in Seq(S)

LEMMA SeqFacts ==
    ASSUME NEW s, IsSeq(s)
    PROVE  /\ Len(s) \in Nat /\ DOMAIN s = 1..Len(s)
           /\ \A i \in 1..Len(s) : s[i] \in ToSet(s)
           /\ \A S : ToSet(s) \subseteq S => s \in Seq(S)
<1>1. PICK S : s \in Seq(S)
  BY DEF IsSeq
<1>2. Len(s) \in Nat /\ DOMAIN s = 1..Len(s) /\ s \in [1..Len(s) -> S]
  BY <1>1, LenProperties
<1>3. \A i \in 1..Len(s) : s[i] \in ToSet(s)
  BY <1>2 DEF ToSet
<1>4. ASSUME NEW T, ToSet(s) \subseteq T PROVE s \in Seq(T)
  <2>1. s \in [1..Len(s) -> T]
    BY <1>2, <1>3, <1>4
  <2>. QED
    BY <2>1, <1>2, SeqDef
<1>. QED
  BY <1>2, <1>3, <1>4

LEMMA FunctionIsSeq ==
    ASSUME NEW n \in Nat, NEW f, f = [i \in 1..n |-> f[i]]
    PROVE  IsSeq(f) /\ Len(f) = n
<1>. DEFINE S == {f[i] : i \in 1..n}
<1>1. f \in [1..n -> S]
  OBVIOUS
<1>2. f \in Seq(S)
  BY <1>1, SeqDef
<1>3. DOMAIN f = 1..n /\ DOMAIN f = 1..Len(f) /\ Len(f) \in Nat
  BY <1>2, LenProperties
<1>. HIDE DEF S
<1>4. Len(f) = n
  <2>1. \A k \in Nat \ {0} : k <= n <=> k <= Len(f)
    BY <1>3
  <2>2. n = 0 \/ n <= Len(f)
    BY <2>1
  <2>3. Len(f) = 0 \/ Len(f) <= n
    BY <1>3, <2>1
  <2>. QED
    BY <1>3, <2>2, <2>3
<1>. QED
  BY <1>2, <1>4 DEF IsSeq

LEMMA EmptyIsSeq == IsSeq(<<>>) /\ ToSet(<<>>) = {}
<1>1. <<>> \in Seq({})
  OBVIOUS
<1>. QED
  BY <1>1 DEF IsSeq, ToSet

LEMMA SingleIsSeq == \A x : IsSeq(<<x>>)
<1>. SUFFICES ASSUME NEW x PROVE IsSeq(<<x>>)
  OBVIOUS
<1>1. <<x>> \in Seq({x})
  OBVIOUS
<1>. QED
  BY <1>1 DEF IsSeq

LEMMA AppendIsSeq ==
    ASSUME NEW s, IsSeq(s), NEW x
    PROVE  /\ IsSeq(Append(s, x)) /\ Len(Append(s, x)) = Len(s) + 1
           /\ Append(s, x)[Len(s) + 1] = x
           /\ \A i \in 1..Len(s) : Append(s, x)[i] = s[i]
           /\ ToSet(Append(s, x)) = ToSet(s) \union {x}
<1>. DEFINE S == ToSet(s) \union {x}
            t == Append(s, x)
<1>1. s \in Seq(S)
  BY SeqFacts
<1>2. t \in Seq(S) /\ Len(t) = Len(s) + 1 /\ Len(s) \in Nat
  BY <1>1
<1>3. t[Len(s) + 1] = x /\ \A i \in 1..Len(s) : t[i] = s[i]
  BY <1>1
<1>4. DOMAIN t = 1..(Len(s) + 1) /\ DOMAIN s = 1..Len(s)
  BY <1>1, <1>2
<1>. HIDE DEF t
<1>5. ToSet(t) = ToSet(s) \union {x}
  <2>1. ToSet(t) \subseteq S
    BY <1>2, <1>4 DEF ToSet
  <2>2. x \in ToSet(t)
    BY <1>2, <1>3, <1>4 DEF ToSet
  <2>3. ASSUME NEW i \in 1..Len(s) PROVE s[i] \in ToSet(t)
    <3>1. i \in DOMAIN t /\ t[i] = s[i]
      BY <1>2, <1>3, <1>4
    <3>. QED
      BY <3>1 DEF ToSet
  <2>. QED
    BY <1>4, <2>1, <2>2, <2>3 DEF ToSet
<1>. QED
  BY <1>2, <1>3, <1>5 DEF IsSeq, t

LEMMA ConcatIsSeq ==
    ASSUME NEW s, IsSeq(s), NEW t, IsSeq(t)
    PROVE  /\ IsSeq(s \o t) /\ Len(s \o t) = Len(s) + Len(t)
           /\ \A i \in 1..Len(s) + Len(t) : (s \o t)[i] = IF i <= Len(s) THEN s[i] ELSE t[i - Len(s)]
<1>. DEFINE S == ToSet(s) \union ToSet(t)
<1>1. s \in Seq(S) /\ t \in Seq(S)
  BY SeqFacts
<1>. QED
  BY <1>1, ConcatProperties DEF IsSeq

LEMMA SubSeqIsSeq ==
    ASSUME NEW s, NEW m \in Int, NEW n \in Int
    PROVE  /\ IsSeq(SubSeq(s, m, n)) /\ Len(SubSeq(s, m, n)) = IF m <= n THEN n - m + 1 ELSE 0
           /\ \A i \in 1..n - m + 1 : SubSeq(s, m, n)[i] = s[m + i - 1]
<1>. DEFINE S == {s[i] : i \in m..n}
<1>1. \A i \in m..n : s[i] \in S
  OBVIOUS
<1>. HIDE DEF S
<1>. QED
  BY <1>1, SubSeqProperties DEF IsSeq

LEMMA PartsAreSeq ==
    ASSUME NEW s, IsSeq(s)
    PROVE  /\ IsSeq(Front(s)) /\ IsSeq(SubSeq(s, 3, Len(s)))
           /\ s # <<>> => IsSeq(Tail(s))
           /\ \A i \in 1..Len(s) : IsSeq(RemoveAt(s, i))
<1>1. Len(s) \in Nat
  BY SeqFacts
<1>2. IsSeq(Front(s))
  BY <1>1, SubSeqIsSeq DEF Front
<1>3. IsSeq(SubSeq(s, 3, Len(s)))
  BY <1>1, SubSeqIsSeq
<1>4. ASSUME s # <<>> PROVE IsSeq(Tail(s))
  BY <1>4, SeqFacts, HeadTailProperties DEF IsSeq
<1>5. ASSUME NEW i \in 1..Len(s) PROVE IsSeq(RemoveAt(s, i))
  <2>1. IsSeq(SubSeq(s, 1, i - 1)) /\ IsSeq(SubSeq(s, i + 1, Len(s)))
    BY <1>1, SubSeqIsSeq
  <2>. QED
    BY <2>1, ConcatIsSeq DEF RemoveAt
<1>. QED
  BY <1>2, <1>3, <1>4, <1>5

LEMMA RemoveFacts ==
    ASSUME NEW s, IsSeq(s), NEW i \in 1..Len(s)
    PROVE  /\ IsSeq(RemoveAt(s, i)) /\ Len(RemoveAt(s, i)) = Len(s) - 1
           /\ \A j \in 1..Len(s) - 1 : RemoveAt(s, i)[j] = IF j < i THEN s[j] ELSE s[j + 1]
<1>. DEFINE t == SubSeq(s, 1, i - 1)
            u == SubSeq(s, i + 1, Len(s))
<1>1. Len(s) \in Nat
  BY SeqFacts
<1>2. IsSeq(t) /\ Len(t) = i - 1 /\ \A j \in 1..i - 1 : t[j] = s[j]
  BY <1>1, SubSeqIsSeq
<1>3. IsSeq(u) /\ Len(u) = Len(s) - i /\ \A j \in 1..Len(s) - i : u[j] = s[i + j]
  BY <1>1, SubSeqIsSeq
<1>. HIDE DEF t, u
<1>4. /\ IsSeq(t \o u) /\ Len(t \o u) = Len(t) + Len(u)
      /\ \A j \in 1..Len(t) + Len(u) : (t \o u)[j] = IF j <= Len(t) THEN t[j] ELSE u[j - Len(t)]
  BY <1>2, <1>3, ConcatIsSeq
<1>5. ASSUME NEW j \in 1..Len(s) - 1
      PROVE  (t \o u)[j] = IF j < i THEN s[j] ELSE s[j + 1]
  BY <1>1, <1>2, <1>3, <1>4
<1>6. Len(t \o u) = Len(s) - 1
  BY <1>1, <1>2, <1>3, <1>4
<1>. QED
  BY <1>4, <1>5, <1>6 DEF RemoveAt, t, u

\* Sequences with the same units are the same.
LEMMA SameSeq ==
    ASSUME NEW s, IsSeq(s), NEW t, IsSeq(t), Len(s) = Len(t),
           \A i \in 1..Len(s) : s[i] = t[i]
    PROVE  s = t
<1>. DEFINE S == ToSet(s) \union ToSet(t)
<1>1. s \in Seq(S) /\ t \in Seq(S)
  BY SeqFacts
<1>2. s \in [1..Len(s) -> S] /\ t \in [1..Len(t) -> S]
  BY <1>1, LenProperties
<1>3. s = [i \in 1..Len(s) |-> s[i]] /\ t = [i \in 1..Len(s) |-> t[i]]
  BY <1>2
<1>. QED
  BY <1>3

\* A set of numbers that is not empty has a least one, which Min finds.
LEMMA MinIsLeast ==
    ASSUME NEW S \in SUBSET Nat, S # {}
    PROVE  Min(S) \in S /\ \A y \in S : Min(S) <= y
<1>1. IsWellFoundedOn(OpToRel(<, Nat), Nat)
  BY NatLessThanWellFounded, Zenon
<1>2. PICK x \in S : \A y \in S : <<y, x>> \notin OpToRel(<, Nat)
  BY <1>1, WFMin, Zenon
<1>3. ASSUME NEW y \in S PROVE x <= y
  <2>1. ~(y < x)
    BY <1>2, Zenon DEF OpToRel
  <2>. QED
    BY <2>1
<1>. QED
  BY <1>2, <1>3 DEF Min

\* ... and a greatest one, when it is bounded.
LEMMA Greatest ==
    ASSUME NEW S \in SUBSET Nat, S # {}, NEW k \in Nat, \A y \in S : y <= k
    PROVE  \E x \in S : \A y \in S : y <= x
<1>. DEFINE T == {k - y : y \in S}
<1>1. T \in SUBSET Nat /\ T # {}
  <2>1. \A y \in S : k - y \in Nat
    OBVIOUS
  <2>. QED
    BY <2>1
<1>2. PICK t \in T : \A y \in T : t <= y
  <2>. HIDE DEF T
  <2>. QED
    BY <1>1, MinIsLeast
<1>3. PICK x \in S : t = k - x
  BY <1>2
<1>4. ASSUME NEW y \in S PROVE y <= x
  <2>1. k - y \in T
    OBVIOUS
  <2>. HIDE DEF T
  <2>2. k - x <= k - y
    BY <1>2, <1>3, <2>1
  <2>. QED
    BY <2>2
<1>. QED
  BY <1>4

---------------------------------------------------------------------------
(* The blocks in use are the first ones, as many as were ever taken, and   *)
(* each pointer has one of its own.  deleteInode clears bits that lie      *)
(* behind the data's first block, so this lasts until the blocks in use    *)
(* reach that number: from then on the disk is spent, which it stays.      *)

\* The numbers that are given: the last one is left out.
Ino == 1..(NumInodes - 1)
Blk == 1..NumBlocks
Ptrs == 1..NumPtrs
Kinds == {"none", "dir", "file"}
PtrMap == [Ptrs -> 0..NumBlocks]
Node == [type : Kinds, size : Nat, ptrs : PtrMap]

IsBlock(v) == IsSeq(v) /\ Len(v) = BlockUnits

Shape(d) ==
    /\ DOMAIN d = {"magic", "inodeBits", "blockBits", "inode", "data"}
    /\ d.inode \in [Ino \union {0, NumInodes} -> Node]
    /\ d.inodeBits \subseteq Ino
    /\ d.blockBits \subseteq Blk
    /\ d.data = [p \in Blk |-> d.data[p]]
    /\ \A p \in Blk : IsBlock(d.data[p])

Spent(bits) == 1..(DataStart - 1) \subseteq bits

\* Nothing is promised any more of what a disk says: its blocks may be spent,
\* or have run out.
Limit == IF NumBlocks < DataStart - 1 THEN NumBlocks ELSE DataStart - 1
Off(bits) == 1..Limit \subseteq bits

Grows(a, c) == (Spent(a) => Spent(c)) /\ (Off(a) => Off(c))

FirstOnes(bits) == \E k \in 0..NumBlocks : bits = 1..k

\* P holds the pointers of each inode.
Alone(P) ==
    \A x, y \in Ino : \A i, j \in Ptrs : P[x][i] = P[y][j] /\ P[x][i] # 0 => x = y /\ i = j
Marked(P, bits) == \A x \in Ino : \A i \in Ptrs : P[x][i] \in bits \union {0}

Owned(P, bits) == FirstOnes(bits) /\ Alone(P) /\ Marked(P, bits)

PointersOf(t) == [x \in Ino |-> t[x].ptrs]

Fine(t, bits) == Spent(bits) \/ Owned(PointersOf(t), bits)

Good(d) == Shape(d) /\ Fine(d.inode, d.blockBits)

IsMachine(m) ==
    DOMAIN m = {"disk", "cwd", "list", "path", "log"}

\* The disk now is good, and so was each one that the command left behind; b
\* are the blocks that were in use when the command began.
Sound(b, m) ==
    /\ IsMachine(m)
    /\ IsSeq(m.list) /\ IsSeq(m.log)
    /\ Good(m.disk)
    /\ Grows(b, m.disk.blockBits)
    /\ \A d \in ToSet(m.log) : Good(d) /\ Grows(d.blockBits, m.disk.blockBits)

LEMMA Constants ==
    /\ NumInodes \in Nat /\ NumInodes >= 3 /\ NumBlocks \in Nat \ {0} /\ DataStart \in Nat \ {0}
    /\ NumPtrs \in Nat \ {0} /\ BlockUnits \in Nat \ {0}
BY GeometryAssumption

LEMMA SoundParts ==
    ASSUME NEW b, NEW m, Sound(b, m), NEW s, IsSeq(s), NEW x, NEW p
    PROVE  /\ Sound(b, [m EXCEPT !.list = s])
           /\ Sound(b, [m EXCEPT !.list = s, !.cwd = x])
           /\ Sound(b, [m EXCEPT !.cwd = x, !.list = s, !.path = p])
<1>1. Sound(b, [m EXCEPT !.list = s])
  BY DEF Sound, IsMachine
<1>2. Sound(b, [m EXCEPT !.list = s, !.cwd = x])
  BY DEF Sound, IsMachine
<1>3. Sound(b, [m EXCEPT !.cwd = x, !.list = s, !.path = p])
  BY DEF Sound, IsMachine
<1>. QED
  BY <1>1, <1>2, <1>3

LEMMA DiskWriteSound ==
    ASSUME NEW b, NEW m, Sound(b, m), NEW d, Good(d), Grows(m.disk.blockBits, d.blockBits)
    PROVE  /\ Sound(b, DiskWrite(m, d))
           /\ DiskWrite(m, d).disk = d /\ DiskWrite(m, d).cwd = m.cwd
           /\ DiskWrite(m, d).list = m.list /\ DiskWrite(m, d).path = m.path
<1>. DEFINE n == DiskWrite(m, d)
<1>1. /\ IsMachine(n) /\ n.disk = d /\ n.log = Append(m.log, d)
      /\ n.list = m.list /\ n.cwd = m.cwd /\ n.path = m.path
  BY DEF Sound, IsMachine, DiskWrite
<1>2. IsSeq(Append(m.log, d)) /\ ToSet(Append(m.log, d)) = ToSet(m.log) \union {d}
  BY AppendIsSeq DEF Sound
<1>. HIDE DEF n
<1>3. ASSUME NEW e \in ToSet(n.log)
      PROVE  Good(e) /\ Grows(e.blockBits, n.disk.blockBits)
  BY <1>1, <1>2, <1>3 DEF Sound, Grows
<1>4. Grows(b, d.blockBits)
  BY DEF Sound, Grows
<1>5. Sound(b, n)
  BY <1>1, <1>2, <1>3, <1>4 DEF Sound
<1>. QED
  BY <1>1, <1>5 DEF n

LEMMA GrowsMore ==
    ASSUME NEW a, NEW c, a \subseteq c
    PROVE  Grows(a, c)
BY DEF Grows, Spent, Off

LEMMA LimitFacts ==
    /\ Limit \in Nat /\ Limit <= NumBlocks /\ Limit <= DataStart - 1
    /\ \A bits : Spent(bits) => Off(bits)
<1>1. NumBlocks \in Nat /\ DataStart \in Nat \ {0}
  BY Constants
<1>2. Limit \in Nat /\ Limit <= NumBlocks /\ Limit <= DataStart - 1
  BY <1>1 DEF Limit
<1>3. 1..Limit \subseteq 1..(DataStart - 1)
  BY <1>1, <1>2
<1>. QED
  BY <1>2, <1>3 DEF Spent, Off

LEMMA SuperblockSound ==
    ASSUME NEW b, NEW m, Sound(b, m)
    PROVE  Sound(b, SetSuperblock(m))
<1>. DEFINE d == [m.disk EXCEPT !.magic = TRUE]
<1>1. Shape(d) /\ d.blockBits = m.disk.blockBits /\ d.inode = m.disk.inode
  BY DEF Sound, Good, Shape
<1>. HIDE DEF d
<1>2. Good(d)
  BY <1>1 DEF Sound, Good
<1>3. Sound(b, DiskWrite(m, d))
  BY <1>1, <1>2, DiskWriteSound, GrowsMore
<1>. QED
  BY <1>3 DEF SetSuperblock, d

LEMMA InodeBitmapSound ==
    ASSUME NEW b, NEW m, Sound(b, m), NEW bits, bits \ {NumInodes} \in SUBSET Ino
    PROVE  Sound(b, SetInodeBitmap(m, bits))
<1>. DEFINE d == [m.disk EXCEPT !.inodeBits = bits \ {NumInodes}]
<1>1. Shape(d) /\ d.blockBits = m.disk.blockBits /\ d.inode = m.disk.inode
  BY DEF Sound, Good, Shape
<1>. HIDE DEF d
<1>2. Good(d)
  BY <1>1 DEF Sound, Good
<1>3. Sound(b, DiskWrite(m, d))
  BY <1>1, <1>2, DiskWriteSound, GrowsMore
<1>. QED
  BY <1>3 DEF SetInodeBitmap, d

\* Block p gets the content v.
BlockWrite(m, p, v) == DiskWrite(m, [m.disk EXCEPT !.data[p] = v])

LEMMA BlockWriteSound ==
    ASSUME NEW b, NEW m, Sound(b, m), NEW p, NEW v, IsBlock(v)
    PROVE  /\ Sound(b, BlockWrite(m, p, v))
           /\ BlockWrite(m, p, v).disk.inode = m.disk.inode
           /\ BlockWrite(m, p, v).disk.blockBits = m.disk.blockBits
<1>. DEFINE d == [m.disk EXCEPT !.data[p] = v]
<1>1. Shape(d) /\ d.blockBits = m.disk.blockBits /\ d.inode = m.disk.inode
  BY DEF Sound, Good, Shape
<1>. HIDE DEF d
<1>2. Good(d)
  BY <1>1 DEF Sound, Good
<1>3. Sound(b, DiskWrite(m, d)) /\ DiskWrite(m, d).disk = d
  BY <1>1, <1>2, DiskWriteSound, GrowsMore
<1>. QED
  BY <1>1, <1>3 DEF d, BlockWrite

LEMMA FreeBlock ==
    ASSUME NEW k \in 0..NumBlocks
    PROVE  GetFreeBlockIdx(1..k) = IF k = NumBlocks THEN 0 ELSE k + 1
<1>. DEFINE free == Blk \ 1..k
<1>1. k \in Nat /\ NumBlocks \in Nat /\ \A y : y \in free <=> y \in (k + 1)..NumBlocks
  BY Constants DEF Blk
<1>2. CASE k = NumBlocks
  <2>1. free = {}
    BY <1>1, <1>2
  <2>. QED
    BY <1>2, <2>1 DEF GetFreeBlockIdx, Blk
<1>3. CASE k # NumBlocks
  <2>1. k + 1 \in free /\ free \in SUBSET Nat /\ \A y \in free : y \in Nat /\ k + 1 <= y
    BY <1>1, <1>3
  <2>. HIDE DEF free
  <2>2. Min(free) \in free /\ Min(free) <= k + 1
    BY <2>1, MinIsLeast
  <2>3. Min(free) = k + 1
    BY <1>1, <2>1, <2>2
  <2>. QED
    BY <1>3, <2>1, <2>3 DEF GetFreeBlockIdx, Blk, free
<1>. QED
  BY <1>2, <1>3

LEMMA FreeBlockInRange ==
    ASSUME NEW bits \in SUBSET Blk
    PROVE  GetFreeBlockIdx(bits) \in 0..NumBlocks
<1>. DEFINE free == Blk \ bits
<1>1. CASE free = {}
  BY <1>1, Constants DEF GetFreeBlockIdx, Blk
<1>2. CASE free # {}
  <2>1. free \in SUBSET Nat /\ free \subseteq 0..NumBlocks
    BY Constants DEF Blk
  <2>. HIDE DEF free
  <2>2. Min(free) \in free
    BY <1>2, <2>1, MinIsLeast
  <2>. QED
    BY <1>2, <2>1, <2>2 DEF GetFreeBlockIdx, Blk, free
<1>. QED
  BY <1>1, <1>2

LEMMA FreeInode ==
    ASSUME NEW bits
    PROVE  GetFreeInodeIdx(bits) \in 1..NumInodes
<1>. DEFINE free == (1..NumInodes) \ bits
<1>1. CASE free = {}
  BY <1>1, Constants DEF GetFreeInodeIdx, SIZE_ERROR
<1>2. CASE free # {}
  <2>1. free \in SUBSET Nat /\ free \subseteq 1..NumInodes
    BY Constants
  <2>. HIDE DEF free
  <2>2. Min(free) \in free
    BY <1>2, <2>1, MinIsLeast
  <2>. QED
    BY <1>2, <2>1, <2>2 DEF GetFreeInodeIdx, free
<1>. QED
  BY <1>1, <1>2

\* A pointer that an inode loses harms no one.
LEMMA FewerPointers ==
    ASSUME NEW P, NEW Q, NEW bits, Owned(P, bits),
           \A x \in Ino : \A i \in Ptrs : Q[x][i] = P[x][i] \/ Q[x][i] = 0
    PROVE  Owned(Q, bits)
<1>1. Alone(Q)
  BY DEF Owned, Alone
<1>2. Marked(Q, bits)
  BY DEF Owned, Marked
<1>. QED
  BY <1>1, <1>2 DEF Owned

LEMMA NewInodeIsNode ==
    ASSUME NEW type \in Kinds
    PROVE  NewInode(type) \in Node /\ \A i \in Ptrs : NewInode(type).ptrs[i] = 0
BY Constants DEF NewInode, Node, PtrMap, Ptrs

LEMMA SetInodeSound ==
    ASSUME NEW b, NEW m, Sound(b, m), NEW x, NEW node \in Node,
           x \in Ino => Fine([m.disk.inode EXCEPT ![x] = node], m.disk.blockBits)
    PROVE  Sound(b, SetInode(m, x, node))
<1>. DEFINE d == [m.disk EXCEPT !.inode[x] = node]
            t == [m.disk.inode EXCEPT ![x] = node]
<1>1. Shape(d) /\ d.blockBits = m.disk.blockBits /\ d.inode = t
  BY DEF Sound, Good, Shape
<1>2. x \notin Ino => PointersOf(t) = PointersOf(m.disk.inode)
  BY DEF Sound, Good, Shape, PointersOf
<1>3. x \notin Ino => Fine(t, m.disk.blockBits)
  <2>. HIDE DEF t
  <2>. QED
    BY <1>2 DEF Sound, Good, Fine
<1>. HIDE DEF d
<1>5. Good(d)
  BY <1>1, <1>3 DEF Good
<1>4. Sound(b, DiskWrite(m, d))
  BY <1>1, <1>5, DiskWriteSound, GrowsMore
<1>. QED
  BY <1>4 DEF SetInode, d

LEMMA CreateInodeSound ==
    ASSUME NEW b, NEW m, Sound(b, m), NEW x, NEW type \in Kinds
    PROVE  Sound(b, SetInode(m, x, NewInode(type)))
<1>. DEFINE node == NewInode(type)
            t == [m.disk.inode EXCEPT ![x] = node]
<1>1. node \in Node /\ \A i \in Ptrs : node.ptrs[i] = 0
  BY NewInodeIsNode
<1>. HIDE DEF node
<1>2. ASSUME x \in Ino, Owned(PointersOf(m.disk.inode), m.disk.blockBits)
      PROVE  Owned(PointersOf(t), m.disk.blockBits)
  <2>1. \A y \in Ino : \A i \in Ptrs : \/ PointersOf(t)[y][i] = PointersOf(m.disk.inode)[y][i]
                                       \/ PointersOf(t)[y][i] = 0
    BY <1>1 DEF PointersOf, Sound, Good, Shape
  <2>. HIDE DEF t
  <2>. QED
    BY <1>2, <2>1, FewerPointers
<1>3. x \in Ino => Fine(t, m.disk.blockBits)
  BY <1>2 DEF Fine, Sound, Good
<1>. QED
  BY <1>1, <1>3, SetInodeSound DEF node

LEMMA OwnSlot ==
    ASSUME NEW x \in Ino
    PROVE  x % NumInodes = x
<1>. DEFINE q == x \div NumInodes
            e == x % NumInodes
<1>1. x \in Nat /\ x < NumInodes /\ NumInodes \in Nat \ {0}
  BY Constants DEF Ino
<1>2. q \in Nat /\ e \in 0..(NumInodes - 1) /\ x = q * NumInodes + e
  BY <1>1
<1>. HIDE DEF q, e
<1>3. ASSUME q >= 1 PROVE FALSE
  <2>1. (q - 1) * NumInodes >= 0
    BY <1>1, <1>2, <1>3
  <2>2. q * NumInodes = (q - 1) * NumInodes + NumInodes
    BY <1>1, <1>2
  <2>. QED
    BY <1>1, <1>2, <2>1, <2>2
<1>4. q = 0
  BY <1>2, <1>3
<1>5. q * NumInodes = 0
  BY <1>1, <1>4
<1>. QED
  BY <1>1, <1>2, <1>5 DEF e

LEMMA GetInodeIsNode ==
    ASSUME NEW d, Shape(d), NEW x
    PROVE  GetInode(d, x) \in Node /\ (x \in Ino => GetInode(d, x) = d.inode[x])
<1>1. NewInode("none") \in Node
  BY NewInodeIsNode DEF Kinds
<1>. DEFINE y == x % NumInodes
<1>2. x \in Ino => y = x
  BY OwnSlot
<1>3. GetInode(d, x) = IF y \in DOMAIN d.inode THEN d.inode[y] ELSE NewInode("none")
  BY DEF GetInode
<1>. HIDE DEF y
<1>. QED
  BY <1>1, <1>2, <1>3 DEF Shape

\* What the heap holds behind the buffer is not stored.
LEMMA NotStored ==
    ASSUME NEW d, Shape(d), NEW S
    PROVE  /\ (GetInodeBitmap(d) \ S) \ {NumInodes} = d.inodeBits \ S
           /\ S \subseteq Ino => (GetInodeBitmap(d) \union S) \ {NumInodes} = d.inodeBits \union S
<1>1. NumInodes \notin Ino
  BY Constants DEF Ino
<1>2. HeapBit \subseteq {NumInodes}
  BY GeometryAssumption
<1>. QED
  BY <1>1, <1>2 DEF GetInodeBitmap, Shape

\* The bits that deleteInode clears are not among the blocks in use.
LEMMA DeleteInodeSound ==
    ASSUME NEW b, NEW m, Sound(b, m), NEW x
    PROVE  Sound(b, DeleteInode(m, x))
<1>. DEFINE cleared == {RevBlockOffset(p) : p \in ToSet(GetInode(m.disk, x).ptrs) \ {0}}
            bits == m.disk.blockBits \ cleared
            d == [m.disk EXCEPT !.blockBits = bits]
            n == DiskWrite(m, d)
<1>1. \A c \in cleared : c \in Nat /\ c >= DataStart
  <2>. SUFFICES ASSUME NEW p \in ToSet(GetInode(m.disk, x).ptrs) \ {0}
                PROVE  RevBlockOffset(p) \in Nat /\ RevBlockOffset(p) >= DataStart
    OBVIOUS
  <2>1. GetInode(m.disk, x) \in Node
    BY GetInodeIsNode DEF Sound, Good
  <2>2. p \in Nat \ {0}
    BY <2>1, Constants DEF ToSet, Node, PtrMap
  <2>. QED
    BY <2>2, Constants DEF RevBlockOffset
<1>2. Shape(d) /\ d.blockBits = bits /\ d.inode = m.disk.inode
  BY DEF Sound, Good, Shape
<1>. HIDE DEF cleared
<1>3. Grows(m.disk.blockBits, bits)
  <2>1. ASSUME NEW i \in 1..(DataStart - 1) PROVE i \notin cleared
    BY <1>1, Constants
  <2>2. 1..Limit \subseteq 1..(DataStart - 1)
    BY LimitFacts, Constants
  <2>. QED
    BY <2>1, <2>2 DEF Grows, Spent, Off
<1>4. ASSUME Owned(PointersOf(m.disk.inode), m.disk.blockBits), ~Spent(m.disk.blockBits)
      PROVE  bits = m.disk.blockBits
  <2>1. PICK k \in 0..NumBlocks : m.disk.blockBits = 1..k
    BY <1>4 DEF Owned, FirstOnes
  <2>2. k < DataStart
    BY <1>4, <2>1, Constants DEF Spent
  <2>. QED
    BY <1>1, <2>1, <2>2, Constants
<1>. HIDE DEF bits, d
<1>5. Good(d)
  BY <1>2, <1>3, <1>4 DEF Sound, Good, Fine, Grows
<1>6. Sound(b, n) /\ n.disk = d
  BY <1>2, <1>3, <1>5, DiskWriteSound
<1>7. n = SetBlockBitmap(m, bits)
  BY DEF SetBlockBitmap, d
<1>. HIDE DEF n
<1>8. (GetInodeBitmap(m.disk) \ {x}) \ {NumInodes} \in SUBSET Ino
  <2>1. Shape(m.disk)
    BY DEF Sound, Good
  <2>2. (GetInodeBitmap(m.disk) \ {x}) \ {NumInodes} = m.disk.inodeBits \ {x}
    BY <2>1, NotStored
  <2>. QED
    BY <2>1, <2>2 DEF Shape
<1>9. Sound(b, SetInodeBitmap(n, GetInodeBitmap(m.disk) \ {x}))
  BY <1>6, <1>8, InodeBitmapSound
<1>. QED
  BY <1>7, <1>9 DEF DeleteInode, bits, cleared

---------------------------------------------------------------------------
(* The units of a content and the blocks that hold them.                   *)

\* The place in the content of unit j of block i.
Place(i, j) == (i - 1) * BlockUnits + j

LEMMA DivMod ==
    ASSUME NEW a \in Nat, NEW d \in Nat \ {0}
    PROVE  a \div d \in Nat /\ a % d \in 0..(d - 1) /\ a = (a \div d) * d + (a % d)
OBVIOUS

LEMMA Grow ==
    ASSUME NEW i \in Int, NEW j \in Int, NEW d \in Nat, i <= j
    PROVE  i * d <= j * d
<1>1. (j - i) * d >= 0
  OBVIOUS
<1>. QED
  BY <1>1

LEMMA PlaceOf ==
    ASSUME NEW k \in Nat \ {0}
    PROVE  \E i \in Nat \ {0}, j \in 1..BlockUnits :
              i = (k - 1) \div BlockUnits + 1 /\ j = ((k - 1) % BlockUnits) + 1 /\ k = Place(i, j)
<1>. DEFINE q == (k - 1) \div BlockUnits
            e == (k - 1) % BlockUnits
<1>1. BlockUnits \in Nat \ {0} /\ k - 1 \in Nat
  BY Constants
<1>2. q \in Nat /\ e \in 0..(BlockUnits - 1) /\ k - 1 = q * BlockUnits + e
  BY <1>1, DivMod
<1>. HIDE DEF q, e
<1>3. q + 1 \in Nat \ {0} /\ e + 1 \in 1..BlockUnits /\ (q + 1) - 1 = q
  BY <1>1, <1>2
<1>4. k = Place(q + 1, e + 1)
  BY <1>1, <1>2, <1>3 DEF Place
<1>. QED
  BY <1>3, <1>4 DEF q, e

LEMMA ChunkFacts ==
    ASSUME NEW units, IsSeq(units), NEW i \in Nat \ {0}
    PROVE  /\ IsSeq(Chunk(units, i)) /\ Len(Chunk(units, i)) \in 0..BlockUnits
           /\ \A j \in 1..BlockUnits :
                /\ j <= Len(Chunk(units, i)) <=> Place(i, j) <= Len(units)
                /\ j <= Len(Chunk(units, i)) => Chunk(units, i)[j] = units[Place(i, j)]
<1>. DEFINE a == (i - 1) * BlockUnits
            S == {i * BlockUnits, Len(units)}
            last == Min(S)
<1>1. Len(units) \in Nat /\ BlockUnits \in Nat \ {0}
  BY SeqFacts, Constants
<1>2. a \in Nat /\ i * BlockUnits = a + BlockUnits
  BY <1>1
<1>3. \A j : Place(i, j) = a + j
  BY DEF Place
<1>. HIDE DEF a
<1>4. S \in SUBSET Nat /\ S # {}
  BY <1>1, <1>2
<1>5. last \in S /\ last <= a + BlockUnits /\ last <= Len(units)
  <2>. HIDE DEF S
  <2>1. last \in S /\ \A y \in S : last <= y
    BY <1>4, MinIsLeast
  <2>. QED
    BY <1>2, <2>1 DEF S
<1>6. last \in Nat /\ (last = a + BlockUnits \/ last = Len(units))
  BY <1>1, <1>2, <1>5
<1>7. Chunk(units, i) = SubSeq(units, a + 1, last)
  BY DEF Chunk, a
<1>. HIDE DEF last
<1>8. /\ IsSeq(SubSeq(units, a + 1, last))
      /\ Len(SubSeq(units, a + 1, last)) = IF a + 1 <= last THEN last - (a + 1) + 1 ELSE 0
      /\ \A j \in 1..last - (a + 1) + 1 : SubSeq(units, a + 1, last)[j] = units[a + 1 + j - 1]
  BY <1>2, <1>6, SubSeqIsSeq
<1>9. ASSUME NEW j \in 1..BlockUnits
      PROVE  /\ j <= Len(Chunk(units, i)) <=> a + j <= Len(units)
             /\ j <= Len(Chunk(units, i)) => Chunk(units, i)[j] = units[a + j]
  BY <1>1, <1>2, <1>5, <1>6, <1>7, <1>8
<1>10. Len(Chunk(units, i)) \in 0..BlockUnits
  BY <1>1, <1>2, <1>5, <1>6, <1>7, <1>8
<1>. QED
  BY <1>3, <1>7, <1>8, <1>9, <1>10

\* A content that has room is written as a whole.
LEMMA ChunksCover ==
    ASSUME NEW units, IsSeq(units), Len(units) <= NumPtrs * BlockUnits,
           NEW i \in Nat \ {0}, NEW j \in 1..BlockUnits, Place(i, j) <= Len(units)
    PROVE  i \in 1..Chunks(units)
<1>. DEFINE c == (Len(units) + BlockUnits - 1) \div BlockUnits
            e == (Len(units) + BlockUnits - 1) % BlockUnits
            S == {NumPtrs, c}
<1>1. Len(units) \in Nat /\ NumPtrs \in Nat /\ BlockUnits \in Nat \ {0}
  BY SeqFacts, Constants
<1>2. c \in Nat /\ e \in 0..(BlockUnits - 1) /\ Len(units) + BlockUnits - 1 = c * BlockUnits + e
  <2>1. Len(units) + BlockUnits - 1 \in Nat
    BY <1>1
  <2>. QED
    BY <1>1, <2>1, DivMod
<1>. HIDE DEF c, e
<1>3. (i - 1) * BlockUnits < Len(units) /\ (i - 1) * BlockUnits \in Int
  BY <1>1 DEF Place
<1>4. c * BlockUnits \in Int /\ NumPtrs * BlockUnits \in Int /\ Len(units) <= c * BlockUnits
  BY <1>1, <1>2
<1>5. ~(c <= i - 1)
  BY <1>1, <1>2, <1>3, <1>4, Grow
<1>6. ~(NumPtrs <= i - 1)
  BY <1>1, <1>3, <1>4, Grow
<1>7. S \in SUBSET Nat /\ S # {} /\ \A y \in S : i <= y
  BY <1>1, <1>2, <1>5, <1>6
<1>. HIDE DEF S
<1>8. Min(S) \in S
  BY <1>7, MinIsLeast
<1>. QED
  BY <1>7, <1>8 DEF Chunks, S, c

LEMMA OverlayFacts ==
    ASSUME NEW s, IsSeq(s), Len(s) \in 0..BlockUnits, NEW v, IsBlock(v)
    PROVE  /\ IsBlock(Overlay(s, v))
           /\ \A j \in 1..BlockUnits : Overlay(s, v)[j] = IF j <= Len(s) THEN s[j] ELSE v[j]
<1>. DEFINE t == SubSeq(v, Len(s) + 1, BlockUnits)
<1>1. BlockUnits \in Nat \ {0} /\ Len(s) \in Nat
  BY Constants
<1>2. IsSeq(t) /\ Len(t) = BlockUnits - Len(s)
  BY <1>1, SubSeqIsSeq
<1>3. \A j \in 1..BlockUnits - Len(s) : t[j] = v[Len(s) + j]
  BY <1>1, SubSeqIsSeq
<1>. HIDE DEF t
<1>4. /\ IsSeq(s \o t) /\ Len(s \o t) = BlockUnits
      /\ \A j \in 1..BlockUnits : (s \o t)[j] = IF j <= Len(s) THEN s[j] ELSE t[j - Len(s)]
  BY <1>1, <1>2, ConcatIsSeq
<1>5. ASSUME NEW j \in 1..BlockUnits PROVE (s \o t)[j] = IF j <= Len(s) THEN s[j] ELSE v[j]
  BY <1>1, <1>3, <1>4
<1>. QED
  BY <1>4, <1>5 DEF Overlay, IsBlock, t

---------------------------------------------------------------------------
(* writeInode: each block is marked before an inode points at it.          *)

Pointing(t, x, ptrs) == [PointersOf(t) EXCEPT ![x] = ptrs]

\* What has come of writing to inode x of the machine m.
Writing(b, w, m, x) ==
    /\ DOMAIN w = {"m", "ptrs", "ok"}
    /\ Sound(b, w.m)
    /\ w.m.disk.inode = m.disk.inode
    /\ w.ptrs \in PtrMap
    /\ Spent(w.m.disk.blockBits) \/ Owned(Pointing(m.disk.inode, x, w.ptrs), w.m.disk.blockBits)

\* Q is P but for pointer i of inode x, which is p.
Given(Q, P, x, i, p) ==
    \A y \in Ino, j \in Ptrs : Q[y][j] = IF y = x /\ j = i THEN p ELSE P[y][j]

\* The first block that nobody has is marked, and given to inode x.
LEMMA TakeBlock ==
    ASSUME NEW P, NEW bits, Owned(P, bits), NEW p, p = GetFreeBlockIdx(bits), p # 0
    PROVE  /\ Owned(P, bits \union {p})
           /\ \A Q, x, i : Given(Q, P, x, i, p) => Owned(Q, bits \union {p})
<1>1. PICK k \in 0..NumBlocks : bits = 1..k
  BY DEF Owned, FirstOnes
<1>2. p = k + 1 /\ k + 1 \in 0..NumBlocks
  BY <1>1, FreeBlock, Constants
<1>3. bits \union {p} = 1..(k + 1)
  BY <1>1, <1>2
<1>4. FirstOnes(bits \union {p}) /\ p \notin bits
  BY <1>1, <1>2, <1>3 DEF FirstOnes
<1>5. Alone(P) /\ Marked(P, bits)
  BY DEF Owned
<1>6. Owned(P, bits \union {p})
  BY <1>4, <1>5 DEF Owned, Marked
<1>7. ASSUME NEW Q, NEW x, NEW i, Given(Q, P, x, i, p)
      PROVE  Owned(Q, bits \union {p})
  <2>1. Marked(Q, bits \union {p})
    BY <1>5, <1>7 DEF Marked, Given
  <2>2. Alone(Q)
    BY <1>4, <1>5, <1>7 DEF Marked, Alone, Given
  <2>. QED
    BY <1>4, <2>1, <2>2 DEF Owned
<1>. QED
  BY <1>6, <1>7

LEMMA MarkBlockSound ==
    ASSUME NEW b, NEW m, Sound(b, m), NEW p, p = GetFreeBlockIdx(m.disk.blockBits), p # 0
    PROVE  LET n == SetBlockBitmap(m, m.disk.blockBits \union {p})
           IN  /\ Sound(b, n) /\ n.disk.inode = m.disk.inode
               /\ n.disk.blockBits = m.disk.blockBits \union {p}
<1>. DEFINE bits == m.disk.blockBits \union {p}
            d == [m.disk EXCEPT !.blockBits = bits]
            n == DiskWrite(m, d)
<1>1. p \in Blk
  BY FreeBlockInRange, Constants DEF Blk, Sound, Good, Shape
<1>2. Shape(d) /\ d.blockBits = bits /\ d.inode = m.disk.inode
  BY <1>1 DEF Sound, Good, Shape
<1>3. Grows(m.disk.blockBits, bits)
  BY GrowsMore
<1>4. Owned(PointersOf(m.disk.inode), m.disk.blockBits) => Owned(PointersOf(m.disk.inode), bits)
  BY TakeBlock
<1>. HIDE DEF bits, d
<1>5. Good(d)
  BY <1>2, <1>3, <1>4 DEF Sound, Good, Fine, Grows
<1>6. Sound(b, n) /\ n.disk = d
  BY <1>2, <1>3, <1>5, DiskWriteSound
<1>7. n = SetBlockBitmap(m, bits)
  BY DEF SetBlockBitmap, d
<1>. QED
  BY <1>2, <1>6, <1>7 DEF bits

LEMMA WriteBlockWrites ==
    ASSUME NEW b, NEW m, NEW x, NEW w, Writing(b, w, m, x), NEW units, IsSeq(units),
           Len(units) \in 0..BlockUnits, NEW i \in Ptrs
    PROVE  Writing(b, WriteBlock(w, units, i), m, x)
<1>. DEFINE new == w.ptrs[i] = 0
            p == IF new THEN GetFreeBlockIdx(w.m.disk.blockBits) ELSE w.ptrs[i]
            marked == IF new THEN SetBlockBitmap(w.m, w.m.disk.blockBits \union {p}) ELSE w.m
            Data(n) == DiskWrite(n, [n.disk EXCEPT !.data[p] = Overlay(units, @)])
            q == [w.ptrs EXCEPT ![i] = p]
            after == Data(marked)
<1>1. CASE ~w.ok \/ p = 0
  <2>1. WriteBlock(w, units, i) = [w EXCEPT !.ok = FALSE]
    BY <1>1 DEF WriteBlock
  <2>. QED
    BY <2>1 DEF Writing
<1>2. CASE ~(~w.ok \/ p = 0)
  <2>1. p \in 1..NumBlocks
    <3>1. p \in 0..NumBlocks
      BY FreeBlockInRange DEF Writing, Sound, Good, Shape, PtrMap
    <3>. QED
      BY <1>2, <3>1, Constants
  <2>2. /\ Sound(b, marked) /\ marked.disk.inode = m.disk.inode
        /\ Spent(marked.disk.blockBits) \/ Owned(Pointing(m.disk.inode, x, q), marked.disk.blockBits)
    <3>1. CASE new
      <4>1. /\ Sound(b, marked) /\ marked.disk.inode = m.disk.inode
            /\ marked.disk.blockBits = w.m.disk.blockBits \union {p}
        BY <1>2, <3>1, MarkBlockSound DEF Writing
      <4>2. Spent(w.m.disk.blockBits) => Spent(marked.disk.blockBits)
        BY <4>1 DEF Spent
      <4>3. ASSUME Owned(Pointing(m.disk.inode, x, w.ptrs), w.m.disk.blockBits)
            PROVE  Owned(Pointing(m.disk.inode, x, q), marked.disk.blockBits)
        <5>. DEFINE P == Pointing(m.disk.inode, x, w.ptrs)
                    Q == Pointing(m.disk.inode, x, q)
        <5>1. Given(Q, P, x, i, p)
          BY DEF Given, Pointing, PointersOf, Writing, PtrMap
        <5>2. Owned(P, w.m.disk.blockBits)
          BY <4>3
        <5>3. p = GetFreeBlockIdx(w.m.disk.blockBits) /\ p # 0
          BY <1>2, <3>1
        <5>. HIDE DEF P, Q, p
        <5>4. Owned(Q, w.m.disk.blockBits \union {p})
          BY <5>1, <5>2, <5>3, TakeBlock
        <5>. QED
          BY <4>1, <5>4 DEF Q
      <4>. QED
        BY <4>1, <4>2, <4>3 DEF Writing
    <3>2. CASE ~new
      <4>1. marked = w.m /\ q = w.ptrs
        BY <3>2 DEF Writing, PtrMap
      <4>. QED
        BY <4>1 DEF Writing
    <3>. QED
      BY <3>1, <3>2
  <2>3. q \in PtrMap
    BY <2>1 DEF Writing, PtrMap
  <2>4. /\ Sound(b, after) /\ after.disk.inode = marked.disk.inode
        /\ after.disk.blockBits = marked.disk.blockBits
    <3>. HIDE DEF p, marked
    <3>. DEFINE v == Overlay(units, marked.disk.data[p])
    <3>1. IsBlock(v)
      BY <2>1, <2>2, OverlayFacts DEF Sound, Good, Shape, Blk
    <3>. HIDE DEF v
    <3>2. /\ Sound(b, BlockWrite(marked, p, v))
          /\ BlockWrite(marked, p, v).disk.inode = marked.disk.inode
          /\ BlockWrite(marked, p, v).disk.blockBits = marked.disk.blockBits
      BY <2>2, <3>1, BlockWriteSound
    <3>3. after = BlockWrite(marked, p, v)
      BY DEF BlockWrite, v
    <3>. QED
      BY <3>2, <3>3
  <2>5. WriteBlock(w, units, i) = [w EXCEPT !.ptrs[i] = p, !.m = after]
    BY <1>2 DEF WriteBlock
  <2>. HIDE DEF after, marked
  <2>6. /\ DOMAIN WriteBlock(w, units, i) = {"m", "ptrs", "ok"}
        /\ WriteBlock(w, units, i).m = after /\ WriteBlock(w, units, i).ptrs = q
    BY <2>5 DEF Writing
  <2>. HIDE DEF q, p
  <2>. QED
    BY <2>2, <2>3, <2>4, <2>6 DEF Writing
<1>. QED
  BY <1>1, <1>2

\* The blocks of the content, one after the other.
IsWriting(f, m, units, x, n) ==
    f = [i \in 0..n |->
            IF i = 0 THEN [m |-> m, ptrs |-> GetInode(m.disk, x).ptrs, ok |-> TRUE]
            ELSE WriteBlock(f[i - 1], Chunk(units, i), i)]

LEMMA WritingExists ==
    ASSUME NEW m, NEW units, NEW x, NEW n \in Nat
    PROVE  \E f : IsWriting(f, m, units, x, n)
<1>. DEFINE None == {k \in 0..n : ~\E f : IsWriting(f, m, units, x, k)}
            Start == [m |-> m, ptrs |-> GetInode(m.disk, x).ptrs, ok |-> TRUE]
<1>1. CASE None = {}
  BY <1>1
<1>2. CASE None # {}
  <2>1. PICK k \in None : \A j \in None : k <= j
    <3>1. None \in SUBSET Nat
      OBVIOUS
    <3>. HIDE DEF None
    <3>. QED
      BY <1>2, <3>1, MinIsLeast
  <2>2. CASE k = 0
    <3>1. IsWriting([i \in 0..0 |-> Start], m, units, x, k)
      BY <2>2 DEF IsWriting
    <3>. QED
      BY <2>1, <3>1
  <2>3. CASE k # 0
    <3>1. k - 1 \in 0..n /\ k - 1 \notin None /\ k \in 1..n
      BY <2>1, <2>3
    <3>2. PICK f : IsWriting(f, m, units, x, k - 1)
      BY <3>1
    <3>. DEFINE g == [i \in 0..k |-> IF i < k THEN f[i] ELSE WriteBlock(f[k - 1], Chunk(units, k), k)]
    <3>3. ASSUME NEW i \in 0..k
          PROVE  g[i] = IF i = 0 THEN Start ELSE WriteBlock(g[i - 1], Chunk(units, i), i)
      <4>1. CASE i < k
        <5>1. i \in 0..(k - 1) /\ g[i] = f[i] /\ (i # 0 => g[i - 1] = f[i - 1])
          BY <3>1, <4>1
        <5>2. f[i] = IF i = 0 THEN Start ELSE WriteBlock(f[i - 1], Chunk(units, i), i)
          BY <3>2, <5>1 DEF IsWriting
        <5>. QED
          BY <5>1, <5>2
      <4>2. CASE i = k
        BY <3>1, <4>2
      <4>. QED
        BY <3>1, <4>1, <4>2
    <3>4. IsWriting(g, m, units, x, k)
      BY <3>3 DEF IsWriting
    <3>. QED
      BY <2>1, <3>4
  <2>. QED
    BY <2>2, <2>3
<1>. QED
  BY <1>1, <1>2

LEMMA WritingGoesOn ==
    ASSUME NEW b, NEW m, Sound(b, m), NEW units, IsSeq(units), NEW x, NEW n \in 0..NumPtrs,
           NEW f, IsWriting(f, m, units, x, n), NEW l \in 0..n
    PROVE  Writing(b, f[l], m, x)
<1>. DEFINE Bad == {k \in 0..n : ~Writing(b, f[k], m, x)}
<1>1. n \in Nat /\ n <= NumPtrs /\ NumPtrs \in Nat
  BY Constants
<1>2. CASE Bad = {}
  BY <1>2
<1>3. CASE Bad # {}
  <2>1. PICK k \in Bad : \A j \in Bad : k <= j
    <3>1. Bad \in SUBSET Nat
      OBVIOUS
    <3>. HIDE DEF Bad
    <3>. QED
      BY <1>3, <3>1, MinIsLeast
  <2>2. CASE k = 0
    <3>1. f[0] = [m |-> m, ptrs |-> GetInode(m.disk, x).ptrs, ok |-> TRUE]
      BY <1>1 DEF IsWriting
    <3>2. GetInode(m.disk, x) \in Node /\ (x \in Ino => GetInode(m.disk, x) = m.disk.inode[x])
      BY GetInodeIsNode DEF Sound, Good
    <3>3. Pointing(m.disk.inode, x, GetInode(m.disk, x).ptrs) = PointersOf(m.disk.inode)
      BY <3>2 DEF Pointing, PointersOf
    <3>4. GetInode(m.disk, x).ptrs \in PtrMap
      BY <3>2 DEF Node
    <3>5. Writing(b, f[0], m, x)
      BY <3>1, <3>3, <3>4 DEF Writing, Sound, Good, Fine
    <3>. QED
      BY <2>1, <2>2, <3>5
  <2>3. CASE k # 0
    <3>1. k - 1 \in 0..n /\ k - 1 \notin Bad /\ k \in 0..n /\ k \in Ptrs
      BY <1>1, <2>1, <2>3 DEF Ptrs
    <3>2. f[k] = WriteBlock(f[k - 1], Chunk(units, k), k)
      BY <2>3, <3>1 DEF IsWriting
    <3>3. Writing(b, f[k - 1], m, x)
      BY <3>1
    <3>4. Writing(b, f[k], m, x)
      BY <3>1, <3>2, <3>3, ChunkFacts, WriteBlockWrites DEF Ptrs
    <3>. QED
      BY <2>1, <3>4
  <2>. QED
    BY <2>2, <2>3
<1>. QED
  BY <1>2, <1>3

LEMMA ChunksInRange ==
    ASSUME NEW units, IsSeq(units)
    PROVE  Chunks(units) \in 0..NumPtrs
<1>. DEFINE c == (Len(units) + BlockUnits - 1) \div BlockUnits
            S == {NumPtrs, c}
<1>1. Len(units) \in Nat /\ NumPtrs \in Nat /\ BlockUnits \in Nat \ {0}
  BY SeqFacts, Constants
<1>2. c \in Nat
  BY <1>1
<1>. HIDE DEF c
<1>3. S \in SUBSET Nat /\ S # {} /\ NumPtrs \in S
  BY <1>1, <1>2
<1>. HIDE DEF S
<1>4. Min(S) \in S /\ Min(S) <= NumPtrs /\ Min(S) \in Nat
  BY <1>3, MinIsLeast
<1>. QED
  BY <1>1, <1>4 DEF Chunks, S, c

LEMMA WriteInodeSound ==
    ASSUME NEW b, NEW m, Sound(b, m), NEW units, IsSeq(units), NEW x
    PROVE  Sound(b, WriteInode(m, units, x))
<1>. DEFINE n == Chunks(units)
            f == CHOOSE f : IsWriting(f, m, units, x, n)
            w == f[n]
            node == [GetInode(m.disk, x) EXCEPT !.size = Len(units), !.ptrs = w.ptrs]
            t == [w.m.disk.inode EXCEPT ![x] = node]
<1>1. n \in 0..NumPtrs /\ n \in Nat
  BY ChunksInRange
<1>2. IsWriting(f, m, units, x, n)
  <2>. HIDE DEF n
  <2>. QED
    BY <1>1, WritingExists
<1>3. WriteInode(m, units, x) = IF w.ok THEN SetInode(w.m, x, node) ELSE w.m
  BY DEF WriteInode, IsWriting
<1>. HIDE DEF f, n
<1>4. Writing(b, w, m, x)
  <2>1. n \in 0..n
    BY <1>1
  <2>. QED
    BY <1>1, <1>2, <2>1, WritingGoesOn
<1>. HIDE DEF w
<1>5. GetInode(m.disk, x) \in Node /\ (x \in Ino => GetInode(m.disk, x) = m.disk.inode[x])
  BY GetInodeIsNode DEF Sound, Good
<1>6. Len(units) \in Nat
  BY SeqFacts
<1>7. node \in Node /\ node.ptrs = w.ptrs
  BY <1>4, <1>5, <1>6 DEF Node, Writing
<1>. HIDE DEF node
<1>8. PointersOf(t) = Pointing(m.disk.inode, x, w.ptrs)
  BY <1>4, <1>7 DEF Writing, Pointing, PointersOf, Sound, Good, Shape
<1>9. Fine(t, w.m.disk.blockBits) /\ Sound(b, w.m)
  BY <1>4, <1>8 DEF Fine, Writing
<1>10. Sound(b, SetInode(w.m, x, node))
  BY <1>7, <1>9, SetInodeSound
<1>. QED
  BY <1>3, <1>9, <1>10

---------------------------------------------------------------------------
(* The operations on entries and files, each from what it writes.          *)

LEMMA DataIsSeq ==
    ASSUME NEW d, Shape(d), NEW x
    PROVE  IsSeq(GetInodeData(d, x)) /\ IsSeq(ReadDirectoryList(d, x))
<1>. DEFINE s == GetInodeData(d, x)
            n == GetInode(d, x).size
<1>1. n \in Nat
  BY GetInodeIsNode DEF Node
<1>2. s = [k \in 1..n |-> s[k]]
  BY DEF GetInodeData
<1>. HIDE DEF s, n
<1>3. IsSeq(s)
  BY <1>1, <1>2, FunctionIsSeq
<1>. QED
  BY <1>3, EmptyIsSeq DEF ReadDirectoryList, s

LEMMA CreateDirEntrySound ==
    ASSUME NEW b, NEW m, Sound(b, m), NEW name, NEW type \in Kinds
    PROVE  Sound(b, CreateDirEntry(m, name, type).m)
<1>. DEFINE x == GetFreeInodeIdx(GetInodeBitmap(m.disk))
            bits == GetInodeBitmap(m.disk) \union {x}
<1>1. bits \ {NumInodes} \in SUBSET Ino
  <2>1. x \in 1..NumInodes
    BY FreeInode
  <2>. HIDE DEF x
  <2>2. x \in Ino \union {NumInodes}
    BY <2>1, Constants DEF Ino
  <2>3. HeapBit \subseteq {NumInodes} /\ m.disk.inodeBits \subseteq Ino
    BY GeometryAssumption DEF Sound, Good, Shape
  <2>. QED
    BY <2>2, <2>3 DEF GetInodeBitmap
<1>. HIDE DEF x
<1>2. Sound(b, SetInode(m, x, NewInode(type)))
  BY CreateInodeSound
<1>. HIDE DEF bits
<1>3. Sound(b, SetInodeBitmap(SetInode(m, x, NewInode(type)), bits))
  BY <1>1, <1>2, InodeBitmapSound
<1>4. CreateDirEntry(m, name, type).m = SetInodeBitmap(SetInode(m, x, NewInode(type)), bits)
  BY DEF CreateDirEntry, x, bits
<1>. QED
  BY <1>3, <1>4

LEMMA WithList ==
    ASSUME NEW b, NEW m, Sound(b, m), NEW s, IsSeq(s), NEW x
    PROVE  Sound(b, [m EXCEPT !.list = s]) /\ Sound(b, [m EXCEPT !.list = s, !.cwd = x])
BY SoundParts

LEMMA AddDirEntrySound ==
    ASSUME NEW b, NEW m, Sound(b, m), NEW entry
    PROVE  Sound(b, AddDirEntryToPath(m, entry))
<1>. DEFINE new == Append(m.list, entry)
<1>1. IsSeq(new)
  BY AppendIsSeq DEF Sound
<1>. HIDE DEF new
<1>2. Sound(b, [m EXCEPT !.list = new])
  BY <1>1, WithList
<1>3. Sound(b, WriteInode([m EXCEPT !.list = new], new, m.cwd))
  BY <1>1, <1>2, WriteInodeSound
<1>. QED
  BY <1>3 DEF AddDirEntryToPath, new

LEMMA RemoveDirEntrySound ==
    ASSUME NEW b, NEW m, Sound(b, m), NEW name
    PROVE  Sound(b, RemoveDirEntryFromPath(m, name))
<1>. DEFINE found == {i \in DOMAIN m.list : m.list[i].name = name}
            new == IF found = {} THEN m.list ELSE RemoveAt(m.list, Min(found))
<1>1. IsSeq(m.list) /\ DOMAIN m.list = 1..Len(m.list) /\ Len(m.list) \in Nat
  BY SeqFacts DEF Sound
<1>2. found \subseteq 1..Len(m.list) /\ found \in SUBSET Nat
  BY <1>1
<1>. HIDE DEF found
<1>3. found # {} => Min(found) \in 1..Len(m.list)
  BY <1>2, MinIsLeast
<1>4. IsSeq(new)
  BY <1>1, <1>3, PartsAreSeq
<1>. HIDE DEF new
<1>5. Sound(b, [m EXCEPT !.list = new])
  BY <1>4, WithList
<1>6. Sound(b, WriteInode([m EXCEPT !.list = new], new, m.cwd))
  BY <1>4, <1>5, WriteInodeSound
<1>. QED
  BY <1>6 DEF RemoveDirEntryFromPath, new, found

LEMMA CreateNewDirectorySound ==
    ASSUME NEW b, NEW m, Sound(b, m), NEW name
    PROVE  Sound(b, CreateNewDirectory(m, name))
<1>. DEFINE made == CreateDirEntry(m, name, "dir")
            x == made.entry.ino
            named == AddDirEntryToPath(made.m, made.entry)
            inside == [named EXCEPT !.list = <<>>, !.cwd = x]
            dot == AddDirEntryToPath(inside, Entry(".", x, "dir"))
            dotDot == AddDirEntryToPath(dot, Entry("..", m.cwd, "dir"))
<1>1. Sound(b, made.m)
  BY CreateDirEntrySound DEF Kinds
<1>. HIDE DEF made
<1>2. Sound(b, named)
  BY <1>1, AddDirEntrySound
<1>. HIDE DEF named, x
<1>3. Sound(b, inside)
  BY <1>2, WithList, EmptyIsSeq
<1>. HIDE DEF inside
<1>4. Sound(b, dot)
  BY <1>3, AddDirEntrySound
<1>. HIDE DEF dot
<1>5. Sound(b, dotDot)
  BY <1>4, AddDirEntrySound
<1>. HIDE DEF dotDot
<1>6. Sound(b, [dotDot EXCEPT !.list = named.list, !.cwd = m.cwd])
  BY <1>2, <1>5, WithList DEF Sound
<1>. QED
  BY <1>6 DEF CreateNewDirectory, dotDot, dot, inside, named, x, made

LEMMA ChangeDirSound ==
    ASSUME NEW b, NEW m, Sound(b, m), NEW name
    PROVE  Sound(b, ChangeDir(m, name))
<1>. DEFINE x == GetDirEntry(m, name).ino
            s == ReadDirectoryList(m.disk, x)
            p == PathAfter(m, name, x)
<1>1. IsSeq(s)
  BY DataIsSeq DEF Sound, Good
<1>. HIDE DEF x, s, p
<1>2. Sound(b, [m EXCEPT !.cwd = x, !.list = s, !.path = p])
  BY <1>1, SoundParts
<1>. QED
  BY <1>2 DEF ChangeDir, x, s, p

LEMMA WriteToFileSound ==
    ASSUME NEW b, NEW m, Sound(b, m), NEW name, NEW units, IsSeq(units)
    PROVE  Sound(b, WriteToFile(m, name, units))
BY WriteInodeSound DEF WriteToFile

LEMMA AppendToFileSound ==
    ASSUME NEW b, NEW m, Sound(b, m), NEW name, NEW units, IsSeq(units)
    PROVE  Sound(b, AppendToFile(m, name, units))
<1>. DEFINE old == ReadFromFile(m.disk, m.cwd, name)
<1>1. IsSeq(old)
  BY DataIsSeq DEF ReadFromFile, Sound, Good
<1>. HIDE DEF old
<1>2. IsSeq(Front(old)) /\ IsSeq(<<Zero>>)
  BY <1>1, PartsAreSeq, SingleIsSeq
<1>3. IsSeq(Front(old) \o units)
  BY <1>2, ConcatIsSeq
<1>4. IsSeq(Front(old) \o units \o <<Zero>>)
  BY <1>2, <1>3, ConcatIsSeq
<1>. QED
  BY <1>4, WriteToFileSound DEF AppendToFile, old

LEMMA DeleteFileSound ==
    ASSUME NEW b, NEW m, Sound(b, m), NEW name
    PROVE  Sound(b, DeleteFile(m, name))
<1>1. Sound(b, DeleteInode(m, GetDirEntry(m, name).ino))
  BY DeleteInodeSound
<1>2. Sound(b, RemoveDirEntryFromPath(DeleteInode(m, GetDirEntry(m, name).ino), name))
  BY <1>1, RemoveDirEntrySound
<1>. QED
  BY <1>2 DEF DeleteFile

LEMMA RenameSound ==
    ASSUME NEW b, NEW m, Sound(b, m), NEW src, NEW new
    PROVE  Sound(b, RenameEntry(m, src, new))
<1>1. Sound(b, RemoveDirEntryFromPath(m, src))
  BY RemoveDirEntrySound
<1>. QED
  BY <1>1, AddDirEntrySound DEF RenameEntry

LEMMA MoveSound ==
    ASSUME NEW b, NEW m, Sound(b, m), NEW src, NEW dest
    PROVE  Sound(b, MoveUp(m, src)) /\ Sound(b, MoveDown(m, src, dest))
<1>. DEFINE cut == RemoveDirEntryFromPath(m, src)
            there == ChangeDir(ChangeDir(m, dest), "..")
            cutThere == RemoveDirEntryFromPath(there, src)
<1>1. Sound(b, cut)
  BY RemoveDirEntrySound
<1>2. Sound(b, there)
  <2>1. Sound(b, ChangeDir(m, dest))
    BY ChangeDirSound
  <2>. QED
    BY <2>1, ChangeDirSound
<1>3. Sound(b, cutThere)
  <2>. HIDE DEF there
  <2>. QED
    BY <1>2, RemoveDirEntrySound
<1>4. Sound(b, MoveUp(m, src))
  <2>. HIDE DEF cut
  <2>1. Sound(b, ChangeDir(cut, ".."))
    BY <1>1, ChangeDirSound
  <2>2. Sound(b, AddDirEntryToPath(ChangeDir(cut, ".."), GetDirEntry(m, src)))
    BY <2>1, AddDirEntrySound
  <2>. QED
    BY <2>2 DEF MoveUp, cut
<1>5. Sound(b, MoveDown(m, src, dest))
  <2>. HIDE DEF cutThere
  <2>1. Sound(b, ChangeDir(cutThere, dest))
    BY <1>3, ChangeDirSound
  <2>2. Sound(b, AddDirEntryToPath(ChangeDir(cutThere, dest), GetDirEntry(m, src)))
    BY <2>1, AddDirEntrySound
  <2>3. Sound(b, ChangeDir(AddDirEntryToPath(ChangeDir(cutThere, dest), GetDirEntry(m, src)), ".."))
    BY <2>2, ChangeDirSound
  <2>. QED
    BY <2>3 DEF MoveDown, cutThere, there
<1>. QED
  BY <1>4, <1>5

---------------------------------------------------------------------------
(* deleteDir and createFS, from one step to the next.                      *)

Deleting(b, s) == Sound(b, s.m) /\ IsSeq(s.todo)

LEMMA DeleteNextSound ==
    ASSUME NEW b, NEW s, Deleting(b, s)
    PROVE  Deleting(b, DeleteNext(s))
<1>. DEFINE t == Head(s.todo)
            e == GetDirEntry(s.m, t.name)
            dir == ReadDirectoryList(s.m.disk, e.ino)
            left == RemoveDirEntryFromPath(DeleteInode(ChangeDir(s.m, ".."), t.ino), t.name)
            rest == SubSeq(dir, 3, Len(dir)) \o <<Entry(t.name, e.ino, "leave")>> \o Tail(s.todo)
<1>1. CASE s.todo = <<>>
  BY <1>1 DEF DeleteNext
<1>2. CASE s.todo # <<>>
  <2>1. IsSeq(Tail(s.todo))
    BY <1>2, PartsAreSeq DEF Deleting
  <2>2. Sound(b, left)
    <3>1. Sound(b, ChangeDir(s.m, ".."))
      BY ChangeDirSound DEF Deleting
    <3>2. Sound(b, DeleteInode(ChangeDir(s.m, ".."), t.ino))
      BY <3>1, DeleteInodeSound
    <3>. QED
      BY <3>2, RemoveDirEntrySound
  <2>3. Sound(b, DeleteFile(s.m, t.name)) /\ Sound(b, ChangeDir(s.m, t.name))
    BY DeleteFileSound, ChangeDirSound DEF Deleting
  <2>4. IsSeq(rest)
    <3>1. IsSeq(dir)
      BY DataIsSeq DEF Deleting, Sound, Good
    <3>. HIDE DEF dir
    <3>2. IsSeq(SubSeq(dir, 3, Len(dir)))
      BY <3>1, PartsAreSeq
    <3>3. IsSeq(<<Entry(t.name, e.ino, "leave")>>)
      BY SingleIsSeq
    <3>4. IsSeq(SubSeq(dir, 3, Len(dir)) \o <<Entry(t.name, e.ino, "leave")>>)
      BY <3>2, <3>3, ConcatIsSeq
    <3>. QED
      BY <2>1, <3>4, ConcatIsSeq
  <2>5. \/ DeleteNext(s) = [m |-> left, todo |-> Tail(s.todo)]
        \/ DeleteNext(s) = [m |-> DeleteFile(s.m, t.name), todo |-> Tail(s.todo)]
        \/ DeleteNext(s) = [m |-> s.m, todo |-> Tail(s.todo)]
        \/ DeleteNext(s) = [m |-> ChangeDir(s.m, t.name), todo |-> rest]
    BY <1>2 DEF DeleteNext
  <2>. HIDE DEF left, rest, t
  <2>6. Deleting(b, [m |-> left, todo |-> Tail(s.todo)])
    BY <2>1, <2>2 DEF Deleting
  <2>7. Deleting(b, [m |-> DeleteFile(s.m, t.name), todo |-> Tail(s.todo)])
    BY <2>1, <2>3 DEF Deleting
  <2>8. Deleting(b, [m |-> s.m, todo |-> Tail(s.todo)])
    BY <2>1 DEF Deleting
  <2>9. Deleting(b, [m |-> ChangeDir(s.m, t.name), todo |-> rest])
    BY <2>3, <2>4 DEF Deleting
  <2>. QED
    BY <2>5, <2>6, <2>7, <2>8, <2>9
<1>. QED
  BY <1>1, <1>2

\* The steps of deleteDir, one after the other.
IsDeleting(f, m, name, n) ==
    f = [i \in 0..n |-> IF i = 0 THEN [m |-> m, todo |-> <<Entry(name, 0, "dir")>>]
                        ELSE DeleteNext(f[i - 1])]

LEMMA DeletingExists ==
    ASSUME NEW m, NEW name, NEW n \in Nat
    PROVE  \E f : IsDeleting(f, m, name, n)
<1>. DEFINE None == {k \in 0..n : ~\E f : IsDeleting(f, m, name, k)}
            Start == [m |-> m, todo |-> <<Entry(name, 0, "dir")>>]
<1>1. CASE None = {}
  BY <1>1
<1>2. CASE None # {}
  <2>1. PICK k \in None : \A j \in None : k <= j
    <3>1. None \in SUBSET Nat
      OBVIOUS
    <3>. HIDE DEF None
    <3>. QED
      BY <1>2, <3>1, MinIsLeast
  <2>2. CASE k = 0
    <3>1. IsDeleting([i \in 0..0 |-> Start], m, name, k)
      BY <2>2 DEF IsDeleting
    <3>. QED
      BY <2>1, <3>1
  <2>3. CASE k # 0
    <3>1. k - 1 \in 0..n /\ k - 1 \notin None /\ k \in 1..n
      BY <2>1, <2>3
    <3>2. PICK f : IsDeleting(f, m, name, k - 1)
      BY <3>1
    <3>. DEFINE g == [i \in 0..k |-> IF i < k THEN f[i] ELSE DeleteNext(f[k - 1])]
    <3>3. ASSUME NEW i \in 0..k
          PROVE  g[i] = IF i = 0 THEN Start ELSE DeleteNext(g[i - 1])
      <4>1. CASE i < k
        <5>1. i \in 0..(k - 1) /\ g[i] = f[i] /\ (i # 0 => g[i - 1] = f[i - 1])
          BY <3>1, <4>1
        <5>2. f[i] = IF i = 0 THEN Start ELSE DeleteNext(f[i - 1])
          BY <3>2, <5>1 DEF IsDeleting
        <5>. QED
          BY <5>1, <5>2
      <4>2. CASE i = k
        BY <3>1, <4>2
      <4>. QED
        BY <3>1, <4>1, <4>2
    <3>4. IsDeleting(g, m, name, k)
      BY <3>3 DEF IsDeleting
    <3>. QED
      BY <2>1, <3>4
  <2>. QED
    BY <2>2, <2>3
<1>. QED
  BY <1>1, <1>2

LEMMA DeletingGoesOn ==
    ASSUME NEW b, NEW m, Sound(b, m), NEW name, NEW n \in Nat,
           NEW f, IsDeleting(f, m, name, n), NEW l \in 0..n
    PROVE  Deleting(b, f[l])
<1>. DEFINE Bad == {k \in 0..n : ~Deleting(b, f[k])}
<1>1. CASE Bad = {}
  BY <1>1
<1>2. CASE Bad # {}
  <2>1. PICK k \in Bad : \A j \in Bad : k <= j
    <3>1. Bad \in SUBSET Nat
      OBVIOUS
    <3>. HIDE DEF Bad
    <3>. QED
      BY <1>2, <3>1, MinIsLeast
  <2>2. CASE k = 0
    <3>1. f[0] = [m |-> m, todo |-> <<Entry(name, 0, "dir")>>]
      BY DEF IsDeleting
    <3>2. Deleting(b, f[0])
      BY <3>1, SingleIsSeq DEF Deleting
    <3>. QED
      BY <2>1, <2>2, <3>2
  <2>3. CASE k # 0
    <3>1. k - 1 \in 0..n /\ k - 1 \notin Bad /\ k \in 0..n
      BY <2>1, <2>3
    <3>2. f[k] = DeleteNext(f[k - 1])
      BY <2>3, <3>1 DEF IsDeleting
    <3>3. Deleting(b, f[k - 1])
      BY <3>1
    <3>4. Deleting(b, f[k])
      BY <3>2, <3>3, DeleteNextSound
    <3>. QED
      BY <2>1, <3>4
  <2>. QED
    BY <2>2, <2>3
<1>. QED
  BY <1>1, <1>2

LEMMA DeleteDirSound ==
    ASSUME NEW b, NEW m, Sound(b, m), NEW name
    PROVE  Sound(b, DeleteDir(m, name))
<1>. DEFINE n == 2 * NumInodes
            f == CHOOSE f : IsDeleting(f, m, name, n)
<1>1. n \in Nat
  BY Constants
<1>2. DeleteDir(m, name) = f[n].m
  BY DEF DeleteDir, IsDeleting
<1>. HIDE DEF n
<1>3. IsDeleting(f, m, name, n)
  BY <1>1, DeletingExists
<1>. HIDE DEF f
<1>4. Deleting(b, f[n])
  BY <1>1, <1>3, DeletingGoesOn
<1>. QED
  BY <1>2, <1>4 DEF Deleting

\* The directories that createFS makes in the home directory.
IsMaking(f, m, n) ==
    f = [i \in 0..n |-> IF i = 0 THEN m ELSE CreateNewDirectory(f[i - 1], SubDirs[i])]

LEMMA MakingExists ==
    ASSUME NEW m, NEW n \in Nat
    PROVE  \E f : IsMaking(f, m, n)
<1>. DEFINE None == {k \in 0..n : ~\E f : IsMaking(f, m, k)}
<1>1. CASE None = {}
  BY <1>1
<1>2. CASE None # {}
  <2>1. PICK k \in None : \A j \in None : k <= j
    <3>1. None \in SUBSET Nat
      OBVIOUS
    <3>. HIDE DEF None
    <3>. QED
      BY <1>2, <3>1, MinIsLeast
  <2>2. CASE k = 0
    <3>1. IsMaking([i \in 0..0 |-> m], m, k)
      BY <2>2 DEF IsMaking
    <3>. QED
      BY <2>1, <3>1
  <2>3. CASE k # 0
    <3>1. k - 1 \in 0..n /\ k - 1 \notin None /\ k \in 1..n
      BY <2>1, <2>3
    <3>2. PICK f : IsMaking(f, m, k - 1)
      BY <3>1
    <3>. DEFINE g == [i \in 0..k |-> IF i < k THEN f[i] ELSE CreateNewDirectory(f[k - 1], SubDirs[k])]
    <3>3. ASSUME NEW i \in 0..k
          PROVE  g[i] = IF i = 0 THEN m ELSE CreateNewDirectory(g[i - 1], SubDirs[i])
      <4>1. CASE i < k
        <5>1. i \in 0..(k - 1) /\ g[i] = f[i] /\ (i # 0 => g[i - 1] = f[i - 1])
          BY <3>1, <4>1
        <5>2. f[i] = IF i = 0 THEN m ELSE CreateNewDirectory(f[i - 1], SubDirs[i])
          BY <3>2, <5>1 DEF IsMaking
        <5>. QED
          BY <5>1, <5>2
      <4>2. CASE i = k
        BY <3>1, <4>2
      <4>. QED
        BY <3>1, <4>1, <4>2
    <3>4. IsMaking(g, m, k)
      BY <3>3 DEF IsMaking
    <3>. QED
      BY <2>1, <3>4
  <2>. QED
    BY <2>2, <2>3
<1>. QED
  BY <1>1, <1>2

LEMMA MakingGoesOn ==
    ASSUME NEW b, NEW m, Sound(b, m), NEW n \in Nat, NEW f, IsMaking(f, m, n), NEW l \in 0..n
    PROVE  Sound(b, f[l])
<1>. DEFINE Bad == {k \in 0..n : ~Sound(b, f[k])}
<1>1. CASE Bad = {}
  BY <1>1
<1>2. CASE Bad # {}
  <2>1. PICK k \in Bad : \A j \in Bad : k <= j
    <3>1. Bad \in SUBSET Nat
      OBVIOUS
    <3>. HIDE DEF Bad
    <3>. QED
      BY <1>2, <3>1, MinIsLeast
  <2>2. CASE k = 0
    <3>1. f[0] = m
      BY DEF IsMaking
    <3>. QED
      BY <2>1, <2>2, <3>1
  <2>3. CASE k # 0
    <3>1. k - 1 \in 0..n /\ k - 1 \notin Bad /\ k \in 0..n
      BY <2>1, <2>3
    <3>2. f[k] = CreateNewDirectory(f[k - 1], SubDirs[k])
      BY <2>3, <3>1 DEF IsMaking
    <3>3. Sound(b, f[k - 1])
      BY <3>1
    <3>4. Sound(b, f[k])
      BY <3>2, <3>3, CreateNewDirectorySound
    <3>. QED
      BY <2>1, <3>4
  <2>. QED
    BY <2>2, <2>3
<1>. QED
  BY <1>1, <1>2

LEMMA MachineSound ==
    ASSUME NEW d, Good(d), NEW x, NEW s, IsSeq(s), NEW p
    PROVE  Sound(d.blockBits, Machine(d, x, s, p))
BY EmptyIsSeq, GrowsMore DEF Sound, Machine, IsMachine

LEMMA AtRootSound ==
    ASSUME NEW b, NEW m, Sound(b, m)
    PROVE  Sound(b, AtRoot(m))
<1>. DEFINE s == ReadDirectoryList(m.disk, ROOT)
<1>1. IsSeq(s)
  BY DataIsSeq DEF Sound, Good
<1>. HIDE DEF s
<1>2. Sound(b, [m EXCEPT !.cwd = ROOT, !.list = s, !.path = <<>>])
  BY <1>1, SoundParts
<1>. QED
  BY <1>2 DEF AtRoot, s

LEMMA CreateFSSound ==
    ASSUME NEW b, NEW m, Sound(b, m)
    PROVE  Sound(b, CreateFS(m))
<1>. DEFINE father == SetInode(SetSuperblock(m), FATHER, NewInode("dir"))
            bits == GetInodeBitmap(father.disk) \union {FATHER}
            marked == SetInodeBitmap(father, bits)
            within == [marked EXCEPT !.cwd = FATHER, !.list = <<>>]
            root == AtRoot(CreateNewDirectory(within, "/"))
            home == ChangeDir(CreateNewDirectory(root, HomeDir), HomeDir)
            n == Len(SubDirs)
            made == CHOOSE f : IsMaking(f, home, n)
            filled == ChangeDir(made[n], "..")
            hello == CreateDirEntry(filled, Hello, "file")
<1>1. Sound(b, father)
  <2>1. Sound(b, SetSuperblock(m))
    BY SuperblockSound
  <2>. QED
    BY <2>1, CreateInodeSound DEF Kinds
<1>. HIDE DEF father
<1>2. bits \ {NumInodes} \in SUBSET Ino
  <2>1. {FATHER} \subseteq Ino
    BY Constants DEF FATHER, Ino
  <2>. QED
    <3>1. Shape(father.disk)
      BY <1>1 DEF Sound, Good
    <3>2. bits \ {NumInodes} = father.disk.inodeBits \union {FATHER}
      BY <2>1, <3>1, NotStored
    <3>. QED
      BY <2>1, <3>1, <3>2 DEF Shape
<1>. HIDE DEF bits
<1>3. Sound(b, marked)
  BY <1>1, <1>2, InodeBitmapSound
<1>. HIDE DEF marked
<1>4. Sound(b, within)
  BY <1>3, EmptyIsSeq DEF Sound, IsMachine
<1>. HIDE DEF within
<1>5. Sound(b, root)
  BY <1>4, CreateNewDirectorySound, AtRootSound
<1>. HIDE DEF root
<1>6. Sound(b, home)
  BY <1>5, CreateNewDirectorySound, ChangeDirSound
<1>. HIDE DEF home
<1>7. Sound(b, filled)
  <2>1. n \in Nat
    BY InputAssumption
  <2>2. IsMaking(made, home, n)
    <3>. HIDE DEF n
    <3>. QED
      BY <2>1, MakingExists
  <2>. HIDE DEF made, n
  <2>3. Sound(b, made[n])
    BY <1>6, <2>1, <2>2, MakingGoesOn
  <2>. QED
    BY <2>3, ChangeDirSound
<1>8. CreateFS(m) = WriteToFile(AddDirEntryToPath(hello.m, hello.entry), Hello, HelloText)
  BY DEF CreateFS, IsMaking, home, root, within, marked, bits, father
<1>. HIDE DEF filled
<1>9. Sound(b, AddDirEntryToPath(hello.m, hello.entry))
  <2>1. Sound(b, hello.m)
    BY <1>7, CreateDirEntrySound DEF Kinds
  <2>. HIDE DEF hello
  <2>. QED
    BY <2>1, AddDirEntrySound
<1>10. IsSeq(HelloText)
  BY InputAssumption DEF IsSeq
<1>. HIDE DEF hello
<1>. QED
  BY <1>8, <1>9, <1>10, WriteToFileSound

LEMMA InitFileSystemSound ==
    ASSUME NEW b, NEW m, Sound(b, m)
    PROVE  Sound(b, InitFileSystem(m))
BY AtRootSound, CreateFSSound DEF InitFileSystem

---------------------------------------------------------------------------
(* The commands, each completed or cut off after one of its writes.        *)

\* No state that a command leaves is spent.
Intact ==
    /\ Shape(disk)
    /\ Owned(PointersOf(disk.inode), disk.blockBits)
    /\ IsSeq(list)

LEMMA NotSpent ==
    ASSUME MaxBlocks < DataStart - 1, NEW bits \in SUBSET Blk, Cardinality(bits) <= MaxBlocks
    PROVE  ~Spent(bits)
<1>1. DataStart - 1 \in Int /\ 1 \in Int /\ MaxBlocks \in Nat /\ DataStart - 1 >= 1
  BY Constants, InputAssumption
<1>2. Cardinality(1..(DataStart - 1)) = DataStart - 1
  BY <1>1, FS_Interval
<1>3. IsFiniteSet(bits) /\ Cardinality(bits) \in Nat
  <2>1. IsFiniteSet(Blk)
    BY Constants, FS_Interval DEF Blk
  <2>2. IsFiniteSet(bits)
    BY <2>1, FS_Subset
  <2>. QED
    BY <2>2, FS_CardinalityType
<1>4. ASSUME 1..(DataStart - 1) \in SUBSET bits PROVE FALSE
  <2>1. Cardinality(1..(DataStart - 1)) <= Cardinality(bits)
    BY <1>3, <1>4, FS_Subset
  <2>. QED
    BY <1>1, <1>2, <1>3, <2>1
<1>. QED
  BY <1>4 DEF Spent

LEMMA RunsIntact ==
    ASSUME MaxBlocks < DataStart - 1, Intact, NEW b, NEW m, Sound(b, m), NEW command, Runs(command, m)
    PROVE  Intact'
<1>1. ~Spent(m.disk.blockBits)
  BY NotSpent DEF Runs, Sound, Good, Shape
<1>2. CASE Completes(m)
  BY <1>1, <1>2 DEF Completes, Sound, Good, Fine, Intact, Shape, Owned, PointersOf
<1>3. CASE LosesPower(m)
  <2>1. disk' = disk \/ (Good(disk') /\ ~Spent(disk'.blockBits))
    BY <1>1, <1>3 DEF LosesPower, Sound, Grows
  <2>2. IsSeq(list')
    BY <1>3, EmptyIsSeq DEF LosesPower
  <2>. QED
    BY <2>1, <2>2 DEF Intact, Good, Fine
<1>. QED
  BY <1>2, <1>3 DEF Runs

LEMMA SlotsAre == Slots = Ino \union {0, NumInodes} /\ Ino \subseteq Slots
BY Constants DEF Slots, Ino

LEMMA InitIntact == Init => Intact
<1>. SUFFICES ASSUME Init PROVE Intact
  OBVIOUS
<1>1. disk = UnformattedDisk /\ list = <<>>
  BY DEF Init
<1>2. NewInode("none") \in Node /\ \A i \in Ptrs : NewInode("none").ptrs[i] = 0
  BY NewInodeIsNode DEF Kinds
<1>3. Shape(disk) /\ disk.blockBits = {} /\ disk.inode = [x \in Slots |-> NewInode("none")] /\ Ino \subseteq Slots
  <2>. DEFINE v == [k \in 1..BlockUnits |-> Zero]
  <2>1. BlockUnits \in Nat /\ v = [k \in 1..BlockUnits |-> v[k]]
    BY Constants
  <2>. HIDE DEF v
  <2>2. IsBlock(v)
    BY <2>1, FunctionIsSeq DEF IsBlock
  <2>3. disk.data = [p \in Blk |-> v]
    BY <1>1 DEF UnformattedDisk, Blk, v
  <2>. QED
    BY <1>1, <1>2, <2>2, <2>3, SlotsAre DEF Shape, UnformattedDisk, Blk
<1>4. FirstOnes({})
  <2>1. {} = 1..0 /\ 0 \in 0..NumBlocks
    BY Constants
  <2>. QED
    BY <2>1 DEF FirstOnes
<1>5. \A x \in Ino : \A i \in Ptrs : PointersOf(disk.inode)[x][i] = 0
  BY <1>2, <1>3 DEF PointersOf
<1>6. Owned(PointersOf(disk.inode), disk.blockBits)
  BY <1>3, <1>4, <1>5 DEF Owned, Alone, Marked
<1>. QED
  BY <1>1, <1>3, <1>6, EmptyIsSeq DEF Intact

LEMMA NextIntact ==
    ASSUME MaxBlocks < DataStart - 1, Intact, Next
    PROVE  Intact'
<1>1. Good(disk) /\ IsSeq(list)
  BY DEF Intact, Good, Fine
<1>2. Sound(disk.blockBits, m0)
  BY <1>1, MachineSound DEF m0
<1>3. CASE Boot
  <2>1. Sound(disk.blockBits, Machine(disk, 0, <<>>, <<>>))
    BY <1>1, MachineSound, EmptyIsSeq
  <2>2. Sound(disk.blockBits, InitFileSystem(Machine(disk, 0, <<>>, <<>>)))
    BY <2>1, InitFileSystemSound
  <2>. QED
    BY <1>3, <2>2, RunsIntact DEF Boot
<1>4. ASSUME NEW n \in Names, Touch(n) PROVE Intact'
  <2>. DEFINE made == CreateDirEntry(m0, n, "file")
  <2>1. Sound(disk.blockBits, made.m)
    BY <1>2, CreateDirEntrySound DEF Kinds
  <2>2. Runs("touch", AddDirEntryToPath(made.m, made.entry))
    BY <1>4 DEF Touch
  <2>. HIDE DEF made
  <2>3. Sound(disk.blockBits, AddDirEntryToPath(made.m, made.entry))
    BY <2>1, AddDirEntrySound
  <2>. QED
    BY <2>2, <2>3, RunsIntact
<1>5. ASSUME NEW n \in Names, Mkdir(n) PROVE Intact'
  BY <1>2, <1>5, CreateNewDirectorySound, RunsIntact DEF Mkdir
<1>6. ASSUME NEW n \in Names, Rm(n) PROVE Intact'
  BY <1>2, <1>6, DeleteFileSound, RunsIntact DEF Rm
<1>7. ASSUME NEW n \in Names, Rmdir(n) PROVE Intact'
  BY <1>2, <1>7, DeleteDirSound, RunsIntact DEF Rmdir
<1>8. ASSUME NEW text \in Texts PROVE IsSeq(text \o <<Zero>>)
  <2>1. IsSeq(text)
    BY InputAssumption DEF IsSeq
  <2>. QED
    BY <2>1, SingleIsSeq, ConcatIsSeq
<1>9. ASSUME NEW n \in Names, NEW text \in Texts, Write(n, text) PROVE Intact'
  <2>1. Sound(disk.blockBits, WriteToFile(m0, n, text \o <<Zero>>))
    BY <1>2, <1>8, WriteToFileSound
  <2>. QED
    BY <1>9, <2>1, RunsIntact DEF Write
<1>10. ASSUME NEW n \in Names, NEW text \in Texts, AppendText(n, text) PROVE Intact'
  <2>1. Sound(disk.blockBits, AppendToFile(m0, n, text \o <<Zero>>))
    BY <1>2, <1>8, AppendToFileSound
  <2>. QED
    BY <1>10, <2>1, RunsIntact DEF AppendText
<1>11. ASSUME NEW n, Cd(n) PROVE Intact'
  BY <1>2, <1>11, ChangeDirSound, RunsIntact DEF Cd
<1>12. ASSUME NEW n, NEW new, Rename(n, new) PROVE Intact'
  BY <1>2, <1>12, RenameSound, RunsIntact DEF Rename
<1>13. ASSUME NEW n, NEW dest, Mv(n, dest) PROVE Intact'
  BY <1>2, <1>13, MoveSound, RunsIntact DEF Mv
<1>14. CASE Ls
  <2>. DEFINE s == ReadDirectoryList(disk, cwd)
  <2>1. IsSeq(s)
    BY <1>1, DataIsSeq DEF Good
  <2>. HIDE DEF s
  <2>2. Sound(disk.blockBits, [m0 EXCEPT !.list = s])
    BY <1>2, <2>1, WithList
  <2>. QED
    BY <1>14, <2>2, RunsIntact DEF Ls, s
<1>15. CASE PowerCut
  <2>1. disk' = disk /\ list' = <<>>
    BY <1>15, EmptyIsSeq DEF PowerCut, LosesPower, m0, Machine
  <2>. QED
    BY <2>1, EmptyIsSeq DEF Intact
<1>. QED
  BY <1>3, <1>4, <1>5, <1>6, <1>7, <1>9, <1>10, <1>11, <1>12, <1>13, <1>14, <1>15 DEF Next

LEMMA IntactIsOwned == Intact => BlocksOwned
<1>. SUFFICES ASSUME Intact PROVE BlocksOwned
  OBVIOUS
<1>1. /\ \A x \in Ino : GetInode(disk, x) = disk.inode[x] /\ disk.inode[x] \in Node
      /\ disk.inodeBits \subseteq Ino
  BY GetInodeIsNode DEF Intact, Shape
<1>2. ASSUME NEW x \in Ino, NEW p \in Blocks(x)
      PROVE  \E i \in Ptrs : p = PointersOf(disk.inode)[x][i] /\ p # 0
  BY <1>1 DEF Blocks, ToSet, Node, PtrMap, PointersOf
<1>3. ASSUME NEW x \in Ino PROVE Blocks(x) \subseteq disk.blockBits
  BY <1>2 DEF Intact, Owned, Marked
<1>4. ASSUME NEW x \in Ino, NEW y \in Ino, x # y PROVE Blocks(x) \cap Blocks(y) = {}
  BY <1>2, <1>4 DEF Intact, Owned, Alone
<1>. QED
  BY <1>1, <1>3, <1>4 DEF BlocksOwned

\* While no command is given that would use DataStart - 1 blocks or more, a block
\* of an inode in use is marked and is no other inode's, in a tree of any shape
\* and wherever in any command the power is lost (writeInode, deleteInode).
THEOREM OwnedBlocks ==
    ASSUME MaxBlocks < DataStart - 1
    PROVE  Spec => []BlocksOwned
<1>1. Intact /\ [Next]_vars => Intact'
  <2>. SUFFICES ASSUME Intact, [Next]_vars PROVE Intact'
    OBVIOUS
  <2>1. CASE Next
    BY <2>1, NextIntact
  <2>2. CASE UNCHANGED vars
    BY <2>2 DEF vars, Intact
  <2>. QED
    BY <2>1, <2>2
<1>. QED
  BY <1>1, InitIntact, IntactIsOwned, PTL DEF Spec

---------------------------------------------------------------------------
(* What is read of an inode.                                               *)

\* How many blocks are read: a pointer of 0 ends it.
ReadOf(ptrs) ==
    LET holes == {i \in 1..NumPtrs : ptrs[i] = 0}
    IN  IF holes = {} THEN NumPtrs ELSE Min(holes) - 1

LEMMA ReadFacts ==
    ASSUME NEW ptrs
    PROVE  /\ ReadOf(ptrs) \in 0..NumPtrs
           /\ \A i \in 1..ReadOf(ptrs) : i \in Ptrs /\ ptrs[i] # 0
           /\ \A n \in 0..NumPtrs : (\A i \in 1..n : ptrs[i] # 0) => n <= ReadOf(ptrs)
<1>. DEFINE holes == {i \in 1..NumPtrs : ptrs[i] = 0}
<1>1. NumPtrs \in Nat \ {0}
  BY Constants
<1>2. CASE holes = {}
  <2>1. ReadOf(ptrs) = NumPtrs
    BY <1>2 DEF ReadOf
  <2>2. \A i \in 1..NumPtrs : ptrs[i] # 0
    BY <1>2
  <2>. QED
    BY <1>1, <2>1, <2>2 DEF Ptrs
<1>3. CASE holes # {}
  <2>1. holes \in SUBSET Nat
    BY <1>1
  <2>2. ReadOf(ptrs) = Min(holes) - 1
    BY <1>3 DEF ReadOf
  <2>3. Min(holes) \in holes /\ \A y \in holes : Min(holes) <= y
    <3>. HIDE DEF holes
    <3>. QED
      BY <1>3, <2>1, MinIsLeast
  <2>4. ASSUME NEW i \in 1..(Min(holes) - 1) PROVE i \in Ptrs /\ ptrs[i] # 0
    <3>1. i \in 1..NumPtrs
      BY <1>1, <2>3
    <3>2. i \notin holes
      BY <2>3, <3>1
    <3>. QED
      BY <3>1, <3>2 DEF Ptrs
  <2>5. ASSUME NEW n \in 0..NumPtrs, \A i \in 1..n : ptrs[i] # 0 PROVE n <= Min(holes) - 1
    <3>1. Min(holes) \in 1..NumPtrs /\ ptrs[Min(holes)] = 0
      BY <2>3
    <3>2. Min(holes) \notin 1..n
      BY <2>5, <3>1
    <3>. QED
      BY <1>1, <3>1, <3>2
  <2>6. Min(holes) \in 1..NumPtrs
    BY <2>3
  <2>. QED
    BY <1>1, <2>2, <2>4, <2>5, <2>6
<1>. QED
  BY <1>2, <1>3

LEMMA OnePlace ==
    ASSUME NEW i \in Nat \ {0}, NEW j \in 1..BlockUnits
    PROVE  /\ Place(i, j) \in Nat \ {0}
           /\ (Place(i, j) - 1) \div BlockUnits + 1 = i
           /\ ((Place(i, j) - 1) % BlockUnits) + 1 = j
<1>. DEFINE k == Place(i, j)
<1>1. BlockUnits \in Nat \ {0}
  BY Constants
<1>2. k \in Nat \ {0}
  BY <1>1 DEF Place
<1>3. PICK q \in Nat \ {0}, e \in 1..BlockUnits :
        q = (k - 1) \div BlockUnits + 1 /\ e = ((k - 1) % BlockUnits) + 1 /\ k = Place(q, e)
  <2>. HIDE DEF k
  <2>. QED
    BY <1>2, PlaceOf
<1>4. (q - 1) * BlockUnits + e = (i - 1) * BlockUnits + j
  BY <1>3 DEF Place
<1>5. (q - 1) * BlockUnits \in Nat /\ (i - 1) * BlockUnits \in Nat
  BY <1>1
<1>6. CASE q = i
  BY <1>2, <1>3, <1>4, <1>5, <1>6
<1>7. CASE q < i
  <2>1. q * BlockUnits <= (i - 1) * BlockUnits /\ q * BlockUnits = (q - 1) * BlockUnits + BlockUnits
    BY <1>1, <1>7, Grow
  <2>. QED
    BY <1>1, <1>4, <1>5, <2>1
<1>8. CASE i < q
  <2>1. i * BlockUnits <= (q - 1) * BlockUnits /\ i * BlockUnits = (i - 1) * BlockUnits + BlockUnits
    BY <1>1, <1>8, Grow
  <2>. QED
    BY <1>1, <1>4, <1>5, <2>1
<1>. QED
  BY <1>6, <1>7, <1>8

\* The unit at each place of a content.
LEMMA DataAt ==
    ASSUME NEW d, Shape(d), NEW x \in Ino, NEW i \in Nat \ {0}, NEW j \in 1..BlockUnits,
           Place(i, j) <= d.inode[x].size
    PROVE  GetInodeData(d, x)[Place(i, j)] =
              IF i <= ReadOf(d.inode[x].ptrs) THEN d.data[d.inode[x].ptrs[i]][j] ELSE Zero
<1>1. GetInode(d, x) = d.inode[x] /\ d.inode[x].size \in Nat
  BY GetInodeIsNode DEF Node, Shape
<1>2. Place(i, j) \in 1..d.inode[x].size
  BY <1>1, OnePlace
<1>3. (Place(i, j) - 1) \div BlockUnits + 1 = i /\ ((Place(i, j) - 1) % BlockUnits) + 1 = j
  BY OnePlace
<1>. QED
  BY <1>1, <1>2, <1>3 DEF GetInodeData, ReadOf

LEMMA DataLen ==
    ASSUME NEW d, Shape(d), NEW x \in Ino
    PROVE  /\ IsSeq(GetInodeData(d, x)) /\ Len(GetInodeData(d, x)) = d.inode[x].size
           /\ d.inode[x].size \in Nat
<1>. DEFINE s == GetInodeData(d, x)
            n == d.inode[x].size
<1>1. n \in Nat /\ GetInode(d, x) = d.inode[x]
  BY GetInodeIsNode DEF Node, Shape
<1>2. s = [k \in 1..n |-> s[k]]
  BY <1>1 DEF GetInodeData
<1>. HIDE DEF s, n
<1>3. IsSeq(s) /\ Len(s) = n
  BY <1>1, <1>2, FunctionIsSeq
<1>. QED
  BY <1>1, <1>3 DEF s, n

\* A content is known by its units.
LEMMA DataIs ==
    ASSUME NEW d, Shape(d), NEW x \in Ino, NEW s, IsSeq(s), Len(s) = d.inode[x].size,
           \A i \in Nat \ {0}, j \in 1..BlockUnits : Place(i, j) <= Len(s) =>
              s[Place(i, j)] = IF i <= ReadOf(d.inode[x].ptrs) THEN d.data[d.inode[x].ptrs[i]][j] ELSE Zero
    PROVE  GetInodeData(d, x) = s
<1>1. IsSeq(GetInodeData(d, x)) /\ Len(GetInodeData(d, x)) = Len(s) /\ Len(s) \in Nat
  BY DataLen
<1>2. ASSUME NEW k \in 1..Len(s) PROVE GetInodeData(d, x)[k] = s[k]
  <2>1. PICK i \in Nat \ {0}, j \in 1..BlockUnits : k = Place(i, j)
    BY <1>1, PlaceOf
  <2>2. Place(i, j) <= d.inode[x].size
    BY <1>1, <2>1
  <2>. QED
    BY <2>1, <2>2, DataAt
<1>. QED
  BY <1>1, <1>2, SameSeq

---------------------------------------------------------------------------
(* While there are blocks to give, what writeInode writes is what is read  *)
(* of the inode afterwards, and no other inode changes.                    *)

LEMMA SoundHere ==
    ASSUME NEW b, NEW m, Sound(b, m)
    PROVE  Sound(m.disk.blockBits, m) /\ Shape(m.disk) /\ IsMachine(m) /\ IsSeq(m.log) /\ IsSeq(m.list)
BY GrowsMore DEF Sound, Good

LEMMA OffStays ==
    ASSUME NEW a, NEW m, Sound(a, m), Off(a)
    PROVE  Off(m.disk.blockBits)
BY DEF Sound, Grows

LEMMA NotOffOwned ==
    ASSUME NEW P, NEW bits, Spent(bits) \/ Owned(P, bits), ~Off(bits)
    PROVE  Owned(P, bits)
BY LimitFacts

LEMMA FreshBlock ==
    ASSUME NEW P, NEW bits, Owned(P, bits), ~Off(bits), NEW p, p = GetFreeBlockIdx(bits)
    PROVE  /\ p \in Blk /\ p # 0
           /\ \A x \in Ino, i \in Ptrs : P[x][i] # p
<1>1. PICK k \in 0..NumBlocks : bits = 1..k
  BY DEF Owned, FirstOnes
<1>2. ~(Limit <= k)
  <2>1. Limit \in Nat /\ k \in Nat
    BY LimitFacts, Constants
  <2>. QED
    BY <1>1, <2>1 DEF Off
<1>3. k < NumBlocks /\ k \in Nat /\ NumBlocks \in Nat
  BY <1>2, LimitFacts, Constants
<1>4. p = k + 1
  BY <1>1, <1>3, FreeBlock
<1>5. p \notin bits \union {0}
  BY <1>1, <1>3, <1>4
<1>6. \A x \in Ino, i \in Ptrs : P[x][i] \in bits \union {0}
  BY DEF Owned, Marked
<1>. QED
  BY <1>3, <1>4, <1>5, <1>6 DEF Blk

LEMMA DiskWriteFacts ==
    ASSUME NEW m, IsMachine(m), IsSeq(m.log), NEW d
    PROVE  /\ DiskWrite(m, d).disk = d /\ DiskWrite(m, d).cwd = m.cwd
           /\ DiskWrite(m, d).list = m.list /\ DiskWrite(m, d).path = m.path
           /\ IsMachine(DiskWrite(m, d)) /\ IsSeq(DiskWrite(m, d).log)
           /\ ToSet(DiskWrite(m, d).log) = ToSet(m.log) \union {d}
<1>1. /\ IsMachine(DiskWrite(m, d)) /\ DiskWrite(m, d).disk = d /\ DiskWrite(m, d).log = Append(m.log, d)
      /\ DiskWrite(m, d).list = m.list /\ DiskWrite(m, d).cwd = m.cwd /\ DiskWrite(m, d).path = m.path
  BY DEF IsMachine, DiskWrite
<1>. QED
  BY <1>1, AppendIsSeq

\* Where the machine is does not change.
Stands(n, m) == n.cwd = m.cwd /\ n.list = m.list /\ n.path = m.path

\* d is e but for blocks of inode x that hold some of the units already.
Holds(d, e, x, units) ==
    \A y \in Ino, i \in Ptrs, j \in 1..BlockUnits :
        e.inode[y].ptrs[i] # 0 =>
            \/ d.data[e.inode[y].ptrs[i]][j] = e.data[e.inode[y].ptrs[i]][j]
            \/ /\ y = x /\ Place(i, j) <= Len(units)
               /\ d.data[e.inode[y].ptrs[i]][j] = units[Place(i, j)]

Partly(d, e, x, units) ==
    /\ d.magic = e.magic /\ d.inodeBits = e.inodeBits /\ d.inode = e.inode
    /\ Holds(d, e, x, units)

\* The first n blocks are written.
Written(w, m, x, units, n) ==
    /\ w.ok /\ Stands(w.m, m)
    /\ Partly(w.m.disk, m.disk, x, units)
    /\ \A d \in ToSet(w.m.log) : d \in ToSet(m.log) \/ Partly(d, m.disk, x, units)
    /\ \A i \in Ptrs : i > n \/ m.disk.inode[x].ptrs[i] # 0 => w.ptrs[i] = m.disk.inode[x].ptrs[i]
    /\ \A i \in 1..n : w.ptrs[i] # 0
    /\ \A i \in 1..n, j \in 1..BlockUnits :
          Place(i, j) <= Len(units) => w.m.disk.data[w.ptrs[i]][j] = units[Place(i, j)]

\* Block n of the content goes to p, which is in no one's way.
NextOf(w, n) == IF w.ptrs[n] = 0 THEN GetFreeBlockIdx(w.m.disk.blockBits) ELSE w.ptrs[n]

Apart(w, m, x, n, p) ==
    /\ p \in Blk /\ p # 0
    /\ \A y \in Ino, i \in Ptrs : m.disk.inode[y].ptrs[i] = p => y = x /\ i = n
    /\ \A i \in 1..(n - 1) : w.ptrs[i] # p

LEMMA NextBlock ==
    ASSUME NEW b, NEW m, NEW x \in Ino, NEW units, NEW w, NEW n \in Ptrs,
           Writing(b, w, m, x), Written(w, m, x, units, n - 1), ~Off(w.m.disk.blockBits)
    PROVE  Apart(w, m, x, n, NextOf(w, n))
<1>. DEFINE p == NextOf(w, n)
            Q == Pointing(m.disk.inode, x, w.ptrs)
            P == m.disk.inode
<1>1. Owned(Q, w.m.disk.blockBits)
  BY NotOffOwned DEF Writing
<1>2. \A y \in Ino, i \in Ptrs : Q[y][i] = IF y = x THEN w.ptrs[i] ELSE P[y].ptrs[i]
  BY DEF Pointing, PointersOf
<1>. HIDE DEF Q
<1>3. n \in 1..NumPtrs /\ NumPtrs \in Nat /\ \A i \in 1..(n - 1) : i \in Ptrs /\ i # n /\ w.ptrs[i] # 0
  BY Constants DEF Ptrs, Written
<1>4. \A i \in Ptrs : P[x].ptrs[i] # 0 => w.ptrs[i] = P[x].ptrs[i]
  BY DEF Written
<1>5. CASE w.ptrs[n] = 0
  <2>1. p \in Blk /\ p # 0 /\ \A y \in Ino, i \in Ptrs : Q[y][i] # p
    BY <1>1, <1>5, FreshBlock DEF NextOf
  <2>2. \A i \in Ptrs : w.ptrs[i] # p
    BY <1>2, <2>1
  <2>3. \A y \in Ino, i \in Ptrs : P[y].ptrs[i] # p
    BY <1>2, <1>4, <2>1
  <2>. QED
    BY <1>3, <2>1, <2>2, <2>3 DEF Apart
<1>6. CASE w.ptrs[n] # 0
  <2>1. p = w.ptrs[n] /\ p # 0 /\ Q[x][n] = p
    BY <1>2, <1>6 DEF NextOf
  <2>. HIDE DEF p
  <2>2. p \in Blk
    BY <2>1, Constants DEF Writing, PtrMap, Blk
  <2>3. \A y \in Ino, i \in Ptrs : Q[y][i] = p => y = x /\ i = n
    BY <1>1, <2>1 DEF Owned, Alone
  <2>4. \A i \in 1..(n - 1) : w.ptrs[i] # p
    BY <1>2, <1>3, <2>3
  <2>5. \A y \in Ino, i \in Ptrs : P[y].ptrs[i] = p => y = x /\ i = n
    BY <1>2, <1>4, <2>1, <2>3
  <2>. QED
    BY <2>1, <2>2, <2>4, <2>5 DEF Apart, p
<1>. QED
  BY <1>5, <1>6

\* A disk that differs from e as far as d does.
LEMMA PartlyAgain ==
    ASSUME NEW d, NEW e, NEW x, NEW units, Partly(d, e, x, units), NEW f,
           f.magic = d.magic, f.inodeBits = d.inodeBits, f.inode = d.inode, f.data = d.data
    PROVE  Partly(f, e, x, units)
BY DEF Partly, Holds

\* From m to n only the bitmap of blocks was written.
Marks(n, m) ==
    /\ n.disk.magic = m.disk.magic /\ n.disk.inodeBits = m.disk.inodeBits
    /\ n.disk.inode = m.disk.inode /\ n.disk.data = m.disk.data
    /\ Stands(n, m) /\ IsMachine(n) /\ IsSeq(n.log)
    /\ ToSet(n.log) = ToSet(m.log) \union {n.disk}

LEMMA MarkBlockFacts ==
    ASSUME NEW m, Shape(m.disk), IsMachine(m), IsSeq(m.log), NEW bits
    PROVE  Marks(SetBlockBitmap(m, bits), m) /\ SetBlockBitmap(m, bits).disk.blockBits = bits
<1>. DEFINE n == SetBlockBitmap(m, bits)
<1>. DEFINE d == [m.disk EXCEPT !.blockBits = bits]
<1>1. /\ d.magic = m.disk.magic /\ d.inodeBits = m.disk.inodeBits
      /\ d.inode = m.disk.inode /\ d.data = m.disk.data /\ d.blockBits = bits
  BY DEF Shape
<1>. HIDE DEF d
<1>2. n = DiskWrite(m, d)
  BY DEF SetBlockBitmap, d
<1>. HIDE DEF n
<1>3. Marks(n, m) /\ n.disk.blockBits = bits
  BY <1>1, <1>2, DiskWriteFacts DEF Stands, Marks
<1>. QED
  BY <1>3 DEF n

LEMMA BlockWriteFacts ==
    ASSUME NEW m, Shape(m.disk), IsMachine(m), IsSeq(m.log), NEW p \in Blk, NEW v, NEW n, n = BlockWrite(m, p, v)
    PROVE  /\ n.disk.magic = m.disk.magic /\ n.disk.inodeBits = m.disk.inodeBits
           /\ n.disk.inode = m.disk.inode /\ n.disk.blockBits = m.disk.blockBits
           /\ n.disk.data[p] = v /\ \A q \in Blk : q # p => n.disk.data[q] = m.disk.data[q]
           /\ Stands(n, m) /\ IsMachine(n) /\ IsSeq(n.log)
           /\ ToSet(n.log) = ToSet(m.log) \union {n.disk}
<1>. DEFINE d == [m.disk EXCEPT !.data[p] = v]
<1>1. /\ d.magic = m.disk.magic /\ d.inodeBits = m.disk.inodeBits
      /\ d.inode = m.disk.inode /\ d.blockBits = m.disk.blockBits
      /\ d.data[p] = v /\ \A q \in Blk : q # p => d.data[q] = m.disk.data[q]
  BY DEF Shape
<1>. HIDE DEF d
<1>2. n = DiskWrite(m, d)
  BY DEF BlockWrite, d
<1>. QED
  BY <1>1, <1>2, DiskWriteFacts DEF Stands

\* One block more.
LEMMA WriteBlockGoesOn ==
    ASSUME NEW b, NEW m, Shape(m.disk), NEW x \in Ino, NEW units, IsSeq(units), NEW w, NEW n \in Ptrs,
           Writing(b, w, m, x), Written(w, m, x, units, n - 1), ~Off(w.m.disk.blockBits)
    PROVE  Written(WriteBlock(w, Chunk(units, n), n), m, x, units, n)
<1>. DEFINE c == Chunk(units, n)
            new == w.ptrs[n] = 0
            p == IF new THEN GetFreeBlockIdx(w.m.disk.blockBits) ELSE w.ptrs[n]
            marked == IF new THEN SetBlockBitmap(w.m, w.m.disk.blockBits \union {p}) ELSE w.m
            v == Overlay(c, marked.disk.data[p])
            after == BlockWrite(marked, p, v)
            q == [w.ptrs EXCEPT ![n] = p]
            z == WriteBlock(w, c, n)
<1>1. /\ p \in Blk /\ p # 0
      /\ \A y \in Ino, i \in Ptrs : m.disk.inode[y].ptrs[i] = p => y = x /\ i = n
      /\ \A i \in 1..(n - 1) : w.ptrs[i] # p
  <2>1. Apart(w, m, x, n, NextOf(w, n))
    BY NextBlock
  <2>2. p = NextOf(w, n)
    BY DEF NextOf
  <2>. HIDE DEF p
  <2>. QED
    BY <2>1, <2>2 DEF Apart
<1>2. z.m = after /\ z.ptrs = q /\ z.ok
  <2>1. z = [w EXCEPT !.ptrs[n] = p, !.m = after]
    BY <1>1 DEF WriteBlock, BlockWrite, Written
  <2>. HIDE DEF p, after, z
  <2>. QED
    BY <2>1 DEF Writing, Written
<1>3. /\ Shape(w.m.disk) /\ IsMachine(w.m) /\ IsSeq(w.m.log) /\ w.m.disk.inode = m.disk.inode
      /\ w.ptrs \in PtrMap
  BY SoundHere DEF Writing
<1>. HIDE DEF p
<1>4. /\ marked.disk.magic = w.m.disk.magic /\ marked.disk.inodeBits = w.m.disk.inodeBits
      /\ marked.disk.inode = w.m.disk.inode /\ marked.disk.data = w.m.disk.data
      /\ Stands(marked, w.m) /\ IsMachine(marked) /\ IsSeq(marked.log)
      /\ ToSet(marked.log) \subseteq ToSet(w.m.log) \union {marked.disk}
  <2>1. CASE new
    <3>1. Marks(marked, w.m)
      BY <1>3, <2>1, MarkBlockFacts
    <3>. HIDE DEF marked
    <3>. QED
      BY <3>1 DEF Marks
  <2>2. CASE ~new
    BY <1>3, <2>2 DEF Stands
  <2>. QED
    BY <2>1, <2>2
<1>5. Shape(marked.disk)
  <2>1. Sound(b, marked)
    <3>1. CASE new
      BY <1>1, <3>1, MarkBlockSound DEF Writing, p
    <3>2. CASE ~new
      BY <3>2 DEF Writing
    <3>. QED
      BY <3>1, <3>2
  <2>. QED
    BY <2>1, SoundHere
<1>. HIDE DEF marked
<1>6. IsSeq(c) /\ Len(c) \in 0..BlockUnits
      /\ \A j \in 1..BlockUnits :
            /\ j <= Len(c) <=> Place(n, j) <= Len(units)
            /\ j <= Len(c) => c[j] = units[Place(n, j)]
  <2>1. n \in Nat \ {0}
    BY DEF Ptrs
  <2>. QED
    BY <2>1, ChunkFacts
<1>. HIDE DEF c
<1>7. \A j \in 1..BlockUnits : v[j] = IF Place(n, j) <= Len(units) THEN units[Place(n, j)] ELSE w.m.disk.data[p][j]
  <2>1. IsBlock(marked.disk.data[p])
    BY <1>1, <1>5 DEF Shape
  <2>2. \A j \in 1..BlockUnits : v[j] = IF j <= Len(c) THEN c[j] ELSE marked.disk.data[p][j]
    BY <1>6, <2>1, OverlayFacts
  <2>. HIDE DEF v
  <2>. QED
    BY <1>4, <1>6, <2>2
<1>. HIDE DEF v
<1>8. /\ after.disk.magic = w.m.disk.magic /\ after.disk.inodeBits = w.m.disk.inodeBits
      /\ after.disk.inode = w.m.disk.inode
      /\ after.disk.data[p] = v /\ \A r \in Blk : r # p => after.disk.data[r] = w.m.disk.data[r]
      /\ Stands(after, w.m)
      /\ ToSet(after.log) \subseteq ToSet(w.m.log) \union {marked.disk, after.disk}
  BY <1>1, <1>4, <1>5, BlockWriteFacts DEF Stands
<1>. HIDE DEF after
<1>9. Partly(marked.disk, m.disk, x, units)
  BY <1>4, PartlyAgain DEF Written
<1>10. Partly(after.disk, m.disk, x, units)
  <2>1. Holds(w.m.disk, m.disk, x, units)
    BY DEF Written, Partly
  <2>2. ASSUME NEW y \in Ino, NEW i \in Ptrs, NEW j \in 1..BlockUnits, m.disk.inode[y].ptrs[i] # 0
        PROVE  \/ after.disk.data[m.disk.inode[y].ptrs[i]][j] = m.disk.data[m.disk.inode[y].ptrs[i]][j]
               \/ /\ y = x /\ Place(i, j) <= Len(units)
                  /\ after.disk.data[m.disk.inode[y].ptrs[i]][j] = units[Place(i, j)]
    <3>1. m.disk.inode[y].ptrs[i] \in Blk
      BY <2>2, Constants DEF Shape, Node, PtrMap, Blk
    <3>2. \/ w.m.disk.data[m.disk.inode[y].ptrs[i]][j] = m.disk.data[m.disk.inode[y].ptrs[i]][j]
          \/ /\ y = x /\ Place(i, j) <= Len(units)
             /\ w.m.disk.data[m.disk.inode[y].ptrs[i]][j] = units[Place(i, j)]
      BY <2>1, <2>2 DEF Holds
    <3>3. CASE m.disk.inode[y].ptrs[i] # p
      BY <1>8, <3>1, <3>2, <3>3
    <3>4. CASE m.disk.inode[y].ptrs[i] = p
      <4>1. y = x /\ i = n
        BY <1>1, <3>4
      <4>2. after.disk.data[p][j] = v[j]
        BY <1>8
      <4>. QED
        BY <1>7, <3>2, <3>4, <4>1, <4>2
    <3>. QED
      BY <3>3, <3>4
  <2>3. Holds(after.disk, m.disk, x, units)
    BY <2>2 DEF Holds
  <2>. QED
    BY <1>8, <2>3 DEF Written, Partly
<1>11. ASSUME NEW d \in ToSet(after.log) PROVE d \in ToSet(m.log) \/ Partly(d, m.disk, x, units)
  BY <1>8, <1>9, <1>10, <1>11 DEF Written
<1>12. n \in 1..NumPtrs /\ NumPtrs \in Nat
  BY Constants DEF Ptrs
<1>13. \A i \in Ptrs : q[i] = IF i = n THEN p ELSE w.ptrs[i]
  BY <1>3 DEF PtrMap
<1>. HIDE DEF q
<1>14. ASSUME NEW i \in Ptrs, i > n \/ m.disk.inode[x].ptrs[i] # 0
       PROVE  q[i] = m.disk.inode[x].ptrs[i]
  <2>1. CASE i = n
    <3>1. w.ptrs[n] = m.disk.inode[x].ptrs[n]
      BY <1>12 DEF Written
    <3>. QED
      BY <1>12, <1>13, <1>14, <2>1, <3>1 DEF p
  <2>2. CASE i # n
    BY <1>12, <1>13, <1>14, <2>2 DEF Written, Ptrs
  <2>. QED
    BY <2>1, <2>2
<1>15. ASSUME NEW i \in 1..n
       PROVE  q[i] # 0 /\ \A j \in 1..BlockUnits :
                Place(i, j) <= Len(units) => after.disk.data[q[i]][j] = units[Place(i, j)]
  <2>1. CASE i = n
    BY <1>1, <1>7, <1>8, <1>13, <2>1
  <2>2. CASE i # n
    <3>1. i \in 1..(n - 1) /\ i \in Ptrs
      BY <1>12, <2>2 DEF Ptrs
    <3>2. q[i] = w.ptrs[i] /\ w.ptrs[i] # 0 /\ w.ptrs[i] # p
      BY <1>1, <1>13, <2>2, <3>1 DEF Written
    <3>3. w.ptrs[i] \in Blk
      BY <1>3, <3>1, <3>2, Constants DEF PtrMap, Blk
    <3>4. \A j \in 1..BlockUnits : Place(i, j) <= Len(units) => w.m.disk.data[w.ptrs[i]][j] = units[Place(i, j)]
      BY <3>1 DEF Written
    <3>. QED
      BY <1>8, <3>2, <3>3, <3>4
  <2>. QED
    BY <2>1, <2>2
<1>16. Stands(after, m)
  BY <1>8 DEF Stands, Written
<1>. HIDE DEF z
<1>17. Written(z, m, x, units, n)
  BY <1>2, <1>10, <1>11, <1>14, <1>15, <1>16 DEF Written
<1>. QED
  BY <1>17 DEF z, c

LEMMA NothingWritten ==
    ASSUME NEW m, Shape(m.disk), NEW x \in Ino, NEW units, NEW w,
           w = [m |-> m, ptrs |-> GetInode(m.disk, x).ptrs, ok |-> TRUE]
    PROVE  Written(w, m, x, units, 0)
<1>1. w.m = m /\ w.ok /\ w.ptrs = m.disk.inode[x].ptrs
  BY GetInodeIsNode
<1>2. Partly(m.disk, m.disk, x, units)
  BY DEF Partly, Holds
<1>. QED
  BY <1>1, <1>2 DEF Written, Stands

LEMMA WrittenGoesOn ==
    ASSUME NEW b, NEW m, Sound(b, m), NEW units, IsSeq(units), NEW x \in Ino, NEW n \in 0..NumPtrs,
           NEW f, IsWriting(f, m, units, x, n), NEW l \in 0..n
    PROVE  Off(f[l].m.disk.blockBits) \/ Written(f[l], m, x, units, l)
<1>. DEFINE Holding(k) == Off(f[k].m.disk.blockBits) \/ Written(f[k], m, x, units, k)
            Bad == {k \in 0..n : ~Holding(k)}
<1>1. n \in Nat /\ n <= NumPtrs /\ NumPtrs \in Nat
  BY Constants
<1>2. CASE Bad = {}
  BY <1>2
<1>3. CASE Bad # {}
  <2>1. PICK k \in Bad : \A j \in Bad : k <= j
    <3>1. Bad \in SUBSET Nat
      OBVIOUS
    <3>. HIDE DEF Bad
    <3>. QED
      BY <1>3, <3>1, MinIsLeast
  <2>2. CASE k = 0
    <3>1. f[0] = [m |-> m, ptrs |-> GetInode(m.disk, x).ptrs, ok |-> TRUE]
      BY <1>1 DEF IsWriting
    <3>2. Written(f[0], m, x, units, 0)
      BY <3>1, NothingWritten, SoundHere
    <3>. QED
      BY <2>1, <2>2, <3>2
  <2>3. CASE k # 0
    <3>1. k - 1 \in 0..n /\ k - 1 \notin Bad /\ k \in 0..n /\ k \in Ptrs
      BY <1>1, <2>1, <2>3 DEF Ptrs
    <3>2. f[k] = WriteBlock(f[k - 1], Chunk(units, k), k)
      BY <2>3, <3>1 DEF IsWriting
    <3>3. Writing(b, f[k - 1], m, x)
      BY <3>1, WritingGoesOn
    <3>4. IsSeq(Chunk(units, k)) /\ Len(Chunk(units, k)) \in 0..BlockUnits
      BY <3>1, ChunkFacts DEF Ptrs
    <3>5. CASE Off(f[k - 1].m.disk.blockBits)
      <4>. DEFINE a == f[k - 1].m.disk.blockBits
      <4>1. Writing(a, f[k - 1], m, x)
        BY <3>3, SoundHere DEF Writing
      <4>2. Writing(a, f[k], m, x)
        BY <3>1, <3>2, <3>4, <4>1, WriteBlockWrites
      <4>3. Off(f[k].m.disk.blockBits)
        BY <3>5, <4>2, OffStays DEF Writing
      <4>. QED
        BY <2>1, <4>3
    <3>6. CASE ~Off(f[k - 1].m.disk.blockBits)
      <4>1. Written(f[k - 1], m, x, units, k - 1)
        BY <3>1, <3>6
      <4>2. Shape(m.disk)
        BY SoundHere
      <4>3. Written(f[k], m, x, units, k)
        BY <3>1, <3>2, <3>3, <3>6, <4>1, <4>2, WriteBlockGoesOn
      <4>. QED
        BY <2>1, <4>3
    <3>. QED
      BY <3>5, <3>6
  <2>. QED
    BY <2>2, <2>3
<1>. QED
  BY <1>2, <1>3

\* From m to n only inode x was written.
SetsInode(n, m, x, node) ==
    /\ n.disk.magic = m.disk.magic /\ n.disk.inodeBits = m.disk.inodeBits
    /\ n.disk.inode = [m.disk.inode EXCEPT ![x] = node]
    /\ n.disk.data = m.disk.data /\ n.disk.blockBits = m.disk.blockBits
    /\ Stands(n, m) /\ IsMachine(n) /\ IsSeq(n.log)
    /\ ToSet(n.log) = ToSet(m.log) \union {n.disk}

LEMMA SetInodeFacts ==
    ASSUME NEW m, Shape(m.disk), IsMachine(m), IsSeq(m.log), NEW x \in Ino, NEW node
    PROVE  SetsInode(SetInode(m, x, node), m, x, node)
<1>. DEFINE d == [m.disk EXCEPT !.inode[x] = node]
            n == SetInode(m, x, node)
<1>1. /\ d.magic = m.disk.magic /\ d.inodeBits = m.disk.inodeBits
      /\ d.inode = [m.disk.inode EXCEPT ![x] = node] /\ d.data = m.disk.data /\ d.blockBits = m.disk.blockBits
  BY DEF Shape
<1>. HIDE DEF d
<1>2. n = DiskWrite(m, d)
  BY DEF SetInode, d
<1>. HIDE DEF n
<1>3. SetsInode(n, m, x, node)
  BY <1>1, <1>2, DiskWriteFacts DEF Stands, SetsInode
<1>. QED
  BY <1>3 DEF n

\* What writeInode leaves.
WritesOut(n, m, units, x) ==
    /\ n.disk.magic = m.disk.magic /\ n.disk.inodeBits = m.disk.inodeBits
    /\ \A y \in Ino : n.disk.inode[y].type = m.disk.inode[y].type
    /\ \A y \in Ino \ {x} : n.disk.inode[y] = m.disk.inode[y] /\ GetInodeData(n.disk, y) = GetInodeData(m.disk, y)
    /\ Len(units) <= NumPtrs * BlockUnits => GetInodeData(n.disk, x) = units
    /\ Stands(n, m)
    /\ \A d \in ToSet(n.log) : d \in ToSet(m.log) \/ d = n.disk \/ Partly(d, m.disk, x, units)

\* What is read of an inode whose blocks were not written.
LEMMA OthersKept ==
    ASSUME NEW d, Shape(d), NEW e, Shape(e), NEW x, NEW units, Holds(d, e, x, units),
           NEW y \in Ino \ {x}, d.inode[y] = e.inode[y]
    PROVE  GetInodeData(d, y) = GetInodeData(e, y)
<1>1. IsSeq(GetInodeData(e, y)) /\ Len(GetInodeData(e, y)) = d.inode[y].size
  BY DataLen
<1>2. ASSUME NEW i \in Nat \ {0}, NEW j \in 1..BlockUnits, Place(i, j) <= Len(GetInodeData(e, y))
      PROVE  GetInodeData(e, y)[Place(i, j)] =
                IF i <= ReadOf(d.inode[y].ptrs) THEN d.data[d.inode[y].ptrs[i]][j] ELSE Zero
  <2>1. GetInodeData(e, y)[Place(i, j)] =
           IF i <= ReadOf(e.inode[y].ptrs) THEN e.data[e.inode[y].ptrs[i]][j] ELSE Zero
    BY <1>1, <1>2, DataAt
  <2>2. ASSUME i <= ReadOf(e.inode[y].ptrs)
        PROVE  d.data[e.inode[y].ptrs[i]][j] = e.data[e.inode[y].ptrs[i]][j]
    <3>1. i \in 1..ReadOf(e.inode[y].ptrs)
      BY <2>2, ReadFacts
    <3>2. i \in Ptrs /\ e.inode[y].ptrs[i] # 0
      BY <3>1, ReadFacts
    <3>. QED
      BY <3>2 DEF Holds
  <2>. QED
    BY <2>1, <2>2
<1>. QED
  BY <1>1, <1>2, DataIs

LEMMA HoldsAgain ==
    ASSUME NEW d, NEW e, NEW x, NEW units, Holds(d, e, x, units), NEW f, f.data = d.data
    PROVE  Holds(f, e, x, units)
BY DEF Holds

LEMMA WriteInodeWrites ==
    ASSUME NEW b, NEW m, Sound(b, m), NEW units, IsSeq(units), NEW x \in Ino,
           ~Off(WriteInode(m, units, x).disk.blockBits)
    PROVE  WritesOut(WriteInode(m, units, x), m, units, x)
<1>. DEFINE c == Chunks(units)
            f == CHOOSE f : IsWriting(f, m, units, x, c)
            w == f[c]
            node == [GetInode(m.disk, x) EXCEPT !.size = Len(units), !.ptrs = w.ptrs]
            n == WriteInode(m, units, x)
<1>1. c \in 0..NumPtrs /\ c \in Nat /\ NumPtrs \in Nat
  BY ChunksInRange, Constants
<1>2. IsWriting(f, m, units, x, c)
  <2>. HIDE DEF c
  <2>. QED
    BY <1>1, WritingExists
<1>3. n = IF w.ok THEN SetInode(w.m, x, node) ELSE w.m
  BY DEF WriteInode, IsWriting
<1>4. Sound(b, n)
  BY WriteInodeSound
<1>. HIDE DEF f, n, c
<1>5. c \in 0..c
  BY <1>1
<1>6. Writing(b, w, m, x) /\ (Off(w.m.disk.blockBits) \/ Written(w, m, x, units, c))
  BY <1>1, <1>2, <1>5, WritingGoesOn, WrittenGoesOn
<1>. HIDE DEF w
<1>7. GetInode(m.disk, x) = m.disk.inode[x] /\ m.disk.inode[x] \in Node /\ Shape(m.disk)
  BY GetInodeIsNode, SoundHere DEF Node
<1>8. Len(units) \in Nat
  BY SeqFacts
<1>9. node.size = Len(units) /\ node.ptrs = w.ptrs /\ node.type = m.disk.inode[x].type
  BY <1>7 DEF Node
<1>10. Shape(w.m.disk) /\ IsMachine(w.m) /\ IsSeq(w.m.log) /\ w.m.disk.inode = m.disk.inode
  BY <1>6, SoundHere DEF Writing
<1>. HIDE DEF node
<1>11. ~Off(w.m.disk.blockBits)
  <2>1. CASE w.ok
    <3>1. SetsInode(SetInode(w.m, x, node), w.m, x, node)
      BY <1>10, SetInodeFacts
    <3>2. SetsInode(n, w.m, x, node)
      BY <1>3, <2>1, <3>1
    <3>. QED
      BY <3>2 DEF SetsInode, n
  <2>2. CASE ~w.ok
    <3>1. n = w.m
      BY <1>3, <2>2
    <3>. QED
      BY <3>1 DEF n
  <2>. QED
    BY <2>1, <2>2
<1>12. Written(w, m, x, units, c)
  BY <1>6, <1>11
<1>13. n = SetInode(w.m, x, node)
  BY <1>3, <1>12 DEF Written
<1>14. /\ n.disk.magic = w.m.disk.magic /\ n.disk.inodeBits = w.m.disk.inodeBits
       /\ n.disk.inode = [m.disk.inode EXCEPT ![x] = node]
       /\ n.disk.data = w.m.disk.data
       /\ Stands(n, w.m)
       /\ ToSet(n.log) = ToSet(w.m.log) \union {n.disk}
  BY <1>10, <1>13, SetInodeFacts DEF SetsInode
<1>15. Shape(n.disk)
  BY <1>4, SoundHere
<1>16. n.disk.inode[x] = node /\ \A y \in Ino \ {x} : n.disk.inode[y] = m.disk.inode[y]
  BY <1>7, <1>14 DEF Shape
<1>17. Holds(n.disk, m.disk, x, units)
  <2>1. Holds(w.m.disk, m.disk, x, units)
    BY <1>12 DEF Written, Partly
  <2>2. n.disk.data = w.m.disk.data
    BY <1>14
  <2>. QED
    BY <2>1, <2>2, HoldsAgain
<1>18. ASSUME NEW y \in Ino \ {x} PROVE GetInodeData(n.disk, y) = GetInodeData(m.disk, y)
  BY <1>7, <1>15, <1>16, <1>17, <1>18, OthersKept
<1>19. ASSUME Len(units) <= NumPtrs * BlockUnits PROVE GetInodeData(n.disk, x) = units
  <2>1. ASSUME NEW i \in Nat \ {0}, NEW j \in 1..BlockUnits, Place(i, j) <= Len(units)
        PROVE  units[Place(i, j)] =
                  IF i <= ReadOf(n.disk.inode[x].ptrs) THEN n.disk.data[n.disk.inode[x].ptrs[i]][j] ELSE Zero
    <3>1. i \in 1..c
      BY <1>19, <2>1, ChunksCover DEF c
    <3>2. \A k \in 1..c : w.ptrs[k] # 0
      BY <1>12 DEF Written
    <3>3. c <= ReadOf(w.ptrs)
      BY <1>1, <3>2, ReadFacts
    <3>4. i <= ReadOf(w.ptrs)
      BY <1>1, <3>1, <3>3, ReadFacts
    <3>5. w.m.disk.data[w.ptrs[i]][j] = units[Place(i, j)]
      BY <1>12, <2>1, <3>1 DEF Written
    <3>. QED
      BY <1>9, <1>14, <1>16, <3>4, <3>5
  <2>2. Len(units) = n.disk.inode[x].size
    BY <1>9, <1>16
  <2>. QED
    BY <1>15, <2>1, <2>2, DataIs
<1>20. ASSUME NEW d \in ToSet(n.log)
       PROVE  d \in ToSet(m.log) \/ d = n.disk \/ Partly(d, m.disk, x, units)
  BY <1>12, <1>14, <1>20 DEF Written
<1>21. n.disk.magic = m.disk.magic /\ n.disk.inodeBits = m.disk.inodeBits /\ Stands(n, m)
  BY <1>12, <1>14 DEF Written, Partly, Stands
<1>22. \A y \in Ino : n.disk.inode[y].type = m.disk.inode[y].type
  BY <1>9, <1>16
<1>23. WritesOut(n, m, units, x)
  BY <1>16, <1>18, <1>19, <1>20, <1>21, <1>22 DEF WritesOut
<1>. QED
  BY <1>23 DEF n

---------------------------------------------------------------------------
(* What the disk says of the tree: the inodes in use, their types and the  *)
(* entries of the directories.  r is a rank that rises from a directory to *)
(* its children.                                                           *)

View(d) == [bits |-> d.inodeBits,
            types |-> [x \in Ino |-> d.inode[x].type],
            lists |-> [x \in Ino |-> ReadDirectoryList(d, x)]]

DirIn(V, x) == x \in V.bits /\ V.types[x] = "dir"

\* Entry i of directory x names a child.
Kid(V, x, i) == DirIn(V, x) /\ i \in 1..Len(V.lists[x]) /\ (i >= 3 \/ x = FATHER)

Ranked(r) == r \in [Ino -> Nat] /\ \E k \in Nat : \A x \in Ino : r[x] <= k

Based(V) ==
    /\ V.bits \subseteq Ino /\ DirIn(V, FATHER) /\ DirIn(V, ROOT)
    /\ V.lists[FATHER] = <<Entry("/", ROOT, "dir")>>
    /\ Len(V.lists[ROOT]) >= 2

Listed(V) ==
    \A x \in Ino :
        /\ IsSeq(V.lists[x]) /\ Len(V.lists[x]) <= NumPtrs * BlockUnits
        /\ \A i \in 1..Len(V.lists[x]) : V.lists[x][i].ino \in Ino

\* The entries s of directory x.
Headed(s, x) ==
    /\ Len(s) >= 1 => s[1] = Entry(".", x, "dir")
    /\ Len(s) >= 2 => s[2].name = ".." /\ s[2].type = "dir"
    /\ \A i \in 3..Len(s) : s[i].name \notin Dots \union {"/"}
    /\ \A i, j \in 1..Len(s) : s[i].name = s[j].name => i = j

HeadsTrue(V) == \A x \in V.bits \ {FATHER} : DirIn(V, x) => Headed(V.lists[x], x)

Child(V, r, x, e) ==
    /\ e = Entry(e.name, e.ino, e.type)
    /\ e.ino \in V.bits \ {FATHER}
    /\ V.types[e.ino] = e.type /\ e.type \in {"dir", "file"}
    /\ r[x] < r[e.ino]
    /\ e.type = "dir" /\ Len(V.lists[e.ino]) >= 2 => V.lists[e.ino][2].ino = x

KidsLive(V, r) == \A x \in V.bits : \A i \in 1..Len(V.lists[x]) : Kid(V, x, i) => Child(V, r, x, V.lists[x][i])

NamedOnce(V) ==
    \A x, y \in V.bits : \A i \in 1..Len(V.lists[x]), j \in 1..Len(V.lists[y]) :
        Kid(V, x, i) /\ Kid(V, y, j) /\ V.lists[x][i].ino = V.lists[y][j].ino => x = y /\ i = j

Tidy(V, r) ==
    Ranked(r) /\ Based(V) /\ Listed(V) /\ HeadsTrue(V) /\ KidsLive(V, r) /\ NamedOnce(V)

\* The names in p lead from the root along the directories w[0], w[1], ...
Walk(V, p, w) ==
    /\ IsSeq(p) /\ w[0] = ROOT
    /\ \A k \in 0..Len(p) : DirIn(V, w[k])
    /\ \A k \in 1..Len(p) : \E i \in 3..Len(V.lists[w[k - 1]]) :
          V.lists[w[k - 1]][i] = Entry(p[k], w[k], "dir")

\* The machine is in a directory of the tree V, and knows what is there.
Within(m, V, w) ==
    /\ Walk(V, m.path, w) /\ m.cwd = w[Len(m.path)]
    /\ Len(V.lists[m.cwd]) >= 2 /\ m.list = V.lists[m.cwd]

---------------------------------------------------------------------------
(* What a write leaves of the view.                                        *)

\* W is V but for the list of x.
Relisted(V, W, x, s) ==
    /\ W.bits = V.bits /\ \A y \in Ino : W.types[y] = V.types[y]
    /\ W.lists[x] = s /\ \A y \in Ino \ {x} : W.lists[y] = V.lists[y]

LEMMA ViewFacts ==
    ASSUME NEW d, Shape(d), NEW x \in Ino
    PROVE  /\ View(d).bits = d.inodeBits /\ View(d).bits \subseteq Ino
           /\ View(d).types[x] = d.inode[x].type
           /\ View(d).lists[x] = ReadDirectoryList(d, x)
           /\ View(d).lists[x] = IF d.inode[x].type = "dir" THEN GetInodeData(d, x) ELSE <<>>
           /\ IsSeq(View(d).lists[x])
<1>1. GetInode(d, x) = d.inode[x]
  BY GetInodeIsNode
<1>2. ReadDirectoryList(d, x) = IF d.inode[x].type = "dir" THEN GetInodeData(d, x) ELSE <<>>
  BY <1>1 DEF ReadDirectoryList
<1>3. IsSeq(ReadDirectoryList(d, x))
  BY <1>2, DataLen, EmptyIsSeq
<1>. QED
  BY <1>2, <1>3 DEF View, Shape

\* Views of the same size.
LEMMA SameView ==
    ASSUME NEW d, NEW e, d.inodeBits = e.inodeBits,
           \A x \in Ino : d.inode[x].type = e.inode[x].type,
           \A x \in Ino : ReadDirectoryList(d, x) = ReadDirectoryList(e, x)
    PROVE  View(d) = View(e)
BY DEF View

\* s begins with t.
Extends(s, t) == Len(t) <= Len(s) /\ \A k \in 1..Len(t) : s[k] = t[k]

LEMMA PartlyLooks ==
    ASSUME NEW d, Shape(d), NEW e, Shape(e), NEW x \in Ino, NEW units, Partly(d, e, x, units),
           e.inode[x].type = "dir" => Extends(units, GetInodeData(e, x))
    PROVE  View(d) = View(e)
<1>1. d.inode = e.inode /\ d.inodeBits = e.inodeBits /\ Holds(d, e, x, units)
  BY DEF Partly
<1>2. ASSUME NEW y \in Ino \ {x} PROVE GetInodeData(d, y) = GetInodeData(e, y)
  BY <1>1, <1>2, OthersKept
<1>3. ASSUME e.inode[x].type = "dir" PROVE GetInodeData(d, x) = GetInodeData(e, x)
  <2>1. IsSeq(GetInodeData(e, x)) /\ Len(GetInodeData(e, x)) = d.inode[x].size
        /\ Len(GetInodeData(e, x)) \in Nat
    BY <1>1, DataLen
  <2>2. ASSUME NEW i \in Nat \ {0}, NEW j \in 1..BlockUnits, Place(i, j) <= Len(GetInodeData(e, x))
        PROVE  GetInodeData(e, x)[Place(i, j)] =
                  IF i <= ReadOf(d.inode[x].ptrs) THEN d.data[d.inode[x].ptrs[i]][j] ELSE Zero
    <3>1. GetInodeData(e, x)[Place(i, j)] =
             IF i <= ReadOf(e.inode[x].ptrs) THEN e.data[e.inode[x].ptrs[i]][j] ELSE Zero
      BY <2>1, <2>2, DataAt, <1>1
    <3>2. ASSUME i <= ReadOf(e.inode[x].ptrs)
          PROVE  d.data[e.inode[x].ptrs[i]][j] = e.data[e.inode[x].ptrs[i]][j]
      <4>1. i \in 1..ReadOf(e.inode[x].ptrs)
        BY <3>2, ReadFacts
      <4>2. i \in Ptrs /\ e.inode[x].ptrs[i] # 0
        BY <4>1, ReadFacts
      <4>3. \/ d.data[e.inode[x].ptrs[i]][j] = e.data[e.inode[x].ptrs[i]][j]
            \/ d.data[e.inode[x].ptrs[i]][j] = units[Place(i, j)]
        BY <1>1, <4>2 DEF Holds
      <4>4. Place(i, j) \in 1..Len(GetInodeData(e, x))
        BY <2>1, <2>2, OnePlace
      <4>5. units[Place(i, j)] = e.data[e.inode[x].ptrs[i]][j]
        BY <1>3, <3>1, <3>2, <4>4 DEF Extends
      <4>. QED
        BY <4>3, <4>5
    <3>. QED
      BY <1>1, <3>1, <3>2
  <2>. QED
    BY <2>1, <2>2, DataIs
<1>4. ASSUME NEW y \in Ino PROVE ReadDirectoryList(d, y) = ReadDirectoryList(e, y)
  <2>1. /\ ReadDirectoryList(d, y) = IF d.inode[y].type = "dir" THEN GetInodeData(d, y) ELSE <<>>
        /\ ReadDirectoryList(e, y) = IF e.inode[y].type = "dir" THEN GetInodeData(e, y) ELSE <<>>
    BY ViewFacts
  <2>2. CASE y = x
    BY <1>1, <1>3, <2>1, <2>2
  <2>3. CASE y # x
    BY <1>1, <1>2, <2>1, <2>3
  <2>. QED
    BY <2>2, <2>3
<1>. QED
  BY <1>1, <1>4, SameView

\* What a command has left behind.
Kept(m) == \A d \in ToSet(m.log) : d.magic /\ \E r : Tidy(View(d), r)

\* writeInode of a directory.
LEMMA WriteDirLooks ==
    ASSUME NEW b, NEW m, Sound(b, m), NEW units, IsSeq(units), Len(units) <= NumPtrs * BlockUnits,
           NEW x \in Ino, View(m.disk).types[x] = "dir",
           NEW n, n = WriteInode(m, units, x), ~Off(n.disk.blockBits)
    PROVE  /\ Sound(b, n) /\ Stands(n, m) /\ n.disk.magic = m.disk.magic
           /\ Relisted(View(m.disk), View(n.disk), x, units)
           /\ Extends(units, View(m.disk).lists[x]) =>
                \A d \in ToSet(n.log) : \/ d \in ToSet(m.log) \/ d = n.disk
                                        \/ d.magic = m.disk.magic /\ View(d) = View(m.disk)
<1>1. WritesOut(n, m, units, x) /\ Sound(b, n)
  BY WriteInodeWrites, WriteInodeSound
<1>2. Shape(m.disk) /\ Shape(n.disk)
  BY <1>1, SoundHere
<1>3. m.disk.inode[x].type = "dir"
  BY <1>2, ViewFacts
<1>4. Relisted(View(m.disk), View(n.disk), x, units)
  <2>1. View(n.disk).bits = View(m.disk).bits
    BY <1>1, <1>2, ViewFacts DEF WritesOut
  <2>2. \A y \in Ino : View(n.disk).types[y] = View(m.disk).types[y]
    BY <1>1, <1>2, ViewFacts DEF WritesOut
  <2>3. View(n.disk).lists[x] = units
    <3>1. View(n.disk).lists[x] = IF n.disk.inode[x].type = "dir" THEN GetInodeData(n.disk, x) ELSE <<>>
      BY <1>2, ViewFacts
    <3>. QED
      BY <1>1, <1>3, <3>1 DEF WritesOut
  <2>4. ASSUME NEW y \in Ino \ {x} PROVE View(n.disk).lists[y] = View(m.disk).lists[y]
    <3>1. /\ View(n.disk).lists[y] = IF n.disk.inode[y].type = "dir" THEN GetInodeData(n.disk, y) ELSE <<>>
          /\ View(m.disk).lists[y] = IF m.disk.inode[y].type = "dir" THEN GetInodeData(m.disk, y) ELSE <<>>
      BY <1>2, ViewFacts
    <3>. QED
      BY <1>1, <3>1 DEF WritesOut
  <2>. QED
    BY <2>1, <2>2, <2>3, <2>4 DEF Relisted
<1>5. ASSUME Extends(units, View(m.disk).lists[x]), NEW d \in ToSet(n.log)
      PROVE  d \in ToSet(m.log) \/ d = n.disk \/ (d.magic = m.disk.magic /\ View(d) = View(m.disk))
  <2>1. d \in ToSet(m.log) \/ d = n.disk \/ Partly(d, m.disk, x, units)
    BY <1>1, <1>5 DEF WritesOut
  <2>2. Shape(d)
    BY <1>1, <1>5 DEF Sound, Good
  <2>3. View(m.disk).lists[x] = GetInodeData(m.disk, x)
    BY <1>2, <1>3, ViewFacts
  <2>4. CASE Partly(d, m.disk, x, units)
    <3>1. View(d) = View(m.disk)
      BY <1>2, <1>5, <2>2, <2>3, <2>4, PartlyLooks
    <3>. QED
      BY <2>4, <3>1 DEF Partly
  <2>. QED
    BY <2>1, <2>4
<1>. QED
  BY <1>1, <1>4, <1>5 DEF WritesOut

\* writeInode of anything else.
LEMMA WriteFileLooks ==
    ASSUME NEW b, NEW m, Sound(b, m), NEW units, IsSeq(units),
           NEW x \in Ino, View(m.disk).types[x] # "dir",
           NEW n, n = WriteInode(m, units, x), ~Off(n.disk.blockBits)
    PROVE  /\ Sound(b, n) /\ Stands(n, m) /\ n.disk.magic = m.disk.magic
           /\ View(n.disk) = View(m.disk)
           /\ \A d \in ToSet(n.log) : \/ d \in ToSet(m.log) \/ d = n.disk
                                      \/ d.magic = m.disk.magic /\ View(d) = View(m.disk)
<1>1. WritesOut(n, m, units, x) /\ Sound(b, n)
  BY WriteInodeWrites, WriteInodeSound
<1>2. Shape(m.disk) /\ Shape(n.disk)
  BY <1>1, SoundHere
<1>3. m.disk.inode[x].type # "dir"
  BY <1>2, ViewFacts
<1>4. View(n.disk) = View(m.disk)
  <2>1. ASSUME NEW y \in Ino PROVE ReadDirectoryList(n.disk, y) = ReadDirectoryList(m.disk, y)
    <3>1. /\ ReadDirectoryList(n.disk, y) = IF n.disk.inode[y].type = "dir" THEN GetInodeData(n.disk, y) ELSE <<>>
          /\ ReadDirectoryList(m.disk, y) = IF m.disk.inode[y].type = "dir" THEN GetInodeData(m.disk, y) ELSE <<>>
      BY <1>2, ViewFacts
    <3>. QED
      BY <1>1, <1>3, <3>1 DEF WritesOut
  <2>. QED
    BY <1>1, <2>1, SameView DEF WritesOut
<1>5. ASSUME NEW d \in ToSet(n.log)
      PROVE  d \in ToSet(m.log) \/ d = n.disk \/ (d.magic = m.disk.magic /\ View(d) = View(m.disk))
  <2>1. d \in ToSet(m.log) \/ d = n.disk \/ Partly(d, m.disk, x, units)
    BY <1>1, <1>5 DEF WritesOut
  <2>2. Shape(d)
    BY <1>1, <1>5 DEF Sound, Good
  <2>3. CASE Partly(d, m.disk, x, units)
    <3>1. View(d) = View(m.disk)
      BY <1>2, <1>3, <2>2, <2>3, PartlyLooks
    <3>. QED
      BY <2>3, <3>1 DEF Partly
  <2>. QED
    BY <2>1, <2>3
<1>. QED
  BY <1>1, <1>4, <1>5 DEF WritesOut

---------------------------------------------------------------------------
(* What keeps a view tidy.                                                 *)

LEMMA FirstInodes == FATHER \in Ino /\ ROOT \in Ino /\ FATHER # ROOT /\ Ino \subseteq Nat
BY Constants DEF FATHER, ROOT, Ino

\* No directory names y.
Unnamed(V, y) ==
    \A x \in V.bits : \A i \in 1..Len(V.lists[x]) : Kid(V, x, i) => V.lists[x][i].ino # y

LEMMA ListFacts ==
    ASSUME NEW V, NEW r, Tidy(V, r), NEW x \in Ino
    PROVE  /\ IsSeq(V.lists[x]) /\ Len(V.lists[x]) \in Nat /\ Len(V.lists[x]) <= NumPtrs * BlockUnits
           /\ \A i \in 1..Len(V.lists[x]) : V.lists[x][i].ino \in Ino
           /\ r[x] \in Nat
BY SeqFacts DEF Tidy, Listed, Ranked

LEMMA TidyParts ==
    ASSUME NEW V, NEW r, Tidy(V, r)
    PROVE  /\ V.bits \subseteq Ino /\ FATHER \in V.bits /\ ROOT \in V.bits
           /\ V.types[FATHER] = "dir" /\ V.types[ROOT] = "dir"
           /\ Len(V.lists[FATHER]) = 1 /\ V.lists[FATHER][1] = Entry("/", ROOT, "dir")
           /\ Len(V.lists[ROOT]) >= 2
BY DEF Tidy, Based, DirIn

\* Directory x loses its entry i, and perhaps the inode behind it is freed.
Loses(V, W, x, i) ==
    /\ \A z \in Ino : W.types[z] = V.types[z]
    /\ W.lists[x] = RemoveAt(V.lists[x], i) /\ \A z \in Ino \ {x} : W.lists[z] = V.lists[z]
    /\ W.bits = V.bits \/ W.bits = V.bits \ {V.lists[x][i].ino}

LEMMA KidFacts ==
    ASSUME NEW V, NEW r, Tidy(V, r), NEW x \in V.bits \ {FATHER}, DirIn(V, x), NEW i \in 3..Len(V.lists[x])
    PROVE  /\ Kid(V, x, i) /\ Child(V, r, x, V.lists[x][i])
           /\ V.lists[x][i].ino \in V.bits \ {FATHER, ROOT, x} /\ r[x] < r[V.lists[x][i].ino]
           /\ V.lists[x][i].name \notin Dots \union {"/"}
<1>. DEFINE y == V.lists[x][i].ino
<1>1. x \in Ino /\ Len(V.lists[x]) \in Nat
  BY ListFacts, TidyParts
<1>2. i \in 1..Len(V.lists[x])
  BY <1>1
<1>3. Kid(V, x, i)
  BY <1>1, <1>2 DEF Kid
<1>4. Child(V, r, x, V.lists[x][i])
  BY <1>2, <1>3 DEF Tidy, KidsLive
<1>5. y \in V.bits \ {FATHER} /\ r[x] < r[y] /\ y \in Ino /\ r[x] \in Nat
  BY <1>1, <1>4, ListFacts, TidyParts DEF Child
<1>6. y # ROOT
  <2>1. Kid(V, FATHER, 1) /\ 1 \in 1..Len(V.lists[FATHER]) /\ V.lists[FATHER][1].ino = ROOT
    BY TidyParts DEF Kid, DirIn, Entry
  <2>. QED
    BY <1>2, <1>3, <2>1, TidyParts DEF Tidy, NamedOnce
<1>7. V.lists[x][i].name \notin Dots \union {"/"}
  BY DEF Tidy, HeadsTrue, Headed
<1>. QED
  BY <1>3, <1>4, <1>5, <1>6, <1>7

LEMMA CutTidy ==
    ASSUME NEW V, NEW r, Tidy(V, r), NEW x \in V.bits \ {FATHER}, DirIn(V, x), NEW i \in 3..Len(V.lists[x]),
           NEW W, Loses(V, W, x, i)
    PROVE  /\ Tidy(W, r) /\ DirIn(W, x)
           /\ W.bits = V.bits => Child(W, r, x, V.lists[x][i]) /\ Unnamed(W, V.lists[x][i].ino)
<1>. DEFINE y == V.lists[x][i].ino
            Old(z, j) == IF z = x /\ j >= i THEN j + 1 ELSE j
<1>1. /\ x \in Ino /\ IsSeq(V.lists[x]) /\ Len(V.lists[x]) \in Nat /\ i \in 1..Len(V.lists[x]) /\ i >= 3
      /\ Len(V.lists[x]) <= NumPtrs * BlockUnits /\ NumPtrs * BlockUnits \in Nat
  BY ListFacts, TidyParts, Constants
<1>2. /\ Kid(V, x, i) /\ Child(V, r, x, V.lists[x][i])
      /\ y \in V.bits \ {FATHER, ROOT, x} /\ r[x] < r[y]
  BY KidFacts
<1>3. /\ IsSeq(W.lists[x]) /\ Len(W.lists[x]) = Len(V.lists[x]) - 1
      /\ \A j \in 1..Len(V.lists[x]) - 1 : W.lists[x][j] = IF j < i THEN V.lists[x][j] ELSE V.lists[x][j + 1]
  <2>. DEFINE s == V.lists[x]
  <2>1. W.lists[x] = RemoveAt(s, i)
    BY DEF Loses
  <2>2. IsSeq(s) /\ i \in 1..Len(s)
    BY <1>1
  <2>. HIDE DEF s
  <2>3. /\ IsSeq(RemoveAt(s, i)) /\ Len(RemoveAt(s, i)) = Len(s) - 1
        /\ \A j \in 1..Len(s) - 1 : RemoveAt(s, i)[j] = IF j < i THEN s[j] ELSE s[j + 1]
    BY <2>2, RemoveFacts
  <2>. QED
    BY <2>1, <2>3 DEF s
<1>. HIDE DEF y
<1>4. /\ W.bits \subseteq V.bits /\ \A z \in V.bits : z # y => z \in W.bits
      /\ x \in W.bits /\ FATHER \in W.bits /\ ROOT \in W.bits /\ W.bits \subseteq Ino
  BY <1>2, TidyParts DEF Loses, y
<1>5. \A z \in Ino : W.types[z] = V.types[z]
  BY DEF Loses
<1>6. \A z \in Ino \ {x} : W.lists[z] = V.lists[z]
  BY DEF Loses
<1>7. Based(W)
  <2>1. W.lists[FATHER] = V.lists[FATHER]
    BY <1>6, FirstInodes
  <2>2. Len(W.lists[ROOT]) >= 2
    BY <1>1, <1>3, <1>6, FirstInodes, TidyParts
  <2>. QED
    BY <1>4, <1>5, <2>1, <2>2, FirstInodes, TidyParts DEF Based, DirIn, Tidy
<1>8. Listed(W)
  <2>1. ASSUME NEW j \in 1..Len(W.lists[x]) PROVE W.lists[x][j].ino \in Ino
    <3>1. j \in 1..Len(V.lists[x]) /\ j + 1 \in 1..Len(V.lists[x]) /\ j \in 1..Len(V.lists[x]) - 1
      BY <1>1, <1>3
    <3>. QED
      BY <1>1, <1>3, <3>1, ListFacts
  <2>2. Len(W.lists[x]) <= NumPtrs * BlockUnits
    BY <1>1, <1>3
  <2>. QED
    BY <1>3, <1>6, <2>1, <2>2 DEF Tidy, Listed
<1>9. Headed(V.lists[x], x)
  BY DEF Tidy, HeadsTrue
<1>10. HeadsTrue(W)
  <2>1. Headed(W.lists[x], x)
    <3>. DEFINE s == V.lists[x]
                t == W.lists[x]
    <3>1. \A j \in 1..Len(t) : t[j] = s[Old(x, j)] /\ Old(x, j) \in 1..Len(s)
      BY <1>1, <1>3
    <3>2. \A j \in 1..Len(t) : j < 3 => Old(x, j) = j
      BY <1>1
    <3>3. \A j \in 3..Len(t) : Old(x, j) \in 3..Len(s) /\ t[j] = s[Old(x, j)]
      BY <1>1, <1>3
    <3>4. \A j, k \in 1..Len(t) : Old(x, j) = Old(x, k) => j = k
      BY <1>1, <1>3
    <3>5. Len(t) \in Nat /\ Len(t) <= Len(s)
      BY <1>1, <1>3
    <3>. HIDE DEF s, t, Old
    <3>6. Headed(s, x)
      BY <1>9 DEF s
    <3>7. Len(t) >= 1 => t[1] = Entry(".", x, "dir")
      <4>1. ASSUME Len(t) >= 1 PROVE t[1] = s[1] /\ Len(s) >= 1
        BY <1>1, <3>1, <3>2, <3>5, <4>1 DEF s
      <4>. QED
        BY <3>6, <4>1 DEF Headed
    <3>8. Len(t) >= 2 => t[2].name = ".." /\ t[2].type = "dir"
      <4>1. ASSUME Len(t) >= 2 PROVE t[2] = s[2] /\ Len(s) >= 2
        BY <1>1, <3>1, <3>2, <3>5, <4>1 DEF s
      <4>. QED
        BY <3>6, <4>1 DEF Headed
    <3>9. \A j \in 3..Len(t) : t[j].name \notin Dots \union {"/"}
      BY <3>3, <3>6 DEF Headed
    <3>10. \A j, k \in 1..Len(t) : t[j].name = t[k].name => j = k
      BY <3>1, <3>4, <3>6 DEF Headed
    <3>11. Headed(t, x)
      BY <3>7, <3>8, <3>9, <3>10 DEF Headed
    <3>. QED
      BY <3>11 DEF t
  <2>2. ASSUME NEW z \in W.bits \ {FATHER}, DirIn(W, z), z # x PROVE Headed(W.lists[z], z)
    <3>1. z \in V.bits \ {FATHER} /\ DirIn(V, z) /\ W.lists[z] = V.lists[z]
      BY <1>4, <1>5, <1>6, <2>2 DEF DirIn
    <3>. QED
      BY <3>1 DEF Tidy, HeadsTrue
  <2>. QED
    BY <2>1, <2>2 DEF HeadsTrue
<1>11. ASSUME NEW z \in W.bits, NEW j \in 1..Len(W.lists[z]), Kid(W, z, j)
       PROVE  /\ Old(z, j) \in 1..Len(V.lists[z]) /\ Kid(V, z, Old(z, j))
              /\ V.lists[z][Old(z, j)] = W.lists[z][j]
              /\ V.lists[z][Old(z, j)].ino # y
  <2>1. z \in V.bits /\ DirIn(V, z)
    BY <1>4, <1>5, <1>11 DEF Kid, DirIn
  <2>2. Len(V.lists[z]) \in Nat
    BY <2>1, ListFacts, TidyParts
  <2>3. Old(z, j) \in 1..Len(V.lists[z]) /\ V.lists[z][Old(z, j)] = W.lists[z][j] /\ ~(z = x /\ Old(z, j) = i)
    <3>1. CASE z = x
      <4>. DEFINE l == Len(V.lists[x])
      <4>1. j \in 1..(l - 1) /\ l \in Nat /\ i \in 3..l /\ j \in Int
        BY <1>1, <1>3, <3>1
      <4>. HIDE DEF l
      <4>2. CASE j >= i
        <5>1. Old(z, j) = j + 1 /\ ~(j < i)
          BY <3>1, <4>1, <4>2
        <5>2. j + 1 \in 1..l /\ j + 1 # i
          BY <4>1, <4>2
        <5>3. W.lists[z][j] = V.lists[z][j + 1]
          BY <1>3, <3>1, <4>1, <5>1 DEF l
        <5>. HIDE DEF Old
        <5>. QED
          BY <3>1, <5>1, <5>2, <5>3 DEF l
      <4>3. CASE ~(j >= i)
        <5>1. Old(z, j) = j /\ j < i
          BY <3>1, <4>1, <4>3
        <5>2. j \in 1..l /\ j # i
          BY <4>1, <5>1
        <5>3. W.lists[z][j] = V.lists[z][j]
          BY <1>3, <3>1, <4>1, <5>1 DEF l
        <5>. HIDE DEF Old
        <5>. QED
          BY <3>1, <5>1, <5>2, <5>3 DEF l
      <4>. QED
        BY <4>2, <4>3
    <3>2. CASE z # x
      BY <1>6, <2>1, <3>2, TidyParts
    <3>. QED
      BY <3>1, <3>2
  <2>4. Kid(V, z, Old(z, j))
    BY <1>1, <1>11, <2>1, <2>3 DEF Kid
  <2>. HIDE DEF Old
  <2>5. V.lists[z][Old(z, j)].ino # y
    BY <1>1, <1>2, <2>1, <2>3, <2>4 DEF Tidy, NamedOnce, y
  <2>. QED
    BY <2>3, <2>4, <2>5
<1>12. ASSUME NEW z \in V.bits, NEW f, Child(V, r, z, f), f.ino \in W.bits
       PROVE  Child(W, r, z, f)
  <2>1. f.ino \in Ino /\ W.types[f.ino] = V.types[f.ino]
    BY <1>4, <1>5, <1>12
  <2>2. Len(W.lists[f.ino]) >= 2 => Len(V.lists[f.ino]) >= 2 /\ W.lists[f.ino][2] = V.lists[f.ino][2]
    <3>1. CASE f.ino = x
      BY <1>1, <1>3, <3>1
    <3>2. CASE f.ino # x
      BY <1>6, <2>1, <3>2
    <3>. QED
      BY <3>1, <3>2
  <2>. QED
    BY <1>12, <2>1, <2>2 DEF Child
<1>13. KidsLive(W, r)
  <2>1. ASSUME NEW z \in W.bits, NEW j \in 1..Len(W.lists[z]), Kid(W, z, j)
        PROVE  Child(W, r, z, W.lists[z][j])
    <3>1. Child(V, r, z, W.lists[z][j]) /\ z \in V.bits /\ W.lists[z][j].ino # y
      <4>. HIDE DEF Old
      <4>. QED
        BY <1>4, <1>11, <2>1 DEF Tidy, KidsLive
    <3>2. W.lists[z][j].ino \in W.bits
      BY <1>4, <3>1 DEF Child
    <3>. QED
      BY <1>12, <3>1, <3>2
  <2>. QED
    BY <2>1 DEF KidsLive
<1>14. NamedOnce(W)
  <2>1. ASSUME NEW z1 \in W.bits, NEW z2 \in W.bits,
               NEW j1 \in 1..Len(W.lists[z1]), NEW j2 \in 1..Len(W.lists[z2]),
               Kid(W, z1, j1), Kid(W, z2, j2), W.lists[z1][j1].ino = W.lists[z2][j2].ino
        PROVE  z1 = z2 /\ j1 = j2
    <3>1. z1 = z2 /\ Old(z1, j1) = Old(z2, j2)
      <4>. HIDE DEF Old
      <4>1. /\ Old(z1, j1) \in 1..Len(V.lists[z1]) /\ Kid(V, z1, Old(z1, j1))
            /\ V.lists[z1][Old(z1, j1)] = W.lists[z1][j1]
        BY <1>11, <2>1
      <4>2. /\ Old(z2, j2) \in 1..Len(V.lists[z2]) /\ Kid(V, z2, Old(z2, j2))
            /\ V.lists[z2][Old(z2, j2)] = W.lists[z2][j2]
        BY <1>11, <2>1
      <4>. QED
        BY <1>4, <2>1, <4>1, <4>2 DEF Tidy, NamedOnce
    <3>2. j1 \in Int /\ j2 \in Int
      OBVIOUS
    <3>. QED
      BY <1>1, <3>1, <3>2
  <2>. QED
    BY <2>1 DEF NamedOnce
<1>15. Tidy(W, r)
  BY <1>7, <1>8, <1>10, <1>13, <1>14 DEF Tidy
<1>16. DirIn(W, x)
  BY <1>1, <1>4, <1>5 DEF DirIn
<1>17. ASSUME W.bits = V.bits PROVE Child(W, r, x, V.lists[x][i]) /\ Unnamed(W, y)
  <2>1. Child(W, r, x, V.lists[x][i])
    BY <1>2, <1>12, <1>17 DEF y
  <2>2. Unnamed(W, y)
    <3>. HIDE DEF Old
    <3>. QED
      BY <1>11 DEF Unnamed
  <2>. QED
    BY <2>1, <2>2
<1>. QED
  BY <1>15, <1>16, <1>17 DEF y

\* Directory x gains an entry at its end.
LEMMA GrowTidy ==
    ASSUME NEW V, NEW r, Tidy(V, r), NEW x \in V.bits \ {FATHER}, DirIn(V, x), NEW e,
           Len(V.lists[x]) < NumPtrs * BlockUnits, e.ino \in Ino,
           NEW W, Relisted(V, W, x, Append(V.lists[x], e)), Headed(Append(V.lists[x], e), x),
           Len(V.lists[x]) >= 2 => Child(V, r, x, e) /\ Unnamed(V, e.ino),
           Len(V.lists[x]) = 1 =>
              \A z \in V.bits : \A i \in 1..Len(V.lists[z]) : Kid(V, z, i) /\ V.lists[z][i].ino = x => z = e.ino
    PROVE  Tidy(W, r)
<1>. DEFINE n == Len(V.lists[x])
<1>1. /\ x \in Ino /\ IsSeq(V.lists[x]) /\ n \in Nat /\ NumPtrs * BlockUnits \in Nat
      /\ V.bits \subseteq Ino
  BY ListFacts, TidyParts, Constants
<1>2. /\ IsSeq(W.lists[x]) /\ Len(W.lists[x]) = n + 1 /\ W.lists[x][n + 1] = e
      /\ \A j \in 1..n : W.lists[x][j] = V.lists[x][j]
  <2>. DEFINE s == V.lists[x]
  <2>1. W.lists[x] = Append(s, e)
    BY DEF Relisted
  <2>2. IsSeq(s)
    BY <1>1
  <2>. HIDE DEF s
  <2>3. /\ IsSeq(Append(s, e)) /\ Len(Append(s, e)) = Len(s) + 1 /\ Append(s, e)[Len(s) + 1] = e
        /\ \A i \in 1..Len(s) : Append(s, e)[i] = s[i]
    BY <2>2, AppendIsSeq
  <2>. QED
    BY <2>1, <2>3 DEF s
<1>. DEFINE Only(y) == \A z \in V.bits : \A i \in 1..Len(V.lists[z]) : Kid(V, z, i) /\ V.lists[z][i].ino = x => z = y
<1>13. /\ n >= 2 => Child(V, r, x, e) /\ Unnamed(V, e.ino)
       /\ n = 1 => Only(e.ino)
       /\ n < NumPtrs * BlockUnits /\ (x = ROOT => n >= 2)
  BY TidyParts
<1>14. \A z \in V.bits : \A i \in 1..Len(V.lists[z]) :
          V.lists[z][i].ino \in Ino
  BY <1>1, ListFacts
<1>. HIDE DEF n
<1>3. W.bits = V.bits /\ \A z \in Ino : W.types[z] = V.types[z]
  BY DEF Relisted
<1>4. \A z \in Ino \ {x} : W.lists[z] = V.lists[z]
  BY DEF Relisted
<1>5. \A z : DirIn(W, z) <=> DirIn(V, z)
  BY <1>1, <1>3 DEF DirIn
<1>6. Based(W)
  <2>1. W.lists[FATHER] = V.lists[FATHER]
    BY <1>4, FirstInodes
  <2>2. Len(W.lists[ROOT]) >= 2
    BY <1>1, <1>2, <1>4, <1>13, FirstInodes, TidyParts
  <2>. QED
    BY <1>3, <1>5, <2>1, <2>2 DEF Based, Tidy
<1>7. Listed(W)
  <2>1. ASSUME NEW j \in 1..Len(W.lists[x]) PROVE W.lists[x][j].ino \in Ino
    <3>1. j = n + 1 \/ j \in 1..n
      BY <1>1, <1>2
    <3>. QED
      BY <1>1, <1>2, <1>14, <3>1 DEF n
  <2>2. Len(W.lists[x]) <= NumPtrs * BlockUnits
    BY <1>1, <1>2, <1>13
  <2>. QED
    BY <1>2, <1>4, <2>1, <2>2 DEF Tidy, Listed
<1>8. HeadsTrue(W)
  <2>1. Headed(W.lists[x], x)
    BY DEF Relisted
  <2>2. ASSUME NEW z \in W.bits \ {FATHER}, DirIn(W, z), z # x PROVE Headed(W.lists[z], z)
    <3>1. z \in V.bits \ {FATHER} /\ DirIn(V, z) /\ W.lists[z] = V.lists[z]
      BY <1>1, <1>3, <1>4, <1>5, <2>2
    <3>. QED
      BY <3>1 DEF Tidy, HeadsTrue
  <2>. QED
    BY <2>1, <2>2 DEF HeadsTrue
<1>9. ASSUME NEW z \in W.bits, NEW j \in 1..Len(W.lists[z]), Kid(W, z, j)
      PROVE  \/ j \in 1..Len(V.lists[z]) /\ Kid(V, z, j) /\ V.lists[z][j] = W.lists[z][j]
             \/ z = x /\ j = n + 1 /\ n >= 2 /\ W.lists[z][j] = e
  <2>1. DirIn(V, z) /\ (j >= 3 \/ z = FATHER) /\ z \in Ino
    BY <1>1, <1>3, <1>5, <1>9 DEF Kid
  <2>2. CASE z = x
    <3>1. j = n + 1 \/ j \in 1..n
      BY <1>1, <1>2, <2>2
    <3>. QED
      BY <1>1, <1>2, <2>1, <2>2, <3>1 DEF Kid, n
  <2>3. CASE z # x
    BY <1>4, <2>1, <2>3 DEF Kid
  <2>. QED
    BY <2>2, <2>3
<1>10. ASSUME NEW z \in V.bits, NEW f, Child(V, r, z, f), f.ino = x /\ n = 1 => z = e.ino
       PROVE  Child(W, r, z, f)
  <2>1. f.ino \in Ino /\ W.types[f.ino] = V.types[f.ino]
    BY <1>1, <1>3, <1>10 DEF Child
  <2>2. CASE f.ino # x
    <3>1. W.lists[f.ino] = V.lists[f.ino]
      BY <1>4, <2>1, <2>2
    <3>. QED
      BY <1>3, <1>10, <2>1, <3>1 DEF Child
  <2>3. CASE f.ino = x
    <3>1. CASE n = 0
      <4>1. Len(W.lists[f.ino]) = 1
        BY <1>2, <2>3, <3>1
      <4>. QED
        BY <1>3, <1>10, <2>1, <4>1 DEF Child
    <3>2. CASE n = 1
      <4>1. W.lists[f.ino][2].ino = z
        BY <1>2, <1>10, <2>3, <3>2
      <4>. QED
        BY <1>3, <1>10, <2>1, <4>1 DEF Child
    <3>3. CASE n >= 2
      <4>1. W.lists[f.ino][2] = V.lists[f.ino][2] /\ Len(V.lists[f.ino]) >= 2
        BY <1>1, <1>2, <2>3, <3>3 DEF n
      <4>. QED
        BY <1>3, <1>10, <2>1, <4>1 DEF Child
    <3>. QED
      BY <1>1, <3>1, <3>2, <3>3
  <2>. QED
    BY <2>2, <2>3
<1>11. KidsLive(W, r)
  <2>1. ASSUME NEW z \in W.bits, NEW j \in 1..Len(W.lists[z]), Kid(W, z, j)
        PROVE  Child(W, r, z, W.lists[z][j])
    <3>1. CASE j \in 1..Len(V.lists[z]) /\ Kid(V, z, j) /\ V.lists[z][j] = W.lists[z][j]
      <4>1. z \in V.bits /\ Child(V, r, z, W.lists[z][j])
        BY <1>3, <3>1 DEF Tidy, KidsLive
      <4>2. W.lists[z][j].ino = x /\ n = 1 => z = e.ino
        BY <1>13, <3>1, <4>1
      <4>. QED
        BY <1>10, <4>1, <4>2
    <3>2. CASE z = x /\ j = n + 1 /\ n >= 2 /\ W.lists[z][j] = e
      <4>1. Child(V, r, x, e) /\ ~(n = 1)
        BY <1>1, <1>13, <3>2
      <4>. QED
        BY <1>10, <3>2, <4>1
    <3>. QED
      BY <1>9, <2>1, <3>1, <3>2
  <2>. QED
    BY <2>1 DEF KidsLive
<1>12. NamedOnce(W)
  <2>1. ASSUME NEW z1 \in W.bits, NEW z2 \in W.bits,
               NEW j1 \in 1..Len(W.lists[z1]), NEW j2 \in 1..Len(W.lists[z2]),
               Kid(W, z1, j1), Kid(W, z2, j2), W.lists[z1][j1].ino = W.lists[z2][j2].ino
        PROVE  z1 = z2 /\ j1 = j2
    <3>1. CASE z1 = x /\ j1 = n + 1 /\ n >= 2 /\ W.lists[z1][j1] = e
      <4>1. ~(j2 \in 1..Len(V.lists[z2]) /\ Kid(V, z2, j2) /\ V.lists[z2][j2] = W.lists[z2][j2])
        BY <1>3, <1>13, <2>1, <3>1 DEF Unnamed
      <4>2. z2 = x /\ j2 = n + 1
        BY <1>9, <2>1, <4>1
      <4>. QED
        BY <3>1, <4>2
    <3>2. CASE z2 = x /\ j2 = n + 1 /\ n >= 2 /\ W.lists[z2][j2] = e
      <4>1. ~(j1 \in 1..Len(V.lists[z1]) /\ Kid(V, z1, j1) /\ V.lists[z1][j1] = W.lists[z1][j1])
        BY <1>3, <1>13, <2>1, <3>2 DEF Unnamed
      <4>2. z1 = x /\ j1 = n + 1
        BY <1>9, <2>1, <4>1
      <4>. QED
        BY <3>2, <4>2
    <3>3. CASE /\ j1 \in 1..Len(V.lists[z1]) /\ Kid(V, z1, j1) /\ V.lists[z1][j1] = W.lists[z1][j1]
               /\ j2 \in 1..Len(V.lists[z2]) /\ Kid(V, z2, j2) /\ V.lists[z2][j2] = W.lists[z2][j2]
      <4>1. z1 \in V.bits /\ z2 \in V.bits /\ V.lists[z1][j1].ino = V.lists[z2][j2].ino
        BY <1>3, <2>1, <3>3
      <4>2. NamedOnce(V)
        BY DEF Tidy
      <4>. QED
        BY <3>3, <4>1, <4>2 DEF NamedOnce
    <3>. QED
      BY <1>9, <2>1, <3>1, <3>2, <3>3
  <2>. QED
    BY <2>1 DEF NamedOnce
<1>. QED
  BY <1>6, <1>7, <1>8, <1>11, <1>12 DEF Tidy

\* The names of a directory's entries with one more.
LEMMA MoreHeaded ==
    ASSUME NEW s, IsSeq(s), NEW x, Headed(s, x), NEW e,
           \A k \in 1..Len(s) : s[k].name # e.name,
           Len(s) = 0 => e = Entry(".", x, "dir"),
           Len(s) = 1 => e.name = ".." /\ e.type = "dir",
           Len(s) >= 2 => e.name \notin Dots \union {"/"}
    PROVE  Headed(Append(s, e), x)
<1>. DEFINE t == Append(s, e)
            n == Len(s)
<1>1. n \in Nat /\ Len(t) = n + 1 /\ t[n + 1] = e /\ \A i \in 1..n : t[i] = s[i]
  BY SeqFacts, AppendIsSeq
<1>7. /\ n = 0 => e = Entry(".", x, "dir")
      /\ n = 1 => e.name = ".." /\ e.type = "dir"
      /\ n >= 2 => e.name \notin Dots \union {"/"}
      /\ n >= 1 => s[1] = Entry(".", x, "dir")
      /\ n >= 2 => s[2].name = ".." /\ s[2].type = "dir"
  BY DEF Headed
<1>8. \A k \in 1..n : s[k].name # e.name
  OBVIOUS
<1>9. \A i \in 3..n : s[i].name \notin Dots \union {"/"}
  BY DEF Headed
<1>10. \A i, j \in 1..n : s[i].name = s[j].name => i = j
  BY DEF Headed
<1>. HIDE DEF t, n
<1>2. t[1] = Entry(".", x, "dir")
  BY <1>1, <1>7
<1>3. Len(t) >= 2 => t[2].name = ".." /\ t[2].type = "dir"
  BY <1>1, <1>7
<1>4. \A i \in 3..Len(t) : t[i].name \notin Dots \union {"/"}
  <2>1. ASSUME NEW i \in 3..Len(t) PROVE t[i].name \notin Dots \union {"/"}
    <3>1. (i = n + 1 /\ n >= 2) \/ i \in 3..n
      BY <1>1
    <3>. QED
      BY <1>1, <1>7, <1>9, <3>1
  <2>. QED
    BY <2>1
<1>5. \A i, j \in 1..Len(t) : t[i].name = t[j].name => i = j
  <2>1. ASSUME NEW i \in 1..Len(t), NEW j \in 1..Len(t), t[i].name = t[j].name PROVE i = j
    <3>1. (i = n + 1 \/ i \in 1..n) /\ (j = n + 1 \/ j \in 1..n)
      BY <1>1
    <3>. QED
      BY <1>1, <1>8, <1>10, <2>1, <3>1
  <2>. QED
    BY <2>1
<1>6. Headed(t, x)
  BY <1>2, <1>3, <1>4, <1>5 DEF Headed
<1>. QED
  BY <1>6 DEF t

\* Inode x, which was free, is taken.
Takes(V, W, x, type) ==
    /\ x \in Ino \ V.bits /\ W.bits = V.bits \union {x}
    /\ W.types[x] = type /\ W.lists[x] = <<>>
    /\ \A z \in Ino \ {x} : W.types[z] = V.types[z] /\ W.lists[z] = V.lists[z]

\* ... or is not taken yet.
Readies(V, W, x) ==
    /\ x \in Ino \ V.bits /\ W.bits = V.bits /\ W.lists[x] = <<>>
    /\ \A z \in Ino \ {x} : W.types[z] = V.types[z] /\ W.lists[z] = V.lists[z]

\* x comes to lie below c.
Deepens(q, r, x, c) == q = [r EXCEPT ![x] = r[c] + 1]

LEMMA TakeTidy ==
    ASSUME NEW V, NEW r, Tidy(V, r), NEW W, NEW x, NEW type, NEW c \in V.bits,
           Takes(V, W, x, type) \/ Readies(V, W, x), NEW q, Deepens(q, r, x, c)
    PROVE  Tidy(W, q) /\ (x \in W.bits => Unnamed(W, x)) /\ q[c] < q[x]
<1>1. /\ x \in Ino \ V.bits /\ W.bits \subseteq V.bits \union {x} /\ V.bits \subseteq W.bits /\ W.lists[x] = <<>>
      /\ \A z \in Ino \ {x} : W.types[z] = V.types[z] /\ W.lists[z] = V.lists[z]
  BY DEF Takes, Readies
<1>2. /\ V.bits \subseteq Ino /\ x \notin {FATHER, ROOT, c} /\ FATHER \in V.bits /\ ROOT \in V.bits
      /\ r \in [Ino -> Nat] /\ c \in Ino
  BY <1>1, TidyParts DEF Tidy, Ranked
<1>3. Len(W.lists[x]) = 0 /\ IsSeq(W.lists[x])
  BY <1>1, EmptyIsSeq
<1>4. q[x] = r[c] + 1 /\ \A z \in Ino \ {x} : q[z] = r[z]
  BY <1>1, <1>2 DEF Deepens
<1>5. Ranked(q)
  <2>1. PICK k \in Nat : \A z \in Ino : r[z] <= k
    BY DEF Tidy, Ranked
  <2>2. \A z \in Ino : q[z] \in Nat /\ q[z] <= k + 1
    BY <1>2, <1>4, <2>1
  <2>3. r[c] + 1 \in Nat
    BY <1>2
  <2>4. q \in [Ino -> Nat]
    BY <1>2, <2>3 DEF Deepens
  <2>5. k + 1 \in Nat
    BY <2>1
  <2>. QED
    BY <2>2, <2>4, <2>5 DEF Ranked
<1>6. \A z \in Ino \ {x} : DirIn(W, z) <=> DirIn(V, z)
  BY <1>1 DEF DirIn
<1>7. ASSUME NEW z \in W.bits, NEW j \in 1..Len(W.lists[z]), Kid(W, z, j)
      PROVE  z # x /\ z \in V.bits /\ j \in 1..Len(V.lists[z]) /\ Kid(V, z, j) /\ V.lists[z][j] = W.lists[z][j]
  <2>1. z # x /\ z \in V.bits /\ z \in Ino
    BY <1>1, <1>2, <1>3
  <2>. QED
    BY <1>1, <1>6, <1>7, <2>1 DEF Kid
<1>8. Based(W)
  <2>1. W.bits \subseteq Ino
    BY <1>1, <1>2
  <2>. QED
    BY <1>1, <1>2, <1>6, <2>1, FirstInodes DEF Based, Tidy
<1>9. Listed(W)
  <2>1. NumPtrs * BlockUnits \in Nat
    BY Constants
  <2>2. ASSUME NEW z \in Ino
        PROVE  /\ IsSeq(W.lists[z]) /\ Len(W.lists[z]) <= NumPtrs * BlockUnits
               /\ \A i \in 1..Len(W.lists[z]) : W.lists[z][i].ino \in Ino
    <3>1. CASE z = x
      BY <1>3, <2>1, <3>1
    <3>2. CASE z # x
      BY <1>1, <3>2 DEF Tidy, Listed
    <3>. QED
      BY <3>1, <3>2
  <2>. QED
    BY <2>2 DEF Listed
<1>10. HeadsTrue(W)
  <2>1. ASSUME NEW z \in W.bits \ {FATHER}, DirIn(W, z) PROVE Headed(W.lists[z], z)
    <3>1. CASE z = x
      BY <1>3, <3>1 DEF Headed
    <3>2. CASE z # x
      <4>1. z \in V.bits \ {FATHER} /\ DirIn(V, z) /\ W.lists[z] = V.lists[z]
        BY <1>1, <1>2, <1>6, <2>1, <3>2
      <4>. QED
        BY <4>1 DEF Tidy, HeadsTrue
    <3>. QED
      BY <3>1, <3>2
  <2>. QED
    BY <2>1 DEF HeadsTrue
<1>11. KidsLive(W, q)
  <2>1. ASSUME NEW z \in W.bits, NEW j \in 1..Len(W.lists[z]), Kid(W, z, j)
        PROVE  Child(W, q, z, W.lists[z][j])
    <3>. DEFINE f == W.lists[z][j]
    <3>1. z # x /\ z \in V.bits /\ Child(V, r, z, f)
      BY <1>7, <2>1 DEF Tidy, KidsLive
    <3>. HIDE DEF f
    <3>2. f.ino \in V.bits \ {FATHER} /\ f.ino # x /\ f.ino \in Ino /\ z \in Ino
      BY <1>1, <1>2, <3>1 DEF Child
    <3>3. /\ W.types[f.ino] = V.types[f.ino] /\ W.lists[f.ino] = V.lists[f.ino]
          /\ q[f.ino] = r[f.ino] /\ q[z] = r[z] /\ f.ino \in W.bits \ {FATHER}
      BY <1>1, <1>4, <3>1, <3>2
    <3>4. Child(W, q, z, f)
      BY <3>1, <3>3 DEF Child
    <3>. QED
      BY <3>4 DEF f
  <2>. QED
    BY <2>1 DEF KidsLive
<1>12. NamedOnce(W)
  <2>1. ASSUME NEW z1 \in W.bits, NEW z2 \in W.bits,
               NEW j1 \in 1..Len(W.lists[z1]), NEW j2 \in 1..Len(W.lists[z2]),
               Kid(W, z1, j1), Kid(W, z2, j2), W.lists[z1][j1].ino = W.lists[z2][j2].ino
        PROVE  z1 = z2 /\ j1 = j2
    <3>1. /\ z1 \in V.bits /\ j1 \in 1..Len(V.lists[z1]) /\ Kid(V, z1, j1) /\ V.lists[z1][j1] = W.lists[z1][j1]
          /\ z2 \in V.bits /\ j2 \in 1..Len(V.lists[z2]) /\ Kid(V, z2, j2) /\ V.lists[z2][j2] = W.lists[z2][j2]
      BY <1>7, <2>1
    <3>. QED
      BY <2>1, <3>1 DEF Tidy, NamedOnce
  <2>. QED
    BY <2>1 DEF NamedOnce
<1>13. x \in W.bits => Unnamed(W, x)
  <2>1. ASSUME NEW z \in W.bits, NEW j \in 1..Len(W.lists[z]), Kid(W, z, j)
        PROVE  W.lists[z][j].ino # x
    <3>1. Child(V, r, z, W.lists[z][j])
      BY <1>7, <2>1 DEF Tidy, KidsLive
    <3>. QED
      BY <1>1, <3>1 DEF Child
  <2>. QED
    BY <2>1 DEF Unnamed
<1>14. q[c] < q[x]
  BY <1>2, <1>4
<1>. QED
  BY <1>5, <1>8, <1>9, <1>10, <1>11, <1>12, <1>13, <1>14 DEF Tidy

\* A file that has no name can be put anywhere.
LEMMA RankTidy ==
    ASSUME NEW V, NEW r, Tidy(V, r), NEW y \in V.bits \ {FATHER, ROOT}, V.types[y] # "dir", Unnamed(V, y),
           NEW c \in V.bits, c # y, NEW q, Deepens(q, r, y, c)
    PROVE  Tidy(V, q) /\ q[c] < q[y]
<1>1. V.bits \subseteq Ino /\ r \in [Ino -> Nat] /\ c \in Ino /\ y \in Ino
  BY TidyParts DEF Tidy, Ranked
<1>2. q[y] = r[c] + 1 /\ \A z \in Ino \ {y} : q[z] = r[z]
  BY <1>1 DEF Deepens
<1>3. Ranked(q)
  <2>1. PICK k \in Nat : \A z \in Ino : r[z] <= k
    BY DEF Tidy, Ranked
  <2>2. \A z \in Ino : q[z] \in Nat /\ q[z] <= k + 1
    BY <1>1, <1>2, <2>1
  <2>3. r[c] + 1 \in Nat
    BY <1>1
  <2>4. q \in [Ino -> Nat]
    BY <1>1, <2>3 DEF Deepens
  <2>5. k + 1 \in Nat
    BY <2>1
  <2>. QED
    BY <2>2, <2>4, <2>5 DEF Ranked
<1>4. KidsLive(V, q)
  <2>1. ASSUME NEW z \in V.bits, NEW j \in 1..Len(V.lists[z]), Kid(V, z, j)
        PROVE  Child(V, q, z, V.lists[z][j])
    <3>. DEFINE f == V.lists[z][j]
    <3>1. Child(V, r, z, f) /\ f.ino # y /\ z # y
      BY <2>1 DEF Tidy, KidsLive, Unnamed, Kid, DirIn
    <3>. HIDE DEF f
    <3>2. f.ino \in Ino /\ z \in Ino
      BY <1>1, <3>1 DEF Child
    <3>3. Child(V, q, z, f)
      BY <1>2, <3>1, <3>2 DEF Child
    <3>. QED
      BY <3>3 DEF f
  <2>. QED
    BY <2>1 DEF KidsLive
<1>5. q[c] < q[y]
  BY <1>1, <1>2
<1>. QED
  BY <1>3, <1>4, <1>5 DEF Tidy

---------------------------------------------------------------------------
(* Where the machine is, and what a name leads to there.                   *)

LEMMA StepDown ==
    ASSUME NEW V, NEW r, Tidy(V, r), NEW x \in V.bits, DirIn(V, x), NEW i \in 3..Len(V.lists[x]),
           NEW name, NEW y, V.lists[x][i] = Entry(name, y, "dir")
    PROVE  /\ Len(V.lists[x]) >= 3 /\ x # FATHER
           /\ y \in V.bits \ {FATHER, ROOT} /\ r[x] < r[y] /\ name \notin Dots \union {"/"}
           /\ Len(V.lists[y]) >= 2 => V.lists[y][2].ino = x
<1>1. Len(V.lists[x]) \in Nat
  BY ListFacts, TidyParts
<1>2. Len(V.lists[x]) >= 3
  BY <1>1
<1>3. x # FATHER
  <2>1. Len(V.lists[FATHER]) = 1
    BY TidyParts
  <2>. QED
    BY <1>2, <2>1
<1>4. /\ V.lists[x][i].ino = y /\ V.lists[x][i].name = name /\ V.lists[x][i].type = "dir"
  BY DEF Entry
<1>5. /\ Child(V, r, x, V.lists[x][i]) /\ V.lists[x][i].ino \in V.bits \ {FATHER, ROOT, x}
      /\ r[x] < r[V.lists[x][i].ino] /\ V.lists[x][i].name \notin Dots \union {"/"}
  BY <1>3, KidFacts
<1>. QED
  BY <1>2, <1>3, <1>4, <1>5 DEF Child

LEMMA WalkFacts ==
    ASSUME NEW V, NEW r, Tidy(V, r), NEW p, NEW w, Walk(V, p, w)
    PROVE  /\ Len(p) \in Nat
           /\ \A k \in 0..Len(p) : w[k] \in V.bits \ {FATHER} /\ DirIn(V, w[k])
           /\ \A k \in 1..Len(p) :
                 /\ w[k] # ROOT /\ r[w[k - 1]] < r[w[k]] /\ Len(V.lists[w[k - 1]]) >= 3
                 /\ Len(V.lists[w[k]]) >= 2 => V.lists[w[k]][2].ino = w[k - 1]
                 /\ p[k] \notin Dots \union {"/"}
<1>1. Len(p) \in Nat
  BY SeqFacts DEF Walk
<1>2. ASSUME NEW k \in 1..Len(p)
      PROVE  /\ w[k] \in V.bits \ {FATHER, ROOT} /\ r[w[k - 1]] < r[w[k]] /\ Len(V.lists[w[k - 1]]) >= 3
             /\ Len(V.lists[w[k]]) >= 2 => V.lists[w[k]][2].ino = w[k - 1]
             /\ p[k] \notin Dots \union {"/"}
  <2>1. k - 1 \in 0..Len(p)
    BY <1>1
  <2>2. PICK i \in 3..Len(V.lists[w[k - 1]]) : V.lists[w[k - 1]][i] = Entry(p[k], w[k], "dir")
    BY DEF Walk
  <2>3. DirIn(V, w[k - 1]) /\ w[k - 1] \in V.bits
    BY <2>1 DEF Walk, DirIn
  <2>. QED
    BY <2>2, <2>3, StepDown
<1>3. ASSUME NEW k \in 0..Len(p) PROVE w[k] \in V.bits \ {FATHER} /\ DirIn(V, w[k])
  <2>1. DirIn(V, w[k]) /\ w[k] \in V.bits /\ w[0] = ROOT
    BY DEF Walk, DirIn
  <2>2. k = 0 \/ k \in 1..Len(p)
    BY <1>1
  <2>. QED
    BY <1>2, <2>1, <2>2, FirstInodes
<1>. QED
  BY <1>1, <1>2, <1>3

\* The way down never comes back to where it was.
LEMMA WalkRises ==
    ASSUME NEW V, NEW r, Tidy(V, r), NEW p, NEW w, Walk(V, p, w), NEW j \in 0..Len(p), NEW k \in 0..Len(p), j < k
    PROVE  r[w[j]] < r[w[k]] /\ w[j] # w[k]
<1>. DEFINE Bad == {l \in 0..Len(p) : j < l /\ ~(r[w[j]] < r[w[l]])}
<1>1. /\ Len(p) \in Nat
      /\ \A l \in 0..Len(p) : r[w[l]] \in Nat
      /\ \A l \in 1..Len(p) : r[w[l - 1]] < r[w[l]]
  BY WalkFacts, ListFacts, TidyParts
<1>2. CASE Bad = {}
  BY <1>1, <1>2
<1>3. CASE Bad # {}
  <2>1. PICK l \in Bad : \A i \in Bad : l <= i
    <3>1. Bad \in SUBSET Nat
      OBVIOUS
    <3>. HIDE DEF Bad
    <3>. QED
      BY <1>3, <3>1, MinIsLeast
  <2>2. l \in 1..Len(p) /\ l - 1 \in 0..Len(p) /\ l - 1 \notin Bad
    BY <1>1, <2>1
  <2>3. CASE l - 1 = j
    BY <1>1, <2>1, <2>2, <2>3
  <2>4. CASE l - 1 # j
    <3>1. j < l - 1 /\ r[w[j]] < r[w[l - 1]]
      BY <2>1, <2>2, <2>4
    <3>. QED
      BY <1>1, <2>1, <2>2, <3>1
  <2>. QED
    BY <2>3, <2>4
<1>. QED
  BY <1>2, <1>3

LEMMA WithinFacts ==
    ASSUME NEW m, NEW r, NEW w, NEW V, Tidy(V, r), Within(m, V, w)
    PROVE  /\ Len(m.path) \in Nat /\ m.cwd = w[Len(m.path)]
           /\ m.cwd \in V.bits \ {FATHER} /\ m.cwd \in Ino /\ DirIn(V, m.cwd)
           /\ m.list = V.lists[m.cwd] /\ Len(m.list) >= 2 /\ IsSeq(m.list) /\ Len(m.list) \in Nat
           /\ Headed(m.list, m.cwd)
           /\ m.cwd = ROOT <=> Len(m.path) = 0
<1>1. Walk(V, m.path, w) /\ m.cwd = w[Len(m.path)] /\ m.list = V.lists[m.cwd] /\ Len(m.list) >= 2
  BY DEF Within
<1>2. /\ Len(m.path) \in Nat /\ m.cwd \in V.bits \ {FATHER} /\ DirIn(V, m.cwd)
      /\ Len(m.path) # 0 => m.cwd # ROOT
  BY <1>1, WalkFacts
<1>3. w[0] = ROOT
  BY <1>1 DEF Walk
<1>4. m.cwd \in Ino /\ IsSeq(m.list) /\ Len(m.list) \in Nat
  BY <1>1, <1>2, ListFacts, TidyParts
<1>5. Headed(m.list, m.cwd)
  BY <1>1, <1>2 DEF Tidy, HeadsTrue
<1>. QED
  BY <1>1, <1>2, <1>3, <1>4, <1>5

\* The way to where the machine is lasts as long as the lists on it only grow.
LEMMA WalkStays ==
    ASSUME NEW V, NEW p, NEW w, Walk(V, p, w), NEW W, Len(p) \in Nat,
           \A k \in 0..Len(p) : w[k] \in W.bits /\ W.types[w[k]] = V.types[w[k]],
           \A k \in 0..(Len(p) - 1) : Extends(W.lists[w[k]], V.lists[w[k]])
                                      /\ Len(W.lists[w[k]]) \in Nat /\ Len(V.lists[w[k]]) \in Nat
    PROVE  Walk(W, p, w)
<1>1. \A k \in 0..Len(p) : DirIn(W, w[k])
  BY DEF Walk, DirIn
<1>2. ASSUME NEW k \in 1..Len(p)
      PROVE  \E i \in 3..Len(W.lists[w[k - 1]]) : W.lists[w[k - 1]][i] = Entry(p[k], w[k], "dir")
  <2>1. k - 1 \in 0..(Len(p) - 1)
    OBVIOUS
  <2>2. PICK i \in 3..Len(V.lists[w[k - 1]]) : V.lists[w[k - 1]][i] = Entry(p[k], w[k], "dir")
    BY DEF Walk
  <2>. DEFINE s == W.lists[w[k - 1]]
              t == V.lists[w[k - 1]]
  <2>3. Extends(s, t) /\ Len(s) \in Nat /\ Len(t) \in Nat
    BY <2>1
  <2>. HIDE DEF s, t
  <2>4. i \in 3..Len(t) /\ t[i] = Entry(p[k], w[k], "dir")
    BY <2>2 DEF t
  <2>5. i \in 1..Len(t) /\ i \in 3..Len(s)
    BY <2>3, <2>4 DEF Extends
  <2>6. s[i] = Entry(p[k], w[k], "dir")
    BY <2>3, <2>4, <2>5 DEF Extends
  <2>. QED
    BY <2>5, <2>6 DEF s
<1>. QED
  BY <1>1, <1>2 DEF Walk

\* Only the list of the current directory changed.
LEMMA WithinStays ==
    ASSUME NEW m, NEW r, NEW w, NEW V, Tidy(V, r), Within(m, V, w), NEW W, NEW n,
           V.bits \subseteq W.bits, \A z \in V.bits : W.types[z] = V.types[z],
           \A z \in V.bits \ {m.cwd} : W.lists[z] = V.lists[z],
           n.cwd = m.cwd, n.path = m.path, n.list = W.lists[m.cwd], Len(n.list) >= 2
    PROVE  Within(n, W, w)
<1>1. Walk(V, m.path, w) /\ Len(m.path) \in Nat /\ m.cwd = w[Len(m.path)]
  BY WithinFacts DEF Within
<1>2. \A k \in 0..Len(m.path) : w[k] \in V.bits
  BY <1>1, WalkFacts
<1>3. ASSUME NEW k \in 0..(Len(m.path) - 1)
      PROVE  W.lists[w[k]] = V.lists[w[k]] /\ Len(V.lists[w[k]]) \in Nat
  <2>1. k \in 0..Len(m.path) /\ k < Len(m.path) /\ Len(m.path) \in 0..Len(m.path)
    BY <1>1
  <2>2. w[k] # m.cwd
    BY <1>1, <2>1, WalkRises
  <2>. QED
    BY <1>2, <2>1, <2>2, ListFacts, TidyParts
<1>4. Walk(W, m.path, w)
  <2>1. \A k \in 0..(Len(m.path) - 1) : Extends(W.lists[w[k]], V.lists[w[k]])
    BY <1>3 DEF Extends
  <2>2. \A k \in 0..Len(m.path) : w[k] \in W.bits /\ W.types[w[k]] = V.types[w[k]]
    BY <1>2
  <2>3. \A k \in 0..(Len(m.path) - 1) : Len(W.lists[w[k]]) \in Nat /\ Len(V.lists[w[k]]) \in Nat
    BY <1>3
  <2>. QED
    BY <1>1, <2>1, <2>2, <2>3, WalkStays
<1>. QED
  BY <1>1, <1>4 DEF Within

\* The machine is in a directory of a tidy tree.
Neat(b, m, r) == Sound(b, m) /\ m.disk.magic /\ Tidy(View(m.disk), r)
At(b, m, r, w) == Neat(b, m, r) /\ Within(m, View(m.disk), w)

LEMMA AtFacts ==
    ASSUME NEW b, NEW m, NEW r, NEW w, At(b, m, r, w)
    PROVE  /\ Sound(b, m) /\ Shape(m.disk) /\ IsMachine(m) /\ IsSeq(m.log) /\ m.disk.magic
           /\ Tidy(View(m.disk), r) /\ Within(m, View(m.disk), w)
           /\ m.cwd \in View(m.disk).bits \ {FATHER} /\ m.cwd \in Ino /\ DirIn(View(m.disk), m.cwd)
           /\ m.list = View(m.disk).lists[m.cwd] /\ Len(m.list) >= 2 /\ Len(m.list) \in Nat
           /\ IsSeq(m.list) /\ Headed(m.list, m.cwd)
           /\ m.list = ReadDirectoryList(m.disk, m.cwd)
BY SoundHere, WithinFacts, ViewFacts DEF At, Neat

\* Entry i of the list is the one of that name.
Finds(m, name, i) == i \in 1..Len(m.list) /\ m.list[i].name = name

LEMMA LookUp ==
    ASSUME NEW b, NEW m, NEW r, NEW w, At(b, m, r, w), NEW name
    PROVE  /\ name = "/" => GetDirEntry(m, name) = Entry("/", ROOT, "dir")
           /\ name # "/" => \/ \E i : Finds(m, name, i) /\ GetDirEntry(m, name) = m.list[i]
                            \/ (\A i : ~Finds(m, name, i)) /\ GetDirEntry(m, name) = NoEntry
<1>. DEFINE here == ReadDirectoryList(m.disk, m.cwd)
            found == {i \in DOMAIN here : here[i].name = name}
<1>1. here = m.list /\ IsSeq(m.list) /\ Shape(m.disk)
  BY AtFacts
<1>2. DOMAIN m.list = 1..Len(m.list)
  BY <1>1, SeqFacts
<1>3. CASE name = "/"
  <2>1. GetDirEntry(m, name) = GetInodeData(m.disk, FATHER)[1]
    BY <1>3 DEF GetDirEntry
  <2>2. Tidy(View(m.disk), r)
    BY AtFacts
  <2>3. View(m.disk).lists[FATHER] = GetInodeData(m.disk, FATHER)
    BY <1>1, <2>2, ViewFacts, FirstInodes, TidyParts
  <2>. QED
    BY <1>3, <2>1, <2>2, <2>3, TidyParts
<1>4. CASE name # "/" /\ found = {}
  <2>1. GetDirEntry(m, name) = NoEntry
    BY <1>4 DEF GetDirEntry
  <2>2. \A i : ~Finds(m, name, i)
    BY <1>1, <1>2, <1>4 DEF Finds
  <2>. QED
    BY <1>4, <2>1, <2>2
<1>5. CASE name # "/" /\ found # {}
  <2>1. GetDirEntry(m, name) = here[Min(found)]
    BY <1>5 DEF GetDirEntry
  <2>2. found \in SUBSET Nat
    BY <1>1, <1>2
  <2>3. Min(found) \in found
    <3>. HIDE DEF found
    <3>. QED
      BY <1>5, <2>2, MinIsLeast
  <2>4. Finds(m, name, Min(found))
    <3>1. \A i \in found : i \in 1..Len(m.list) /\ m.list[i].name = name
      BY <1>1, <1>2
    <3>. HIDE DEF found
    <3>. QED
      BY <2>3, <3>1 DEF Finds
  <2>. HIDE DEF found
  <2>. QED
    BY <1>1, <1>5, <2>1, <2>4
<1>. QED
  BY <1>3, <1>4, <1>5

\* ... and there is no other.
LEMMA FindsOne ==
    ASSUME NEW b, NEW m, NEW r, NEW w, At(b, m, r, w), NEW name, NEW i, Finds(m, name, i), name # "/"
    PROVE  GetDirEntry(m, name) = m.list[i] /\ \A j : Finds(m, name, j) => j = i
<1>1. \A j : Finds(m, name, j) => j = i
  BY AtFacts DEF Finds, Headed
<1>. QED
  BY <1>1, LookUp

---------------------------------------------------------------------------
(* What the operators do to the view.                                      *)

LEMMA SameRead ==
    ASSUME NEW d, Shape(d), NEW e, Shape(e), NEW x \in Ino, d.inode[x] = e.inode[x], d.data = e.data
    PROVE  ReadDirectoryList(d, x) = ReadDirectoryList(e, x)
<1>1. GetInode(d, x) = d.inode[x] /\ GetInode(e, x) = d.inode[x]
  BY GetInodeIsNode
<1>2. GetInodeData(d, x) = GetInodeData(e, x)
  BY <1>1 DEF GetInodeData
<1>. QED
  BY <1>1, <1>2 DEF ReadDirectoryList

\* From m to n only a bitmap was written.
MarksInodes(n, m) ==
    /\ n.disk.magic = m.disk.magic /\ n.disk.blockBits = m.disk.blockBits
    /\ n.disk.inode = m.disk.inode /\ n.disk.data = m.disk.data
    /\ Stands(n, m) /\ IsMachine(n) /\ IsSeq(n.log)
    /\ ToSet(n.log) = ToSet(m.log) \union {n.disk}

LEMMA MarkInodesFacts ==
    ASSUME NEW m, Shape(m.disk), IsMachine(m), IsSeq(m.log), NEW bits, NEW n, n = SetInodeBitmap(m, bits)
    PROVE  MarksInodes(n, m) /\ n.disk.inodeBits = bits \ {NumInodes}
<1>. DEFINE d == [m.disk EXCEPT !.inodeBits = bits \ {NumInodes}]
<1>1. /\ d.magic = m.disk.magic /\ d.blockBits = m.disk.blockBits
      /\ d.inode = m.disk.inode /\ d.data = m.disk.data /\ d.inodeBits = bits \ {NumInodes}
  BY DEF Shape
<1>. HIDE DEF d
<1>2. n = DiskWrite(m, d)
  BY DEF SetInodeBitmap, d
<1>. QED
  BY <1>1, <1>2, DiskWriteFacts DEF Stands, MarksInodes

\* The view of a disk with another bitmap of inodes.
LEMMA BitsLook ==
    ASSUME NEW d, Shape(d), NEW e, Shape(e), d.inode = e.inode, d.data = e.data
    PROVE  \A z \in Ino : View(d).types[z] = View(e).types[z] /\ View(d).lists[z] = View(e).lists[z]
<1>1. ASSUME NEW z \in Ino PROVE View(d).types[z] = View(e).types[z] /\ View(d).lists[z] = View(e).lists[z]
  <2>1. ReadDirectoryList(d, z) = ReadDirectoryList(e, z)
    BY SameRead
  <2>. QED
    BY <2>1, ViewFacts
<1>. QED
  BY <1>1

LEMMA NewInodeLooks ==
    ASSUME NEW d, Shape(d), NEW e, Shape(e), NEW x \in Ino, NEW type,
           d.inode = [e.inode EXCEPT ![x] = NewInode(type)], d.data = e.data
    PROVE  /\ View(d).types[x] = type /\ View(d).lists[x] = <<>>
           /\ \A z \in Ino \ {x} : View(d).types[z] = View(e).types[z] /\ View(d).lists[z] = View(e).lists[z]
<1>1. d.inode[x] = NewInode(type) /\ \A z \in Ino \ {x} : d.inode[z] = e.inode[z]
  BY DEF Shape
<1>2. d.inode[x].type = type /\ d.inode[x].size = 0
  BY <1>1 DEF NewInode
<1>3. GetInodeData(d, x) = <<>>
  <2>1. IsSeq(GetInodeData(d, x)) /\ Len(GetInodeData(d, x)) = 0
    BY <1>2, DataLen
  <2>2. IsSeq(<<>>) /\ Len(<<>>) = 0
    BY EmptyIsSeq
  <2>. QED
    BY <2>1, <2>2, SameSeq
<1>4. View(d).types[x] = type /\ View(d).lists[x] = <<>>
  BY <1>2, <1>3, ViewFacts
<1>5. ASSUME NEW z \in Ino \ {x}
      PROVE  View(d).types[z] = View(e).types[z] /\ View(d).lists[z] = View(e).lists[z]
  <2>1. z \in Ino /\ d.inode[z] = e.inode[z]
    BY <1>1
  <2>2. ReadDirectoryList(d, z) = ReadDirectoryList(e, z)
    BY <2>1, SameRead
  <2>3. /\ View(d).types[z] = d.inode[z].type /\ View(e).types[z] = e.inode[z].type
        /\ View(d).lists[z] = ReadDirectoryList(d, z) /\ View(e).lists[z] = ReadDirectoryList(e, z)
    BY <2>1, ViewFacts
  <2>. QED
    BY <2>1, <2>2, <2>3
<1>. QED
  BY <1>4, <1>5

LEMMA FreeInodeIsFree ==
    ASSUME NEW bits, Ino \ bits # {}
    PROVE  GetFreeInodeIdx(bits) \in Ino \ bits /\ \A y \in Ino \ bits : GetFreeInodeIdx(bits) <= y
<1>. DEFINE free == (1..NumInodes) \ bits
<1>1. free # {} /\ free \in SUBSET Nat /\ Ino \ bits \subseteq free
  BY Constants DEF Ino
<1>2. GetFreeInodeIdx(bits) = Min(free)
  BY <1>1 DEF GetFreeInodeIdx
<1>3. Min(free) \in free /\ \A y \in free : Min(free) <= y
  <2>. HIDE DEF free
  <2>. QED
    BY <1>1, MinIsLeast
<1>4. PICK y \in Ino : y \notin bits
  OBVIOUS
<1>5. Min(free) \in (1..NumInodes) \ bits /\ Min(free) <= y
  BY <1>1, <1>3, <1>4
<1>. HIDE DEF free
<1>6. Min(free) \in Ino \ bits
  BY <1>4, <1>5, Constants DEF Ino
<1>. QED
  BY <1>1, <1>2, <1>3, <1>6

\* What the heap holds behind the buffer does not change which number is free.
LEMMA SameFree ==
    ASSUME NEW d, Shape(d), Ino \ d.inodeBits # {}
    PROVE  GetFreeInodeIdx(GetInodeBitmap(d)) = GetFreeInodeIdx(d.inodeBits)
<1>. DEFINE x == GetFreeInodeIdx(GetInodeBitmap(d))
            y == GetFreeInodeIdx(d.inodeBits)
<1>1. Ino \ GetInodeBitmap(d) = Ino \ d.inodeBits
  BY NotStored DEF Ino
<1>2. x \in Ino \ d.inodeBits /\ \A z \in Ino \ d.inodeBits : x <= z
  BY <1>1, FreeInodeIsFree
<1>3. y \in Ino \ d.inodeBits /\ \A z \in Ino \ d.inodeBits : y <= z
  BY FreeInodeIsFree
<1>. HIDE DEF x, y
<1>4. x <= y /\ y <= x /\ x \in Nat /\ y \in Nat
  BY <1>2, <1>3, FirstInodes
<1>. QED
  BY <1>4 DEF x, y

\* getFreeInodeIdx, the new inode and the bit that takes its number.
Creates(n, m, x, name, type) ==
    /\ n.disk.magic = m.disk.magic /\ n.disk.blockBits = m.disk.blockBits /\ Stands(n, m)
    /\ CreateDirEntry(m, name, type).entry = Entry(name, x, type)
    /\ \A y \in Ino \ View(m.disk).bits : x <= y
    /\ Takes(View(m.disk), View(n.disk), x, type)
    /\ \A d \in ToSet(n.log) :
          \/ d \in ToSet(m.log) \/ d = n.disk
          \/ d.magic = m.disk.magic /\ Readies(View(m.disk), View(d), x)

LEMMA CreateEffect ==
    ASSUME NEW b, NEW m, Sound(b, m), NEW name, NEW type \in Kinds,
           View(m.disk).bits # Ino, NEW x, x = GetFreeInodeIdx(View(m.disk).bits),
           NEW n, n = CreateDirEntry(m, name, type).m
    PROVE  Sound(b, n) /\ Creates(n, m, x, name, type)
<1>. DEFINE V == View(m.disk)
            k == SetInode(m, x, NewInode(type))
<1>1. Shape(m.disk) /\ IsMachine(m) /\ IsSeq(m.log) /\ V.bits = m.disk.inodeBits /\ V.bits \subseteq Ino
  BY SoundHere, ViewFacts, FirstInodes
<1>2. x \in Ino \ V.bits /\ \A y \in Ino \ V.bits : x <= y
  BY <1>1, FreeInodeIsFree
<1>3. /\ n = SetInodeBitmap(k, GetInodeBitmap(m.disk) \union {x})
      /\ CreateDirEntry(m, name, type).entry = Entry(name, x, type)
  <2>1. x = GetFreeInodeIdx(GetInodeBitmap(m.disk))
    BY <1>1, <1>2, SameFree
  <2>. QED
    BY <2>1 DEF CreateDirEntry
<1>4. Sound(b, n) /\ Sound(b, k)
  BY CreateDirEntrySound, CreateInodeSound
<1>5. SetsInode(k, m, x, NewInode(type))
  BY <1>1, <1>2, SetInodeFacts
<1>. HIDE DEF k
<1>6. Shape(k.disk) /\ Shape(n.disk)
  BY <1>4, SoundHere
<1>7. MarksInodes(n, k) /\ n.disk.inodeBits = m.disk.inodeBits \union {x}
  <2>1. IsMachine(k) /\ IsSeq(k.log)
    BY <1>5 DEF SetsInode
  <2>2. (GetInodeBitmap(m.disk) \union {x}) \ {NumInodes} = m.disk.inodeBits \union {x}
    BY <1>1, <1>2, NotStored
  <2>. QED
    BY <1>3, <1>6, <2>1, <2>2, MarkInodesFacts
<1>8. /\ View(k.disk).types[x] = type /\ View(k.disk).lists[x] = <<>>
      /\ \A z \in Ino \ {x} : View(k.disk).types[z] = V.types[z] /\ View(k.disk).lists[z] = V.lists[z]
  <2>1. k.disk.inode = [m.disk.inode EXCEPT ![x] = NewInode(type)] /\ k.disk.data = m.disk.data
    BY <1>5 DEF SetsInode
  <2>. QED
    BY <1>1, <1>2, <1>6, <2>1, NewInodeLooks
<1>9. \A z \in Ino : View(n.disk).types[z] = View(k.disk).types[z] /\ View(n.disk).lists[z] = View(k.disk).lists[z]
  <2>1. n.disk.inode = k.disk.inode /\ n.disk.data = k.disk.data
    BY <1>7 DEF MarksInodes
  <2>. QED
    BY <1>6, <2>1, BitsLook
<1>10. View(n.disk).bits = V.bits \union {x} /\ View(k.disk).bits = V.bits
  BY <1>1, <1>5, <1>6, <1>7, ViewFacts, FirstInodes DEF SetsInode
<1>. HIDE DEF V
<1>11. Takes(V, View(n.disk), x, type)
  BY <1>2, <1>8, <1>9, <1>10 DEF Takes
<1>12. ASSUME NEW d \in ToSet(n.log), d \notin ToSet(m.log), d # n.disk
       PROVE  d.magic = m.disk.magic /\ Readies(V, View(d), x)
  <2>1. d = k.disk /\ d.magic = m.disk.magic
    BY <1>5, <1>7, <1>12 DEF SetsInode, MarksInodes
  <2>2. Readies(V, View(k.disk), x)
    BY <1>2, <1>8, <1>10 DEF Readies
  <2>. QED
    BY <2>1, <2>2
<1>13. n.disk.magic = m.disk.magic /\ n.disk.blockBits = m.disk.blockBits /\ Stands(n, m)
  BY <1>5, <1>7 DEF SetsInode, MarksInodes, Stands
<1>14. Creates(n, m, x, name, type)
  BY <1>2, <1>3, <1>11, <1>12, <1>13 DEF Creates, V
<1>. QED
  BY <1>4, <1>14

\* ... for an entry of the directory where the machine is.
CreatesBelow(m, r, name, type, x, n, q) ==
    /\ type \in {"dir", "file"} /\ View(m.disk).bits # Ino /\ x = GetFreeInodeIdx(View(m.disk).bits)
    /\ n = CreateDirEntry(m, name, type).m /\ Deepens(q, r, x, m.cwd)

LEMMA CreateHere ==
    ASSUME NEW b, NEW m, NEW r, NEW w, NEW name, NEW type, NEW x, NEW n, NEW q,
           At(b, m, r, w), CreatesBelow(m, r, name, type, x, n, q)
    PROVE  /\ At(b, n, q, w) /\ Creates(n, m, x, name, type)
           /\ x \in View(n.disk).bits \ View(m.disk).bits
           /\ Child(View(n.disk), q, m.cwd, Entry(name, x, type)) /\ Unnamed(View(n.disk), x)
           /\ Kept(m) => Kept(n)
<1>0. /\ type \in {"dir", "file"} /\ View(m.disk).bits # Ino /\ x = GetFreeInodeIdx(View(m.disk).bits)
      /\ n = CreateDirEntry(m, name, type).m /\ Deepens(q, r, x, m.cwd)
  BY DEF CreatesBelow
<1>. DEFINE V == View(m.disk)
            W == View(n.disk)
<1>1. /\ Sound(b, m) /\ m.disk.magic /\ Tidy(V, r) /\ Within(m, V, w)
      /\ m.cwd \in V.bits /\ m.cwd \in Ino /\ m.list = V.lists[m.cwd] /\ Len(m.list) >= 2
  BY AtFacts
<1>2. Sound(b, n) /\ Creates(n, m, x, name, type)
  <2>1. type \in Kinds
    BY <1>0 DEF Kinds
  <2>. QED
    BY <1>0, <1>1, <2>1, CreateEffect
<1>3. /\ Takes(V, W, x, type) /\ n.disk.magic /\ Stands(n, m)
      /\ \A d \in ToSet(n.log) :
            \/ d \in ToSet(m.log) \/ d = n.disk
            \/ d.magic /\ Readies(V, View(d), x)
  BY <1>1, <1>2 DEF Creates
<1>. HIDE DEF V, W
<1>4. x \in W.bits /\ x \in Ino \ V.bits
  BY <1>3 DEF Takes
<1>5. Tidy(W, q) /\ Unnamed(W, x) /\ q[m.cwd] < q[x]
  BY <1>0, <1>1, <1>3, <1>4, TakeTidy
<1>6. Child(W, q, m.cwd, Entry(name, x, type))
  <2>1. W.types[x] = type /\ Len(W.lists[x]) = 0 /\ x # FATHER
    BY <1>1, <1>3, <1>4, EmptyIsSeq, TidyParts DEF Takes
  <2>. QED
    BY <1>0, <1>4, <1>5, <2>1 DEF Child, Entry
<1>7. Within(n, W, w)
  <2>1. /\ V.bits \subseteq W.bits /\ \A z \in V.bits : W.types[z] = V.types[z] /\ W.lists[z] = V.lists[z]
    BY <1>1, <1>3, TidyParts DEF Takes
  <2>2. n.cwd = m.cwd /\ n.path = m.path /\ n.list = W.lists[m.cwd] /\ Len(n.list) >= 2
    BY <1>1, <1>3, <2>1 DEF Stands
  <2>. QED
    BY <1>1, <2>1, <2>2, WithinStays
<1>8. ASSUME Kept(m) PROVE Kept(n)
  <2>1. ASSUME NEW d \in ToSet(n.log) PROVE d.magic /\ \E s : Tidy(View(d), s)
    <3>1. CASE d \in ToSet(m.log)
      BY <1>8, <3>1 DEF Kept
    <3>2. CASE d = n.disk
      BY <1>3, <1>5, <3>2 DEF W
    <3>3. CASE d.magic /\ Readies(V, View(d), x)
      <4>1. Tidy(View(d), q)
        BY <1>0, <1>1, <3>3, TakeTidy
      <4>. QED
        BY <3>3, <4>1
    <3>. QED
      BY <1>3, <2>1, <3>1, <3>2, <3>3
  <2>. QED
    BY <2>1 DEF Kept
<1>9. At(b, n, q, w)
  BY <1>2, <1>3, <1>5, <1>7 DEF At, Neat, W
<1>. QED
  BY <1>2, <1>4, <1>5, <1>6, <1>8, <1>9 DEF V, W

\* Directory x of a tidy view may have e behind its entries s.
Admits(V, r, x, s, e) ==
    /\ e.ino \in Ino /\ Len(s) < NumPtrs * BlockUnits /\ Headed(Append(s, e), x)
    /\ Len(s) >= 2 => Child(V, r, x, e) /\ Unnamed(V, e.ino)
    /\ Len(s) = 1 =>
          \A z \in V.bits : \A i \in 1..Len(V.lists[z]) : Kid(V, z, i) /\ V.lists[z][i].ino = x => z = e.ino

\* addDirEntryToPath of an entry whose name is not taken.
LEMMA AddEffect ==
    ASSUME NEW b, NEW m, NEW r, Neat(b, m, r),
           m.cwd \in View(m.disk).bits \ {FATHER}, DirIn(View(m.disk), m.cwd), m.list = View(m.disk).lists[m.cwd],
           NEW e, ~Taken(m.list, e.name), Admits(View(m.disk), r, m.cwd, m.list, e),
           NEW n, n = AddDirEntryToPath(m, e), ~Off(n.disk.blockBits)
    PROVE  /\ Neat(b, n, r)
           /\ n.cwd = m.cwd /\ n.path = m.path /\ n.list = Append(m.list, e)
           /\ Relisted(View(m.disk), View(n.disk), m.cwd, Append(m.list, e))
           /\ Kept(m) => Kept(n)
<1>. DEFINE V == View(m.disk)
            W == View(n.disk)
            s == Append(m.list, e)
            k == [m EXCEPT !.list = s]
<1>1. /\ Shape(m.disk) /\ IsMachine(m) /\ IsSeq(m.list) /\ m.cwd \in Ino /\ V.types[m.cwd] = "dir"
      /\ V.bits \subseteq Ino /\ Sound(b, m) /\ Tidy(V, r) /\ m.disk.magic
  BY SoundHere, TidyParts DEF DirIn, Neat
<1>2. IsSeq(s) /\ Len(s) = Len(m.list) + 1 /\ Len(m.list) \in Nat /\ \A i \in 1..Len(m.list) : s[i] = m.list[i]
  BY <1>1, AppendIsSeq, SeqFacts
<1>3. n = WriteInode(k, s, m.cwd)
  BY DEF AddDirEntryToPath
<1>. HIDE DEF s
<1>4. Sound(b, k)
  BY <1>1, <1>2, WithList
<1>5. k.disk = m.disk /\ k.cwd = m.cwd /\ k.list = s /\ k.path = m.path /\ k.log = m.log
  BY <1>1 DEF IsMachine
<1>. HIDE DEF k
<1>6. Len(s) <= NumPtrs * BlockUnits
  <2>1. NumPtrs * BlockUnits \in Nat /\ Len(m.list) < NumPtrs * BlockUnits
    BY Constants DEF Admits
  <2>. QED
    BY <1>2, <2>1
<1>7. Extends(s, V.lists[m.cwd])
  BY <1>2 DEF Extends
<1>8. /\ Sound(b, n) /\ Stands(n, k) /\ n.disk.magic = k.disk.magic
      /\ Relisted(View(k.disk), View(n.disk), m.cwd, s)
      /\ Extends(s, View(k.disk).lists[m.cwd]) =>
           \A d \in ToSet(n.log) : \/ d \in ToSet(k.log) \/ d = n.disk
                                   \/ d.magic = k.disk.magic /\ View(d) = View(k.disk)
  <2>1. View(k.disk).types[k.cwd] = "dir" /\ n = WriteInode(k, s, k.cwd) /\ k.cwd \in Ino
    BY <1>1, <1>3, <1>5
  <2>2. /\ Sound(b, n) /\ Stands(n, k) /\ n.disk.magic = k.disk.magic
        /\ Relisted(View(k.disk), View(n.disk), k.cwd, s)
        /\ Extends(s, View(k.disk).lists[k.cwd]) =>
             \A d \in ToSet(n.log) : \/ d \in ToSet(k.log) \/ d = n.disk
                                     \/ d.magic = k.disk.magic /\ View(d) = View(k.disk)
    <3>. HIDE DEF V
    <3>. QED
      BY <1>2, <1>4, <1>6, <2>1, WriteDirLooks, Z3
  <2>. QED
    BY <1>5, <2>2
<1>. HIDE DEF V, W
<1>9. Relisted(V, W, m.cwd, Append(V.lists[m.cwd], e))
  BY <1>5, <1>8 DEF s, V, W
<1>10. Tidy(W, r)
  <2>. DEFINE x == m.cwd
  <2>1. /\ Tidy(V, r) /\ x \in V.bits \ {FATHER} /\ DirIn(V, x) /\ Len(V.lists[x]) < NumPtrs * BlockUnits
        /\ e.ino \in Ino /\ Relisted(V, W, x, Append(V.lists[x], e)) /\ Headed(Append(V.lists[x], e), x)
    BY <1>1, <1>9 DEF V, Admits
  <2>2. /\ Len(V.lists[x]) >= 2 => Child(V, r, x, e) /\ Unnamed(V, e.ino)
        /\ Len(V.lists[x]) = 1 =>
              \A z \in V.bits : \A i \in 1..Len(V.lists[z]) : Kid(V, z, i) /\ V.lists[z][i].ino = x => z = e.ino
    BY DEF V, Admits
  <2>. HIDE DEF x
  <2>. QED
    BY <2>1, <2>2, GrowTidy
<1>11. ASSUME Kept(m) PROVE Kept(n)
  <2>1. ASSUME NEW d \in ToSet(n.log) PROVE d.magic /\ \E q : Tidy(View(d), q)
    <3>1. d \in ToSet(m.log) \/ d = n.disk \/ (d.magic = m.disk.magic /\ View(d) = V)
      BY <1>5, <1>7, <1>8, <2>1 DEF V
    <3>2. CASE d \in ToSet(m.log)
      BY <1>11, <3>2 DEF Kept
    <3>3. CASE d = n.disk
      BY <1>1, <1>5, <1>8, <1>10, <3>3 DEF W
    <3>4. CASE d.magic = m.disk.magic /\ View(d) = V
      BY <1>1, <3>4
    <3>. QED
      BY <3>1, <3>2, <3>3, <3>4
  <2>. QED
    BY <2>1 DEF Kept
<1>12. n.cwd = m.cwd /\ n.path = m.path /\ n.list = s /\ n.disk.magic
  BY <1>1, <1>5, <1>8 DEF Stands
<1>13. Relisted(V, W, m.cwd, s)
  BY <1>5, <1>8 DEF V, W
<1>. QED
  BY <1>8, <1>10, <1>11, <1>12, <1>13 DEF V, W, s, Neat

LEMMA AtLeastTwo ==
    ASSUME NEW n \in Nat, n >= 2
    PROVE  n # 0 /\ n # 1
OBVIOUS

\* ... in the directory where the machine is.
LEMMA AddHere ==
    ASSUME NEW b, NEW m, NEW r, NEW w, At(b, m, r, w), NEW e,
           Child(View(m.disk), r, m.cwd, e), Unnamed(View(m.disk), e.ino),
           e.name \notin Dots \union {"/"}, Len(m.list) < NumPtrs * BlockUnits,
           NEW n, n = AddDirEntryToPath(m, e), ~Off(n.disk.blockBits)
    PROVE  /\ At(b, n, r, w) /\ n.cwd = m.cwd /\ n.path = m.path
           /\ \/ Taken(m.list, e.name) /\ n = m
              \/ /\ ~Taken(m.list, e.name)
                 /\ n.list = Append(m.list, e) /\ Relisted(View(m.disk), View(n.disk), m.cwd, Append(m.list, e))
           /\ Kept(m) => Kept(n)
<1>1. CASE Taken(m.list, e.name)
  <2>1. n = m
    BY <1>1 DEF AddDirEntryToPath
  <2>. QED
    BY <1>1, <2>1
<1>2. CASE ~Taken(m.list, e.name)
  <2>1. /\ Neat(b, m, r) /\ Tidy(View(m.disk), r) /\ Within(m, View(m.disk), w)
        /\ m.cwd \in View(m.disk).bits \ {FATHER} /\ DirIn(View(m.disk), m.cwd) /\ m.list = View(m.disk).lists[m.cwd]
        /\ Len(m.list) >= 2 /\ Len(m.list) \in Nat /\ IsSeq(m.list) /\ Headed(m.list, m.cwd) /\ m.cwd \in Ino
    BY AtFacts DEF At
  <2>2. e.ino \in Ino
    BY <2>1, TidyParts DEF Child
  <2>3. Headed(Append(m.list, e), m.cwd)
    <3>1. \A k \in 1..Len(m.list) : m.list[k].name # e.name
      <4>1. m.list[1].name # e.name
        BY <2>1 DEF Headed, Entry, Dots
      <4>2. \A k \in 2..Len(m.list) : m.list[k].name # e.name
        BY <1>2 DEF Taken
      <4>. QED
        BY <2>1, <4>1, <4>2
    <3>2. Len(m.list) # 0 /\ Len(m.list) # 1
      BY <2>1, AtLeastTwo
    <3>. QED
      BY <2>1, <3>1, <3>2, MoreHeaded
  <2>4. Len(m.list) # 1
    BY <2>1, AtLeastTwo
  <2>5. /\ Neat(b, n, r)
        /\ n.cwd = m.cwd /\ n.path = m.path /\ n.list = Append(m.list, e)
        /\ Relisted(View(m.disk), View(n.disk), m.cwd, Append(m.list, e))
        /\ Kept(m) => Kept(n)
    <3>1. Len(m.list) >= 2 => Child(View(m.disk), r, m.cwd, e) /\ Unnamed(View(m.disk), e.ino)
      OBVIOUS
    <3>2. Len(m.list) = 1 =>
              \A z \in View(m.disk).bits : \A i \in 1..Len(View(m.disk).lists[z]) :
                 Kid(View(m.disk), z, i) /\ View(m.disk).lists[z][i].ino = m.cwd => z = e.ino
      BY <2>4
    <3>3. Admits(View(m.disk), r, m.cwd, m.list, e)
      BY <2>2, <2>3, <3>1, <3>2 DEF Admits
    <3>. QED
      BY <1>2, <2>1, <3>3, AddEffect
  <2>6. Within(n, View(n.disk), w)
    <3>. DEFINE V == View(m.disk)
                W == View(n.disk)
    <3>1. W.bits = V.bits /\ \A z \in V.bits : W.types[z] = V.types[z]
      BY <2>1, <2>5, TidyParts DEF Relisted
    <3>2. \A z \in V.bits \ {m.cwd} : W.lists[z] = V.lists[z]
      BY <2>1, <2>5, TidyParts DEF Relisted
    <3>3. n.list = W.lists[m.cwd] /\ Len(n.list) >= 2
      <4>1. Len(n.list) = Len(m.list) + 1
        BY <2>1, <2>5, AppendIsSeq
      <4>. QED
        BY <2>1, <2>5, <4>1 DEF Relisted
    <3>4. Tidy(V, r) /\ Within(m, V, w) /\ n.cwd = m.cwd /\ n.path = m.path
      BY <2>1, <2>5
    <3>. HIDE DEF V, W
    <3>5. Within(n, W, w)
      BY <3>1, <3>2, <3>3, <3>4, WithinStays
    <3>. QED
      BY <3>5 DEF W
  <2>. QED
    BY <1>2, <2>5, <2>6 DEF At
<1>. QED
  BY <1>1, <1>2

\* deleteInode frees the inode; its list is still there to be read.
Frees(n, m, x) ==
    /\ n.disk.magic = m.disk.magic /\ Stands(n, m)
    /\ View(n.disk).bits = View(m.disk).bits \ {x}
    /\ \A z \in Ino : /\ View(n.disk).types[z] = View(m.disk).types[z]
                      /\ View(n.disk).lists[z] = View(m.disk).lists[z]

LEMMA DeleteEffect ==
    ASSUME NEW b, NEW m, Sound(b, m), NEW x, NEW n, n = DeleteInode(m, x)
    PROVE  Sound(b, n) /\ Frees(n, m, x)
<1>. DEFINE cleared == {RevBlockOffset(p) : p \in ToSet(GetInode(m.disk, x).ptrs) \ {0}}
            k == SetBlockBitmap(m, m.disk.blockBits \ cleared)
<1>1. n = SetInodeBitmap(k, GetInodeBitmap(m.disk) \ {x})
  BY DEF DeleteInode
<1>. HIDE DEF cleared
<1>2. Shape(m.disk) /\ IsMachine(m) /\ IsSeq(m.log)
  BY SoundHere
<1>3. Marks(k, m) /\ k.disk.blockBits = m.disk.blockBits \ cleared
  BY <1>2, MarkBlockFacts
<1>. HIDE DEF k
<1>4. IsMachine(k) /\ IsSeq(k.log) /\ k.disk.inode = m.disk.inode /\ k.disk.data = m.disk.data
      /\ k.disk.magic = m.disk.magic /\ Stands(k, m)
  BY <1>3 DEF Marks
<1>5. Shape(k.disk)
  <2>1. Shape([m.disk EXCEPT !.blockBits = m.disk.blockBits \ cleared])
    BY <1>2 DEF Shape
  <2>2. k.disk = [m.disk EXCEPT !.blockBits = m.disk.blockBits \ cleared]
    BY <1>2, DiskWriteFacts DEF k, SetBlockBitmap
  <2>. QED
    BY <2>1, <2>2
<1>6. MarksInodes(n, k) /\ n.disk.inodeBits = m.disk.inodeBits \ {x}
  <2>1. (GetInodeBitmap(m.disk) \ {x}) \ {NumInodes} = m.disk.inodeBits \ {x}
    BY <1>2, NotStored
  <2>. QED
    BY <1>1, <1>4, <1>5, <2>1, MarkInodesFacts
<1>7. Sound(b, n)
  BY DeleteInodeSound
<1>8. Shape(n.disk)
  BY <1>7, SoundHere
<1>9. \A z \in Ino : View(n.disk).types[z] = View(m.disk).types[z] /\ View(n.disk).lists[z] = View(m.disk).lists[z]
  <2>1. n.disk.inode = m.disk.inode /\ n.disk.data = m.disk.data
    BY <1>4, <1>6 DEF MarksInodes
  <2>. QED
    BY <1>2, <1>8, <2>1, BitsLook
<1>10. View(n.disk).bits = View(m.disk).bits \ {x}
  BY <1>2, <1>6, <1>8, ViewFacts, FirstInodes
<1>11. n.disk.magic = m.disk.magic /\ Stands(n, m)
  BY <1>4, <1>6 DEF MarksInodes, Stands
<1>. QED
  BY <1>7, <1>9, <1>10, <1>11 DEF Frees

\* removeDirEntryFromPath of entry i of the list, whose inode m may have freed.
Opens(m, k, i) ==
    /\ k.disk.magic = m.disk.magic /\ Stands(k, m)
    /\ \A z \in Ino : /\ View(k.disk).types[z] = View(m.disk).types[z]
                      /\ View(k.disk).lists[z] = View(m.disk).lists[z]
    /\ View(k.disk).bits = View(m.disk).bits \/ View(k.disk).bits = View(m.disk).bits \ {m.list[i].ino}

LEMMA RemoveHere ==
    ASSUME NEW b, NEW m, NEW r, NEW w, At(b, m, r, w), NEW name, NEW i, Finds(m, name, i), i >= 3,
           NEW k, Sound(b, k), Opens(m, k, i),
           NEW n, n = RemoveDirEntryFromPath(k, name), ~Off(n.disk.blockBits)
    PROVE  /\ At(b, n, r, w) /\ n.cwd = m.cwd /\ n.path = m.path /\ n.list = RemoveAt(m.list, i)
           /\ Loses(View(m.disk), View(n.disk), m.cwd, i)
           /\ View(n.disk).bits = View(k.disk).bits
<1>. DEFINE V == View(m.disk)
            U == View(k.disk)
            W == View(n.disk)
            s == RemoveAt(m.list, i)
            found == {j \in DOMAIN k.list : k.list[j].name = name}
<1>1. /\ Neat(b, m, r) /\ Tidy(V, r) /\ Within(m, V, w) /\ m.disk.magic
      /\ m.cwd \in V.bits \ {FATHER} /\ m.cwd \in Ino /\ DirIn(V, m.cwd) /\ m.list = V.lists[m.cwd]
      /\ Len(m.list) >= 2 /\ Len(m.list) \in Nat /\ IsSeq(m.list) /\ Headed(m.list, m.cwd)
  BY AtFacts DEF At
<1>2. k.list = m.list /\ k.cwd = m.cwd /\ k.path = m.path /\ k.disk.magic = m.disk.magic
  BY DEF Opens, Stands
<1>3. i \in 1..Len(m.list) /\ i \in 3..Len(m.list) /\ m.list[i].name = name
  BY <1>1 DEF Finds
<1>4. found = {i}
  <2>1. DOMAIN m.list = 1..Len(m.list)
    BY <1>1, SeqFacts
  <2>2. \A j \in 1..Len(m.list) : m.list[j].name = name <=> j = i
    BY <1>1, <1>3 DEF Headed
  <2>. QED
    BY <1>2, <1>3, <2>1, <2>2
<1>5. Min(found) = i
  <2>1. Min({i}) \in {i}
    BY <1>3, MinIsLeast
  <2>. QED
    BY <1>4, <2>1
<1>6. m.list # <<>>
  BY <1>3, EmptyIsSeq
<1>7. n = WriteInode([k EXCEPT !.list = s], s, k.cwd)
  BY <1>2, <1>4, <1>5, <1>6 DEF RemoveDirEntryFromPath
<1>. HIDE DEF found
<1>8. /\ IsSeq(s) /\ Len(s) = Len(m.list) - 1
  BY <1>1, <1>3, RemoveFacts
<1>. HIDE DEF s
<1>. DEFINE h == [k EXCEPT !.list = s]
<1>9. Sound(b, h) /\ h.disk = k.disk /\ h.cwd = k.cwd /\ h.list = s /\ h.path = k.path
  <2>1. IsMachine(k)
    BY SoundHere
  <2>. QED
    BY <1>8, <2>1, WithList DEF IsMachine
<1>. HIDE DEF h
<1>10. U.types[m.cwd] = "dir"
  BY <1>1 DEF Opens, DirIn
<1>11. Len(s) <= NumPtrs * BlockUnits
  <2>1. Len(m.list) <= NumPtrs * BlockUnits /\ NumPtrs * BlockUnits \in Nat
    BY <1>1, ListFacts, Constants
  <2>. QED
    BY <1>1, <1>8, <2>1
<1>12. Sound(b, n) /\ Stands(n, h) /\ n.disk.magic = h.disk.magic /\ Relisted(View(h.disk), View(n.disk), h.cwd, s)
  <2>1. n = WriteInode(h, s, h.cwd) /\ View(h.disk).types[h.cwd] = "dir" /\ h.cwd \in Ino
    BY <1>1, <1>2, <1>7, <1>9, <1>10 DEF h
  <2>. HIDE DEF V, U, W
  <2>. QED
    BY <1>8, <1>9, <1>11, <2>1, WriteDirLooks, Z3
<1>13. Relisted(U, W, m.cwd, s)
  BY <1>2, <1>9, <1>12
<1>. HIDE DEF V, U, W
<1>14. Loses(V, W, m.cwd, i)
  <2>1. /\ \A z \in Ino : U.types[z] = V.types[z] /\ U.lists[z] = V.lists[z]
        /\ U.bits = V.bits \/ U.bits = V.bits \ {m.list[i].ino}
    BY DEF Opens, V, U
  <2>. QED
    BY <1>1, <1>13, <2>1 DEF Loses, Relisted, s
<1>15. Tidy(W, r)
  BY <1>1, <1>3, <1>14, CutTidy
<1>16. W.bits = U.bits
  BY <1>13 DEF Relisted
<1>17. n.cwd = m.cwd /\ n.path = m.path /\ n.list = s /\ n.disk.magic
  BY <1>1, <1>2, <1>9, <1>12 DEF Stands
<1>18. Within(n, W, w)
  <2>1. Walk(V, m.path, w) /\ Len(m.path) \in Nat /\ m.cwd = w[Len(m.path)]
    BY <1>1, WithinFacts DEF Within
  <2>2. \A z \in V.bits : z # m.list[i].ino => z \in W.bits
    BY <1>14, <1>1 DEF Loses
  <2>3. r[m.cwd] < r[m.list[i].ino] /\ r[m.cwd] \in Nat
    BY <1>1, <1>3, KidFacts, ListFacts
  <2>4. ASSUME NEW j \in 0..Len(m.path)
        PROVE  w[j] \in W.bits /\ W.types[w[j]] = V.types[w[j]] /\ w[j] \in Ino
    <3>1. w[j] \in V.bits /\ w[j] \in Ino
      BY <1>1, <2>1, WalkFacts, TidyParts
    <3>2. w[j] # m.list[i].ino
      <4>1. CASE j = Len(m.path)
        BY <2>1, <2>3, <4>1
      <4>2. CASE j # Len(m.path)
        <5>1. Len(m.path) \in 0..Len(m.path) /\ j < Len(m.path)
          BY <2>1, <4>2
        <5>2. r[w[j]] < r[m.cwd]
          BY <1>1, <2>1, <5>1, WalkRises
        <5>3. r[w[j]] \in Nat
          BY <1>1, <3>1, ListFacts
        <5>. QED
          BY <2>3, <5>2, <5>3
      <4>. QED
        BY <4>1, <4>2
    <3>. QED
      BY <1>14, <2>2, <3>1, <3>2 DEF Loses
  <2>5. ASSUME NEW j \in 0..(Len(m.path) - 1)
        PROVE  Extends(W.lists[w[j]], V.lists[w[j]]) /\ Len(W.lists[w[j]]) \in Nat /\ Len(V.lists[w[j]]) \in Nat
    <3>1. j \in 0..Len(m.path) /\ j < Len(m.path) /\ Len(m.path) \in 0..Len(m.path)
      BY <2>1
    <3>2. w[j] # m.cwd
      BY <1>1, <2>1, <3>1, WalkRises
    <3>3. w[j] \in Ino
      BY <2>4, <3>1
    <3>4. W.lists[w[j]] = V.lists[w[j]]
      BY <1>14, <3>2, <3>3 DEF Loses
    <3>5. Len(V.lists[w[j]]) \in Nat
      BY <1>1, <3>3, ListFacts
    <3>. QED
      BY <3>4, <3>5 DEF Extends
  <2>6. Walk(W, m.path, w)
    BY <2>1, <2>4, <2>5, WalkStays
  <2>7. n.list = W.lists[m.cwd] /\ Len(n.list) >= 2
    <3>1. n.list = W.lists[m.cwd]
      BY <1>13, <1>17 DEF Relisted
    <3>2. Len(s) >= 2
      BY <1>1, <1>3, <1>8
    <3>. QED
      BY <1>17, <3>1, <3>2
  <2>. QED
    BY <1>17, <2>1, <2>6, <2>7 DEF Within
<1>19. At(b, n, r, w)
  BY <1>12, <1>15, <1>17, <1>18 DEF At, Neat, W
<1>. QED
  BY <1>14, <1>16, <1>17, <1>19 DEF s, V, U, W

LEMMA AddOff ==
    ASSUME NEW b, NEW m, Sound(b, m), NEW e, ~Off(AddDirEntryToPath(m, e).disk.blockBits)
    PROVE  ~Off(m.disk.blockBits)
<1>1. Sound(m.disk.blockBits, AddDirEntryToPath(m, e))
  BY SoundHere, AddDirEntrySound
<1>. QED
  BY <1>1, OffStays

\* The same machine in another place.
Moved(n, m, s, x) == n = [m EXCEPT !.list = s, !.cwd = x]

LEMMA Elsewhere ==
    ASSUME NEW b, NEW m, NEW r, Neat(b, m, r), NEW s, IsSeq(s), NEW x, NEW n, Moved(n, m, s, x)
    PROVE  /\ Neat(b, n, r) /\ n.list = s /\ n.cwd = x /\ n.path = m.path /\ n.disk = m.disk /\ n.log = m.log
           /\ Kept(m) => Kept(n)
<1>1. Sound(b, m) /\ IsMachine(m) /\ m.disk.magic /\ Tidy(View(m.disk), r)
  BY SoundHere DEF Neat
<1>2. n.list = s /\ n.cwd = x /\ n.path = m.path /\ n.disk = m.disk /\ n.log = m.log
  BY <1>1 DEF IsMachine, Moved
<1>3. Sound(b, n)
  BY <1>1, WithList DEF Moved
<1>. QED
  BY <1>1, <1>2, <1>3 DEF Neat, Kept

LEMMA FirstEntry ==
    ASSUME NEW s, IsSeq(s), ~(Len(s) >= 1), Len(s) \in Nat, NEW x, NEW e, e.name = ".", e = Entry(".", x, "dir")
    PROVE  /\ IsSeq(Append(s, e)) /\ Len(Append(s, e)) = 1 /\ Append(s, e)[1] = e
           /\ Headed(Append(s, e), x)
<1>1. Headed(s, x)
  BY DEF Headed
<1>2. IsSeq(Append(s, e)) /\ Len(Append(s, e)) = Len(s) + 1 /\ Append(s, e)[Len(s) + 1] = e
  BY AppendIsSeq
<1>3. Len(s) + 1 = 1
  OBVIOUS
<1>4. \A k \in 1..Len(s) : s[k].name # e.name
  OBVIOUS
<1>5. ~(Len(s) >= 2) /\ Len(s) # 1
  OBVIOUS
<1>6. Headed(Append(s, e), x)
  BY <1>1, <1>4, <1>5, MoreHeaded
<1>. QED
  BY <1>2, <1>3, <1>6, Zenon

LEMMA OneEntry ==
    ASSUME NEW x, NEW e, e = Entry(".", x, "dir")
    PROVE  /\ IsSeq(Append(<<>>, e)) /\ Len(Append(<<>>, e)) = 1 /\ Append(<<>>, e)[1] = e
           /\ Headed(Append(<<>>, e), x)
<1>1. IsSeq(<<>>) /\ ~(Len(<<>>) >= 1) /\ Len(<<>>) \in Nat
  BY EmptyIsSeq
<1>2. e.name = "."
  BY DEF Entry
<1>. DEFINE s == <<>>
<1>3. IsSeq(s) /\ ~(Len(s) >= 1) /\ Len(s) \in Nat
  BY <1>1
<1>. HIDE DEF s
<1>4. /\ IsSeq(Append(s, e)) /\ Len(Append(s, e)) = 1 /\ Append(s, e)[1] = e
      /\ Headed(Append(s, e), x)
  BY <1>2, <1>3, FirstEntry
<1>. QED
  BY <1>4, Zenon DEF s

LEMMA SecondEntry ==
    ASSUME NEW s, IsSeq(s), Len(s) = 1, NEW f
    PROVE  Len(Append(s, f)) = 2
<1>1. Len(Append(s, f)) = Len(s) + 1
  BY AppendIsSeq
<1>. QED
  BY <1>1

Enters(m, x) == m.cwd = x /\ m.list = <<>>

\* The two entries that every directory has, written into the new one x.
LEMMA DotsHere ==
    ASSUME NEW b, NEW m, NEW r, Neat(b, m, r), NEW x \in View(m.disk).bits \ {FATHER}, NEW c \in Ino,
           DirIn(View(m.disk), x), View(m.disk).lists[x] = <<>>, NumPtrs * BlockUnits >= 2,
           \A z \in View(m.disk).bits : \A i \in 1..Len(View(m.disk).lists[z]) :
              Kid(View(m.disk), z, i) /\ View(m.disk).lists[z][i].ino = x => z = c,
           Enters(m, x),
           NEW dot, dot = AddDirEntryToPath(m, Entry(".", x, "dir")),
           NEW n, n = AddDirEntryToPath(dot, Entry("..", c, "dir")), ~Off(n.disk.blockBits)
    PROVE  /\ Neat(b, n, r) /\ n.path = m.path /\ (Kept(m) => Kept(n))
           /\ \E s : Len(s) = 2 /\ Relisted(View(m.disk), View(n.disk), x, s)
<1>. DEFINE V == View(m.disk)
            U == View(dot.disk)
            W == View(n.disk)
            e == Entry(".", x, "dir")
            f == Entry("..", c, "dir")
<1>1. Sound(b, m) /\ Tidy(V, r) /\ x \in Ino /\ NumPtrs * BlockUnits \in Nat
  BY TidyParts, Constants DEF Neat
<1>2. IsSeq(<<>>) /\ Len(<<>>) = 0
  BY EmptyIsSeq
<1>3. e.ino = x /\ e.name = "." /\ f.ino = c /\ f.name = ".." /\ f.type = "dir"
  BY DEF Entry
<1>4. ~Off(dot.disk.blockBits)
  BY <1>1, AddOff, AddDirEntrySound
<1>5. Admits(V, r, x, <<>>, e)
  <2>1. Headed(Append(<<>>, e), x)
    BY OneEntry
  <2>2. Len(<<>>) < NumPtrs * BlockUnits /\ ~(Len(<<>>) >= 2) /\ Len(<<>>) # 1
    BY <1>1, <1>2
  <2>. QED
    BY <1>1, <1>3, <2>1, <2>2 DEF Admits
<1>6. /\ Neat(b, dot, r) /\ dot.cwd = x /\ dot.path = m.path /\ dot.list = Append(<<>>, e)
      /\ Relisted(V, U, x, Append(<<>>, e)) /\ (Kept(m) => Kept(dot))
  <2>1. ~Taken(<<>>, e.name)
    BY <1>2 DEF Taken
  <2>2. m.cwd \in View(m.disk).bits \ {FATHER} /\ DirIn(View(m.disk), m.cwd) /\ m.list = View(m.disk).lists[m.cwd]
    BY DEF Enters
  <2>3. ~Taken(m.list, e.name) /\ Admits(View(m.disk), r, m.cwd, m.list, e) /\ dot = AddDirEntryToPath(m, e)
    BY <1>5, <2>1 DEF Enters
  <2>. HIDE DEF e, f, V, U, W
  <2>4. /\ Neat(b, dot, r) /\ dot.cwd = m.cwd /\ dot.path = m.path /\ dot.list = Append(m.list, e)
        /\ Relisted(View(m.disk), View(dot.disk), m.cwd, Append(m.list, e)) /\ (Kept(m) => Kept(dot))
    BY <1>4, <2>2, <2>3, AddEffect
  <2>. QED
    BY <2>4 DEF V, U, Enters
<1>. DEFINE s == Append(<<>>, e)
<1>7. IsSeq(s) /\ Len(s) = 1 /\ s[1] = e
  BY OneEntry, Zenon
<1>. HIDE DEF s
<1>8. /\ Tidy(U, r) /\ x \in U.bits \ {FATHER} /\ DirIn(U, x) /\ U.lists[x] = s /\ dot.list = s /\ dot.cwd = x
      /\ U.bits = V.bits
  BY <1>1, <1>6 DEF Neat, Relisted, DirIn, s
<1>9. \A z \in U.bits : \A i \in 1..Len(U.lists[z]) : Kid(U, z, i) /\ U.lists[z][i].ino = x => z = c
  <2>1. ASSUME NEW z \in U.bits, NEW i \in 1..Len(U.lists[z]), Kid(U, z, i), U.lists[z][i].ino = x PROVE z = c
    <3>1. z # x
      <4>1. ASSUME z = x PROVE FALSE
        <5>1. i \in 1..1 /\ i >= 3
          BY <1>7, <1>8, <2>1, <4>1 DEF Kid
        <5>. QED
          BY <5>1
      <4>. QED
        BY <4>1
    <3>2. z \in V.bits /\ z \in Ino
      BY <1>1, <1>8, <2>1, TidyParts
    <3>3. U.lists[z] = V.lists[z] /\ U.types[z] = V.types[z]
      BY <1>6, <3>1, <3>2 DEF Relisted
    <3>4. Kid(V, z, i) /\ i \in 1..Len(V.lists[z]) /\ V.lists[z][i].ino = x
      BY <2>1, <3>2, <3>3 DEF Kid, DirIn
    <3>. QED
      BY <3>2, <3>4
  <2>. QED
    BY <2>1
<1>10. Admits(U, r, x, s, f)
  <2>1. Headed(Append(s, f), x)
    <3>1. Headed(s, x)
      BY <1>8 DEF Tidy, HeadsTrue
    <3>2. \A k \in 1..Len(s) : s[k].name # f.name
      BY <1>3, <1>7
    <3>3. Len(s) # 0 /\ Len(s) = 1 /\ ~(Len(s) >= 2)
      BY <1>7
    <3>. HIDE DEF e, f
    <3>. QED
      BY <1>3, <1>7, <3>1, <3>2, <3>3, MoreHeaded
  <2>2. Len(s) < NumPtrs * BlockUnits /\ ~(Len(s) >= 2)
    BY <1>1, <1>7
  <2>. HIDE DEF U
  <2>. QED
    BY <1>3, <1>9, <2>1, <2>2 DEF Admits
<1>11. /\ Neat(b, n, r) /\ n.path = dot.path /\ Relisted(U, W, x, Append(s, f)) /\ (Kept(dot) => Kept(n))
  <2>1. ~Taken(dot.list, f.name)
    <3>1. ~Taken(s, f.name)
      BY <1>7 DEF Taken
    <3>. QED
      BY <1>8, <3>1
  <2>2. /\ dot.cwd \in View(dot.disk).bits \ {FATHER} /\ DirIn(View(dot.disk), dot.cwd)
        /\ dot.list = View(dot.disk).lists[dot.cwd]
    BY <1>8
  <2>3. Admits(View(dot.disk), r, dot.cwd, dot.list, f) /\ n = AddDirEntryToPath(dot, f)
    BY <1>8, <1>10
  <2>. HIDE DEF e, f, V, U, W
  <2>4. /\ Neat(b, n, r) /\ n.cwd = dot.cwd /\ n.path = dot.path /\ n.list = Append(dot.list, f)
        /\ Relisted(View(dot.disk), View(n.disk), dot.cwd, Append(dot.list, f)) /\ (Kept(dot) => Kept(n))
    BY <1>6, <2>1, <2>2, <2>3, AddEffect
  <2>. QED
    BY <1>8, <2>4 DEF U, W
<1>12. Len(Append(s, f)) = 2
  BY <1>7, SecondEntry
<1>13. Relisted(V, W, x, Append(s, f))
  <2>. HIDE DEF V, U, W, f
  <2>. QED
    BY <1>6, <1>11 DEF Relisted
<1>. QED
  BY <1>6, <1>11, <1>12, <1>13

\* createNewDirectory.
LEMMA MkdirHere ==
    ASSUME NEW b, NEW m, NEW r, NEW w, At(b, m, r, w), NEW name, name \notin Dots \union {"/"},
           View(m.disk).bits # Ino, Len(m.list) < NumPtrs * BlockUnits, NumPtrs * BlockUnits >= 2,
           NEW x, x = GetFreeInodeIdx(View(m.disk).bits),
           NEW n, n = CreateNewDirectory(m, name), ~Off(n.disk.blockBits)
    PROVE  /\ \E q : At(b, n, q, w)
           /\ n.cwd = m.cwd /\ n.path = m.path /\ (Kept(m) => Kept(n))
           /\ View(n.disk).bits = View(m.disk).bits \union {x}
           /\ \A y \in Ino \ View(m.disk).bits : x <= y
           /\ Len(n.list) <= Len(m.list) + 1
           /\ ~Taken(m.list, name) => n.list = Append(m.list, Entry(name, x, "dir"))
           /\ Len(View(n.disk).lists[x]) = 2
           /\ \A z \in View(m.disk).bits \ {m.cwd} : View(n.disk).lists[z] = View(m.disk).lists[z]
<1>. DEFINE made == CreateDirEntry(m, name, "dir")
            named == AddDirEntryToPath(made.m, made.entry)
            inside == [named EXCEPT !.list = <<>>, !.cwd = x]
            dot == AddDirEntryToPath(inside, Entry(".", x, "dir"))
            dotDot == AddDirEntryToPath(dot, Entry("..", m.cwd, "dir"))
            V == View(m.disk)
            V1 == View(made.m.disk)
            V2 == View(named.disk)
            W == View(n.disk)
            q == [r EXCEPT ![x] = r[m.cwd] + 1]
            e == Entry(name, x, "dir")
<1>1. /\ Sound(b, m) /\ Tidy(V, r) /\ Within(m, V, w)
      /\ m.cwd \in V.bits \ {FATHER} /\ m.cwd \in Ino /\ m.list = V.lists[m.cwd]
      /\ Len(m.list) >= 2 /\ Len(m.list) \in Nat /\ IsSeq(m.list)
  BY AtFacts
<1>2. Deepens(q, r, x, m.cwd)
  BY DEF Deepens
<1>. HIDE DEF q
<1>3. /\ At(b, made.m, q, w) /\ Creates(made.m, m, x, name, "dir")
      /\ x \in V1.bits \ V.bits
      /\ Child(V1, q, m.cwd, e) /\ Unnamed(V1, x)
      /\ Kept(m) => Kept(made.m)
  <2>. DEFINE k == CreateDirEntry(m, name, "dir").m
  <2>2. CreatesBelow(m, r, name, "dir", x, k, q)
    BY <1>2 DEF CreatesBelow
  <2>. HIDE DEF V, k
  <2>3. /\ At(b, k, q, w) /\ Creates(k, m, x, name, "dir")
        /\ x \in View(k.disk).bits \ View(m.disk).bits
        /\ Child(View(k.disk), q, m.cwd, Entry(name, x, "dir")) /\ Unnamed(View(k.disk), x)
        /\ Kept(m) => Kept(k)
    BY <2>2, CreateHere
  <2>. QED
    BY <2>3 DEF V, k
<1>4. made.entry = e /\ e.ino = x /\ e.name = name /\ Stands(made.m, m) /\ Takes(V, V1, x, "dir")
      /\ \A y \in Ino \ V.bits : x <= y
  BY <1>3 DEF Creates, Entry
<1>. DEFINE k == made.m
<1>5. named = AddDirEntryToPath(k, e)
  BY <1>4
<1>6. n = [dotDot EXCEPT !.list = named.list, !.cwd = m.cwd]
  BY <1>4 DEF CreateNewDirectory
<1>. HIDE DEF made, e
<1>7. k.cwd = m.cwd /\ k.path = m.path /\ k.list = m.list /\ Sound(b, k)
  BY <1>3, <1>4, AtFacts DEF Stands
<1>. HIDE DEF named
<1>8. Sound(b, named)
  BY <1>5, <1>7, AddDirEntrySound
<1>9. Sound(b, inside) /\ inside.disk = named.disk
  BY <1>8, WithList, EmptyIsSeq DEF Sound, IsMachine
<1>. HIDE DEF inside
<1>10. Sound(b, dot)
  BY <1>9, AddDirEntrySound
<1>. HIDE DEF dot
<1>11. Sound(b, dotDot)
  BY <1>10, AddDirEntrySound
<1>. HIDE DEF dotDot
<1>12. /\ n.disk = dotDot.disk /\ n.list = named.list /\ n.cwd = m.cwd /\ n.path = dotDot.path
       /\ n.log = dotDot.log
  BY <1>6, <1>11 DEF Sound, IsMachine
<1>13. ~Off(dotDot.disk.blockBits)
  BY <1>12
<1>14. ~Off(named.disk.blockBits)
  <2>1. ~Off(dot.disk.blockBits)
    BY <1>10, <1>13, AddOff DEF dotDot
  <2>2. ~Off(inside.disk.blockBits)
    BY <1>9, <2>1, AddOff DEF dot
  <2>. QED
    BY <1>9, <2>2
<1>15. /\ At(b, named, q, w) /\ named.cwd = k.cwd /\ named.path = k.path
       /\ \/ Taken(k.list, name) /\ named = k
          \/ /\ ~Taken(k.list, name)
             /\ named.list = Append(k.list, e) /\ Relisted(V1, V2, k.cwd, Append(k.list, e))
       /\ Kept(k) => Kept(named)
  <2>1. Child(View(k.disk), q, k.cwd, e) /\ Unnamed(View(k.disk), e.ino)
    BY <1>3, <1>4, <1>7
  <2>2. e.name \notin Dots \union {"/"} /\ Len(k.list) < NumPtrs * BlockUnits /\ At(b, k, q, w)
    BY <1>3, <1>4, <1>7
  <2>. HIDE DEF k
  <2>. QED
    BY <1>4, <1>5, <1>14, <2>1, <2>2, AddHere DEF k
<1>. HIDE DEF k
<1>16. /\ V2.bits = V.bits \union {x} /\ V2.types[x] = "dir" /\ V2.lists[x] = <<>>
       /\ x \in Ino \ V.bits /\ V.bits \subseteq Ino
       /\ \A z \in V.bits : V2.types[z] = V.types[z]
       /\ \A z \in V.bits \ {m.cwd} : V2.lists[z] = V.lists[z]
       /\ named.list = V2.lists[m.cwd] /\ Len(named.list) >= 2 /\ Len(named.list) <= Len(m.list) + 1
       /\ x # m.cwd /\ x # FATHER
  <2>1. /\ V1.bits = V.bits \union {x} /\ V1.types[x] = "dir" /\ V1.lists[x] = <<>>
        /\ x \in Ino \ V.bits /\ V.bits \subseteq Ino /\ x # m.cwd /\ x # FATHER
        /\ \A z \in V.bits : V1.types[z] = V.types[z] /\ V1.lists[z] = V.lists[z]
    BY <1>1, <1>4, TidyParts DEF Takes
  <2>2. named.list = V2.lists[m.cwd] /\ Len(named.list) >= 2
    BY <1>7, <1>15, AtFacts
  <2>3. CASE named = k
    BY <1>1, <1>7, <2>1, <2>2, <2>3 DEF k
  <2>4. CASE named.list = Append(k.list, e) /\ Relisted(V1, V2, k.cwd, Append(k.list, e))
    <3>1. Len(named.list) = Len(m.list) + 1
      BY <1>1, <1>7, <2>4, AppendIsSeq
    <3>. HIDE DEF V, V1, V2
    <3>2. Relisted(V1, V2, m.cwd, named.list)
      BY <1>7, <2>4
    <3>3. V2.bits = V.bits \union {x} /\ V2.types[x] = "dir" /\ V2.lists[x] = <<>>
      BY <2>1, <3>2 DEF Relisted
    <3>4. /\ \A z \in V.bits : V2.types[z] = V.types[z]
          /\ \A z \in V.bits \ {m.cwd} : V2.lists[z] = V.lists[z]
      BY <2>1, <3>2 DEF Relisted
    <3>. QED
      BY <1>1, <2>1, <2>2, <3>1, <3>3, <3>4
  <2>. QED
    BY <1>15, <2>3, <2>4
<1>17. \A z \in V2.bits : \A i \in 1..Len(V2.lists[z]) : Kid(V2, z, i) /\ V2.lists[z][i].ino = x => z = m.cwd
  <2>1. ASSUME NEW z \in V2.bits, z # m.cwd, NEW i \in 1..Len(V2.lists[z]), Kid(V2, z, i), V2.lists[z][i].ino = x
        PROVE  FALSE
    <3>1. V1.bits = V2.bits /\ V1.lists[z] = V2.lists[z] /\ V1.types[z] = V2.types[z]
      <4>1. CASE named = k
        BY <4>1 DEF k
      <4>2. CASE Relisted(V1, V2, k.cwd, Append(k.list, e))
        <5>. HIDE DEF V, V1, V2
        <5>. QED
          BY <1>7, <1>16, <2>1, <4>2 DEF Relisted
      <4>. QED
        BY <1>15, <4>1, <4>2
    <3>2. Kid(V1, z, i) /\ V1.lists[z][i].ino = x /\ z \in V1.bits /\ i \in 1..Len(V1.lists[z])
      <4>. HIDE DEF V, V1, V2
      <4>. QED
        BY <2>1, <3>1 DEF Kid, DirIn
    <3>. QED
      BY <1>3, <3>2 DEF Unnamed
  <2>. QED
    BY <2>1
<1>18. Neat(b, named, q)
  BY <1>15 DEF At
<1>19. /\ Neat(b, inside, q) /\ inside.list = <<>> /\ inside.cwd = x /\ inside.path = named.path
       /\ (Kept(named) => Kept(inside))
  <2>1. Moved(inside, named, <<>>, x)
    BY DEF Moved, inside
  <2>. QED
    BY <1>18, <2>1, Elsewhere, EmptyIsSeq
<1>20. /\ Neat(b, dotDot, q) /\ dotDot.path = inside.path /\ (Kept(inside) => Kept(dotDot))
       /\ \E s : Len(s) = 2 /\ Relisted(V2, View(dotDot.disk), x, s)
  <2>1. /\ x \in View(inside.disk).bits \ {FATHER} /\ DirIn(View(inside.disk), x) /\ View(inside.disk).lists[x] = <<>>
        /\ \A z \in View(inside.disk).bits : \A i \in 1..Len(View(inside.disk).lists[z]) :
              Kid(View(inside.disk), z, i) /\ View(inside.disk).lists[z][i].ino = x => z = m.cwd
    BY <1>9, <1>16, <1>17 DEF DirIn
  <2>2. dot = AddDirEntryToPath(inside, Entry(".", x, "dir")) /\ dotDot = AddDirEntryToPath(dot, Entry("..", m.cwd, "dir"))
    BY DEF dot, dotDot
  <2>3. V2 = View(inside.disk)
    BY <1>9
  <2>. HIDE DEF V2
  <2>. QED
    BY <1>1, <1>13, <1>19, <2>1, <2>2, <2>3, DotsHere DEF Enters
<1>21. PICK s : Len(s) = 2 /\ Relisted(V2, W, x, s)
  BY <1>12, <1>20
<1>22. Within(n, W, w) /\ \A z \in V.bits \ {m.cwd} : W.lists[z] = V.lists[z]
  <2>. HIDE DEF V, V1, V2, W
  <2>1. V.bits \subseteq W.bits /\ \A z \in V.bits : W.types[z] = V.types[z]
    BY <1>16, <1>21 DEF Relisted
  <2>2. \A z \in V.bits \ {m.cwd} : W.lists[z] = V.lists[z]
    BY <1>16, <1>21 DEF Relisted
  <2>3. n.list = W.lists[m.cwd] /\ Len(n.list) >= 2
    BY <1>1, <1>12, <1>16, <1>21 DEF Relisted
  <2>4. n.cwd = m.cwd /\ n.path = m.path
    BY <1>7, <1>12, <1>15, <1>19, <1>20
  <2>5. Within(n, W, w)
    BY <1>1, <2>1, <2>2, <2>3, <2>4, WithinStays
  <2>. QED
    BY <2>2, <2>5
<1>23. At(b, n, q, w)
  <2>1. Neat(b, n, q)
    <3>1. IsSeq(named.list)
      BY <1>8, SoundHere
    <3>2. Moved(n, dotDot, named.list, m.cwd)
      BY <1>6 DEF Moved
    <3>. QED
      BY <1>20, <3>1, <3>2, Elsewhere
  <2>. QED
    BY <1>22, <2>1 DEF At
<1>24. Kept(m) => Kept(n)
  BY <1>3, <1>12, <1>15, <1>19, <1>20 DEF Kept, k
<1>25. W.bits = V.bits \union {x} /\ Len(W.lists[x]) = 2
  <2>. HIDE DEF V, V1, V2, W
  <2>. QED
    BY <1>16, <1>21 DEF Relisted
<1>26. ~Taken(m.list, name) => n.list = Append(m.list, e)
  BY <1>7, <1>12, <1>15
<1>27. n.cwd = m.cwd /\ n.path = m.path /\ Len(n.list) <= Len(m.list) + 1
  BY <1>7, <1>12, <1>15, <1>16, <1>19, <1>20
<1>. QED
  BY <1>4, <1>22, <1>23, <1>24, <1>25, <1>26, <1>27 DEF e, V, W

---------------------------------------------------------------------------
(* cd.                                                                     *)

\* Only where the machine is has changed.
Reads(n, m) == n.disk = m.disk /\ n.log = m.log

Goes(n, m, x, p) == n = [m EXCEPT !.cwd = x, !.list = ReadDirectoryList(m.disk, x), !.path = p]

LEMMA NeatGoes ==
    ASSUME NEW b, NEW m, NEW r, Neat(b, m, r), NEW p, NEW v, Walk(View(m.disk), p, v),
           NEW x, x = v[Len(p)], Len(View(m.disk).lists[x]) >= 2, NEW n, Goes(n, m, x, p)
    PROVE  At(b, n, r, v) /\ Reads(n, m) /\ n.cwd = x /\ n.path = p
<1>1. Sound(b, m) /\ Shape(m.disk) /\ IsMachine(m) /\ Tidy(View(m.disk), r)
  BY SoundHere DEF Neat
<1>2. x \in Ino
  <2>1. Len(p) \in 0..Len(p) /\ x \in View(m.disk).bits
    BY <1>1, WalkFacts
  <2>. QED
    BY <1>1, <2>1, TidyParts
<1>3. IsSeq(ReadDirectoryList(m.disk, x)) /\ ReadDirectoryList(m.disk, x) = View(m.disk).lists[x]
  BY <1>1, <1>2, ViewFacts
<1>4. Sound(b, n)
  BY <1>1, <1>3, SoundParts DEF Goes
<1>5. /\ n.disk = m.disk /\ n.log = m.log /\ n.cwd = x /\ n.path = p
      /\ n.list = ReadDirectoryList(m.disk, x)
  BY <1>1 DEF IsMachine, Goes
<1>6. Neat(b, n, r)
  BY <1>4, <1>5 DEF Neat
<1>7. Within(n, View(n.disk), v)
  BY <1>3, <1>5 DEF Within
<1>. QED
  BY <1>5, <1>6, <1>7 DEF At, Reads

LEMMA GoesThere ==
    ASSUME NEW b, NEW m, NEW r, NEW w, At(b, m, r, w), NEW p, NEW v, Walk(View(m.disk), p, v),
           NEW x, x = v[Len(p)], Len(View(m.disk).lists[x]) >= 2, NEW n, Goes(n, m, x, p)
    PROVE  At(b, n, r, v) /\ Reads(n, m) /\ n.cwd = x /\ n.path = p
<1>1. Neat(b, m, r)
  BY DEF At
<1>. QED
  BY <1>1, NeatGoes

\* The walk that stays at the root.
Stay == [k \in {0} |-> ROOT]

LEMMA StayWalks ==
    ASSUME NEW V, NEW r, Tidy(V, r)
    PROVE  Walk(V, <<>>, Stay) /\ Len(<<>>) = 0 /\ Stay[0] = ROOT
<1>1. IsSeq(<<>>) /\ Len(<<>>) = 0 /\ Stay[0] = ROOT
  BY EmptyIsSeq DEF Stay
<1>2. DirIn(V, ROOT)
  BY TidyParts DEF DirIn
<1>3. \A k \in 0..Len(<<>>) : DirIn(V, Stay[k])
  BY <1>1, <1>2
<1>4. \A k \in 1..Len(<<>>) : FALSE
  BY <1>1
<1>. QED
  BY <1>1, <1>3, <1>4 DEF Walk

LEMMA NeatGoesToRoot ==
    ASSUME NEW b, NEW m, NEW r, Neat(b, m, r), NEW n, Goes(n, m, ROOT, <<>>)
    PROVE  At(b, n, r, Stay) /\ Reads(n, m) /\ n.cwd = ROOT /\ n.path = <<>>
<1>1. Tidy(View(m.disk), r)
  BY DEF Neat
<1>. DEFINE p == <<>>
<1>2. Walk(View(m.disk), p, Stay) /\ ROOT = Stay[Len(p)] /\ Goes(n, m, ROOT, p)
  BY <1>1, StayWalks
<1>3. Len(View(m.disk).lists[ROOT]) >= 2
  BY <1>1, TidyParts
<1>. HIDE DEF p
<1>4. At(b, n, r, Stay) /\ Reads(n, m) /\ n.cwd = ROOT /\ n.path = p
  BY <1>2, <1>3, NeatGoes
<1>. QED
  BY <1>4, Zenon DEF p

LEMMA GoesToRoot ==
    ASSUME NEW b, NEW m, NEW r, NEW w, At(b, m, r, w), NEW n, Goes(n, m, ROOT, <<>>)
    PROVE  At(b, n, r, Stay) /\ Reads(n, m) /\ n.cwd = ROOT /\ n.path = <<>>
<1>1. Neat(b, m, r)
  BY DEF At
<1>. QED
  BY <1>1, NeatGoesToRoot

\* The first two entries.
LEMMA FindsDots ==
    ASSUME NEW b, NEW m, NEW r, NEW w, At(b, m, r, w)
    PROVE  /\ GetDirEntry(m, ".") = Entry(".", m.cwd, "dir")
           /\ GetDirEntry(m, "..").type = "dir" /\ GetDirEntry(m, "..") = m.list[2]
<1>1. Len(m.list) >= 2 /\ Len(m.list) \in Nat /\ Headed(m.list, m.cwd)
  BY AtFacts
<1>2. /\ m.list[1] = Entry(".", m.cwd, "dir") /\ m.list[2].name = ".." /\ m.list[2].type = "dir"
      /\ 1 \in 1..Len(m.list) /\ 2 \in 1..Len(m.list)
  BY <1>1 DEF Headed
<1>3. Finds(m, ".", 1) /\ Finds(m, "..", 2)
  BY <1>2 DEF Finds, Entry
<1>4. GetDirEntry(m, ".") = m.list[1]
  BY <1>3, FindsOne
<1>5. GetDirEntry(m, "..") = m.list[2]
  BY <1>3, FindsOne
<1>. QED
  BY <1>2, <1>4, <1>5

LEMMA ChangeDirGoes ==
    ASSUME NEW m, NEW name, CanEnter(m, name), NEW n, n = ChangeDir(m, name)
    PROVE  Goes(n, m, GetDirEntry(m, name).ino, PathAfter(m, name, GetDirEntry(m, name).ino))
BY DEF ChangeDir, Goes

\* cd ..
GoesUp(b, m, r, w, n) == At(b, m, r, w) /\ m.cwd # ROOT /\ n = ChangeDir(m, "..")

IsUp(b, m, r, w, n) ==
    /\ At(b, n, r, w) /\ Reads(n, m) /\ n.path = Front(m.path) /\ Len(m.path) >= 1
    /\ n.cwd = w[Len(m.path) - 1] /\ Len(n.path) = Len(m.path) - 1
    /\ \A k \in 1..Len(n.path) : n.path[k] = m.path[k]

LEMMA CdUpIs ==
    ASSUME NEW b, NEW m, NEW r, NEW w, NEW n, GoesUp(b, m, r, w, n)
    PROVE  IsUp(b, m, r, w, n)
<1>0. At(b, m, r, w) /\ m.cwd # ROOT /\ n = ChangeDir(m, "..")
  BY DEF GoesUp
<1>. DEFINE V == View(m.disk)
            l == Len(m.path) - 1
            p == Front(m.path)
            x == w[l]
<1>1. /\ Tidy(V, r) /\ Within(m, V, w) /\ Walk(V, m.path, w)
      /\ m.cwd = w[Len(m.path)] /\ m.list = V.lists[m.cwd] /\ Len(m.list) >= 2
  BY <1>0, AtFacts DEF Within
<1>2. Len(m.path) \in Nat /\ Len(m.path) # 0 /\ IsSeq(m.path)
  BY <1>0, <1>1, WithinFacts DEF Walk
<1>3. l \in Nat /\ l \in 0..Len(m.path) /\ Len(m.path) \in 1..Len(m.path) /\ l + 1 = Len(m.path) /\ l < Len(m.path)
  BY <1>2
<1>4. /\ V.lists[w[Len(m.path)]][2].ino = w[Len(m.path) - 1] /\ Len(V.lists[w[Len(m.path) - 1]]) >= 3
  BY <1>1, <1>3, WalkFacts
<1>5. GetDirEntry(m, "..").ino = x /\ CanEnter(m, "..")
  BY <1>0, <1>1, <1>4, FindsDots DEF CanEnter
<1>6. IsSeq(p) /\ Len(p) = l /\ \A k \in 1..l : p[k] = m.path[k]
  <2>1. p = SubSeq(m.path, 1, l) /\ 1 \in Int /\ l \in Int
    BY <1>2 DEF Front
  <2>. HIDE DEF p
  <2>2. IsSeq(p) /\ Len(p) = (IF 1 <= l THEN l - 1 + 1 ELSE 0) /\ \A k \in 1..l - 1 + 1 : p[k] = m.path[1 + k - 1]
    <3>. HIDE DEF l
    <3>. QED
      BY <2>1, SubSeqIsSeq
  <2>. QED
    BY <1>3, <2>2
<1>. HIDE DEF p
<1>7. Walk(V, p, w)
  <2>1. w[0] = ROOT /\ \A k \in 0..l : DirIn(V, w[k])
    BY <1>1, <1>2 DEF Walk
  <2>2. ASSUME NEW k \in 1..l
        PROVE  \E i \in 3..Len(V.lists[w[k - 1]]) : V.lists[w[k - 1]][i] = Entry(p[k], w[k], "dir")
    <3>1. k \in 1..Len(m.path) /\ p[k] = m.path[k]
      BY <1>2, <1>6
    <3>2. \E i \in 3..Len(V.lists[w[k - 1]]) : V.lists[w[k - 1]][i] = Entry(m.path[k], w[k], "dir")
      BY <1>1, <3>1 DEF Walk
    <3>. QED
      BY <3>1, <3>2
  <2>. QED
    BY <1>6, <2>1, <2>2 DEF Walk
<1>8. PathAfter(m, "..", x) = p
  <2>1. CASE x = ROOT
    <3>1. l = 0
      <4>1. ASSUME l # 0 PROVE FALSE
        <5>1. 0 < l /\ 0 \in 0..Len(m.path)
          <6>. HIDE DEF l
          <6>. QED
            BY <1>2, <1>3, <4>1
        <5>2. w[0] # w[l]
          BY <1>1, <1>3, <5>1, WalkRises
        <5>. QED
          BY <1>1, <2>1, <5>2 DEF Walk
      <4>. QED
        BY <4>1
    <3>2. p = <<>>
      <4>1. IsSeq(<<>>) /\ Len(<<>>) = Len(p) /\ \A k \in 1..Len(p) : p[k] = <<>>[k]
        BY <1>6, <3>1, EmptyIsSeq
      <4>. QED
        BY <1>6, <4>1, SameSeq
    <3>. QED
      BY <2>1, <3>2 DEF PathAfter
  <2>2. CASE x # ROOT
    BY <2>2 DEF PathAfter, p
  <2>. QED
    BY <2>1, <2>2
<1>9. Goes(n, m, x, p)
  BY <1>0, <1>5, <1>8, ChangeDirGoes
<1>10. Len(V.lists[x]) >= 2
  <2>1. Len(V.lists[x]) >= 3 /\ x \in Ino
    BY <1>1, <1>3, <1>4, WalkFacts, TidyParts
  <2>2. Len(V.lists[x]) \in Nat
    BY <1>1, <2>1, ListFacts
  <2>. QED
    BY <2>1, <2>2
<1>11. x = w[Len(p)]
  BY <1>6
<1>. HIDE DEF x, l
<1>12. At(b, n, r, w) /\ Reads(n, m) /\ n.cwd = x /\ n.path = p
  BY <1>0, <1>7, <1>9, <1>10, <1>11, GoesThere
<1>. QED
  BY <1>2, <1>6, <1>12 DEF x, l, p, IsUp

LEMMA CdUp ==
    ASSUME NEW b, NEW m, NEW r, NEW w, At(b, m, r, w), m.cwd # ROOT, NEW n, n = ChangeDir(m, "..")
    PROVE  /\ At(b, n, r, w) /\ Reads(n, m) /\ n.path = Front(m.path) /\ Len(m.path) >= 1
           /\ n.cwd = w[Len(m.path) - 1] /\ Len(n.path) = Len(m.path) - 1
           /\ \A k \in 1..Len(n.path) : n.path[k] = m.path[k]
<1>1. GoesUp(b, m, r, w, n)
  BY DEF GoesUp
<1>2. IsUp(b, m, r, w, n)
  BY <1>1, CdUpIs
<1>. QED
  BY <1>2 DEF IsUp

\* The walk w goes on from its step l to x.
Onto(v, w, l, x) == v[l + 1] = x /\ \A k \in 0..l : v[k] = w[k]

LEMMA OntoExists ==
    ASSUME NEW w, NEW l \in Nat, NEW x
    PROVE  \E v : Onto(v, w, l, x)
<1>. DEFINE v == [k \in 0..(l + 1) |-> IF k <= l THEN w[k] ELSE x]
<1>1. v[l + 1] = x /\ \A k \in 0..l : v[k] = w[k]
  OBVIOUS
<1>. QED
  BY <1>1 DEF Onto

\* cd to a directory that is here.
GoesDown(b, m, r, w, name, i, n, v) ==
    /\ At(b, m, r, w) /\ Finds(m, name, i) /\ i >= 3 /\ m.list[i].type = "dir"
    /\ Len(View(m.disk).lists[m.list[i].ino]) >= 2
    /\ n = ChangeDir(m, name) /\ Onto(v, w, Len(m.path), m.list[i].ino)

IsDown(b, m, r, name, i, n, v) ==
    At(b, n, r, v) /\ Reads(n, m) /\ n.path = Append(m.path, name) /\ n.cwd = m.list[i].ino

LEMMA CdDown ==
    ASSUME NEW b, NEW m, NEW r, NEW w, At(b, m, r, w), NEW name, NEW i, Finds(m, name, i), i >= 3,
           m.list[i].type = "dir", Len(View(m.disk).lists[m.list[i].ino]) >= 2,
           NEW n, n = ChangeDir(m, name), NEW v, Onto(v, w, Len(m.path), m.list[i].ino)
    PROVE  At(b, n, r, v) /\ Reads(n, m) /\ n.path = Append(m.path, name) /\ n.cwd = m.list[i].ino
<1>. DEFINE V == View(m.disk)
            l == Len(m.path)
            p == Append(m.path, name)
            x == m.list[i].ino
<1>1. /\ Tidy(V, r) /\ Within(m, V, w) /\ Walk(V, m.path, w)
      /\ m.cwd = w[Len(m.path)] /\ m.list = V.lists[m.cwd] /\ Len(m.list) >= 2 /\ Len(m.list) \in Nat
      /\ m.cwd \in V.bits \ {FATHER} /\ DirIn(V, m.cwd)
  BY AtFacts DEF Within
<1>2. l \in Nat /\ IsSeq(m.path)
  BY <1>1, WithinFacts DEF Walk
<1>3. i \in 3..Len(m.list) /\ m.list[i].name = name
  BY <1>1 DEF Finds
<1>4. /\ Child(V, r, m.cwd, m.list[i]) /\ x \in V.bits \ {FATHER, ROOT, m.cwd} /\ name \notin Dots \union {"/"}
  BY <1>1, <1>3, KidFacts
<1>5. m.list[i] = Entry(name, x, "dir") /\ DirIn(V, x)
  BY <1>3, <1>4 DEF Child, DirIn
<1>6. GetDirEntry(m, name) = m.list[i] /\ CanEnter(m, name)
  <2>1. name # "/"
    BY <1>4
  <2>. QED
    BY <2>1, FindsOne DEF CanEnter
<1>7. PathAfter(m, name, x) = p
  BY <1>4 DEF PathAfter, Dots
<1>8. IsSeq(p) /\ Len(p) = l + 1 /\ p[l + 1] = name /\ \A k \in 1..l : p[k] = m.path[k]
  BY <1>2, AppendIsSeq
<1>9. Goes(n, m, x, p)
  BY <1>6, <1>7, ChangeDirGoes
<1>10. Walk(V, p, v)
  <2>. HIDE DEF p, x
  <2>1. v[0] = ROOT
    BY <1>1, <1>2 DEF Walk, Onto
  <2>2. ASSUME NEW k \in 0..(l + 1) PROVE DirIn(V, v[k])
    <3>1. CASE k = l + 1
      BY <1>5, <3>1 DEF Onto, x
    <3>2. CASE k # l + 1
      <4>1. k \in 0..l
        BY <1>2, <3>2
      <4>. QED
        BY <1>1, <4>1 DEF Walk, Onto
    <3>. QED
      BY <3>1, <3>2
  <2>3. ASSUME NEW k \in 1..(l + 1)
        PROVE  \E j \in 3..Len(V.lists[v[k - 1]]) : V.lists[v[k - 1]][j] = Entry(p[k], v[k], "dir")
    <3>1. CASE k = l + 1
      <4>1. v[k - 1] = m.cwd /\ v[k] = x /\ p[k] = name
        <5>1. k - 1 = l /\ l \in 0..l
          BY <1>2, <3>1
        <5>. QED
          BY <1>1, <1>8, <3>1, <5>1 DEF Onto, x
      <4>. QED
        BY <1>1, <1>3, <1>5, <4>1
    <3>2. CASE k # l + 1
      <4>1. k \in 1..l /\ k \in 0..l /\ k - 1 \in 0..l
        BY <1>2, <3>2
      <4>2. v[k - 1] = w[k - 1] /\ v[k] = w[k] /\ p[k] = m.path[k]
        BY <1>8, <4>1 DEF Onto
      <4>3. \E j \in 3..Len(V.lists[w[k - 1]]) : V.lists[w[k - 1]][j] = Entry(m.path[k], w[k], "dir")
        BY <1>1, <4>1 DEF Walk
      <4>. QED
        BY <4>2, <4>3
    <3>. QED
      BY <3>1, <3>2
  <2>. QED
    BY <1>8, <2>1, <2>2, <2>3 DEF Walk
<1>11. x = v[Len(p)]
  BY <1>8 DEF Onto
<1>12. Len(V.lists[x]) >= 2
  OBVIOUS
<1>. HIDE DEF x, p, l
<1>13. At(b, n, r, v) /\ Reads(n, m) /\ n.cwd = x /\ n.path = p
  BY <1>9, <1>10, <1>11, <1>12, GoesThere
<1>. QED
  BY <1>13 DEF x, p

\* cd, whatever the name.
LEMMA CdDownIs ==
    ASSUME NEW b, NEW m, NEW r, NEW w, NEW name, NEW i, NEW n, NEW v, GoesDown(b, m, r, w, name, i, n, v)
    PROVE  IsDown(b, m, r, name, i, n, v)
<1>1. /\ At(b, m, r, w) /\ Finds(m, name, i) /\ i >= 3 /\ m.list[i].type = "dir"
      /\ Len(View(m.disk).lists[m.list[i].ino]) >= 2
      /\ n = ChangeDir(m, name) /\ Onto(v, w, Len(m.path), m.list[i].ino)
  BY DEF GoesDown
<1>. QED
  BY <1>1, CdDown DEF IsDown

LEMMA CdHere ==
    ASSUME NEW b, NEW m, NEW r, NEW w, At(b, m, r, w), NEW name, name = ".." => m.cwd # ROOT,
           CanEnter(m, name) => Len(View(m.disk).lists[GetDirEntry(m, name).ino]) >= 2,
           NEW n, n = ChangeDir(m, name)
    PROVE  (\E v : At(b, n, r, v)) /\ Reads(n, m)
<1>. DEFINE x == GetDirEntry(m, name).ino
<1>1. CASE ~CanEnter(m, name)
  BY <1>1 DEF ChangeDir, Reads
<1>2. CASE CanEnter(m, name) /\ (name = "/" \/ x = ROOT)
  <2>1. x = ROOT
    BY <1>2, LookUp DEF Entry
  <2>2. PathAfter(m, name, x) = <<>>
    BY <2>1 DEF PathAfter
  <2>3. Goes(n, m, ROOT, <<>>)
    BY <1>2, <2>1, <2>2, ChangeDirGoes
  <2>. QED
    BY <2>3, GoesToRoot
<1>3. CASE CanEnter(m, name) /\ name = "." /\ x # ROOT
  <2>1. x = m.cwd
    BY <1>3, FindsDots DEF Entry
  <2>2. Goes(n, m, m.cwd, m.path)
    BY <1>3, <2>1, ChangeDirGoes DEF PathAfter
  <2>3. Walk(View(m.disk), m.path, w) /\ m.cwd = w[Len(m.path)] /\ Len(View(m.disk).lists[m.cwd]) >= 2
    BY AtFacts DEF Within
  <2>. QED
    BY <2>2, <2>3, GoesThere
<1>4. CASE name = ".."
  BY <1>4, CdUp
<1>5. CASE CanEnter(m, name) /\ name \notin Dots \union {"/"}
  <2>1. PICK i : Finds(m, name, i) /\ GetDirEntry(m, name) = m.list[i]
    <3>1. GetDirEntry(m, name) # NoEntry
      <4>1. NoEntry.type = "none"
        BY DEF NoEntry, Entry
      <4>2. GetDirEntry(m, name).type = "dir"
        BY <1>5 DEF CanEnter
      <4>. QED
        BY <4>1, <4>2
    <3>. QED
      BY <1>5, <3>1, LookUp
  <2>2. i >= 3
    <3>1. Len(m.list) >= 2 /\ Len(m.list) \in Nat /\ Headed(m.list, m.cwd)
      BY AtFacts
    <3>2. m.list[1].name = "." /\ m.list[2].name = ".."
      BY <3>1 DEF Headed, Entry
    <3>3. i \in Nat /\ i # 0 /\ i # 1 /\ i # 2
      BY <1>5, <2>1, <3>2 DEF Finds, Dots
    <3>. QED
      BY <3>3
  <2>3. Len(m.path) \in Nat
    BY AtFacts, WithinFacts
  <2>4. PICK v : Onto(v, w, Len(m.path), m.list[i].ino)
    BY <2>3, OntoExists
  <2>. QED
    BY <1>5, <2>1, <2>2, <2>4, CdDown DEF CanEnter
<1>. QED
  BY <1>1, <1>2, <1>3, <1>4, <1>5 DEF Dots

---------------------------------------------------------------------------
(* The commands but rmdir.                                                 *)

\* Entry i of the directory where the machine is names a child.
Names3(m, r, name, i) ==
    /\ Finds(m, name, i) /\ i \in 3..Len(m.list) /\ GetDirEntry(m, name) = m.list[i]
    /\ Child(View(m.disk), r, m.cwd, m.list[i])
    /\ m.list[i].ino \in View(m.disk).bits \ {FATHER, ROOT, m.cwd} /\ m.list[i].ino \in Ino
    /\ m.list[i].name \notin Dots \union {"/"}

LEMMA ThirdOn ==
    ASSUME NEW b, NEW m, NEW r, NEW w, At(b, m, r, w), NEW name, NEW i, Finds(m, name, i), i >= 3
    PROVE  Names3(m, r, name, i)
<1>1. /\ Tidy(View(m.disk), r) /\ m.cwd \in View(m.disk).bits \ {FATHER} /\ DirIn(View(m.disk), m.cwd)
      /\ m.list = View(m.disk).lists[m.cwd] /\ Len(m.list) \in Nat
  BY AtFacts
<1>2. i \in 3..Len(m.list) /\ m.list[i].name = name
  BY <1>1 DEF Finds
<1>3. /\ Child(View(m.disk), r, m.cwd, m.list[i])
      /\ m.list[i].ino \in View(m.disk).bits \ {FATHER, ROOT, m.cwd}
      /\ m.list[i].name \notin Dots \union {"/"}
  BY <1>1, <1>2, KidFacts
<1>4. m.list[i].ino \in Ino
  BY <1>1, <1>3, TidyParts
<1>5. GetDirEntry(m, name) = m.list[i]
  BY <1>2, <1>3, FindsOne
<1>. QED
  BY <1>2, <1>3, <1>4, <1>5 DEF Names3

LEMMA FindsPlain ==
    ASSUME NEW b, NEW m, NEW r, NEW w, At(b, m, r, w), NEW name,
           name \notin Dots \union {"/"} \/ GetDirEntry(m, name).type = "file"
    PROVE  GetDirEntry(m, name) = NoEntry \/ \E i : Names3(m, r, name, i)
<1>1. name \notin Dots \union {"/"}
  <2>1. Entry("/", ROOT, "dir").type = "dir"
    BY DEF Entry
  <2>2. GetDirEntry(m, "/").type = "dir"
    BY <2>1, LookUp
  <2>3. GetDirEntry(m, ".").type = "dir" /\ GetDirEntry(m, "..").type = "dir"
    BY FindsDots DEF Entry
  <2>. QED
    BY <2>2, <2>3 DEF Dots
<1>2. CASE \E i : Finds(m, name, i)
  <2>1. PICK i : Finds(m, name, i)
    BY <1>2
  <2>2. i >= 3
    <3>1. Len(m.list) >= 2 /\ Len(m.list) \in Nat /\ Headed(m.list, m.cwd)
      BY AtFacts
    <3>2. m.list[1].name = "." /\ m.list[2].name = ".."
      BY <3>1 DEF Headed, Entry
    <3>3. i \in Nat /\ i # 0 /\ i # 1 /\ i # 2
      BY <1>1, <2>1, <3>2 DEF Finds, Dots
    <3>. QED
      BY <3>3
  <2>. QED
    BY <2>1, <2>2, ThirdOn
<1>3. CASE \A i : ~Finds(m, name, i)
  BY <1>1, <1>3, LookUp
<1>. QED
  BY <1>2, <1>3

NoEntryFacts == NoEntry.ino = 0 /\ NoEntry.type = "none"

LEMMA NoEntryIs == NoEntryFacts
BY DEF NoEntryFacts, NoEntry, Entry

\* What a command leaves.
Leaves(b, n) == \E r, w : At(b, n, r, w)

LEMMA RoomHere ==
    ASSUME NEW d, Shape(d), NEW x \in Ino, DirIn(View(d), x)
    PROVE  Len(View(d).lists[x]) = d.inode[x].size
<1>1. d.inode[x].type = "dir" /\ View(d).lists[x] = GetInodeData(d, x)
  BY ViewFacts DEF DirIn
<1>. QED
  BY <1>1, DataLen

LEMMA TouchHere ==
    ASSUME NEW b, NEW m, NEW r, NEW w, At(b, m, r, w), NEW name, name \notin Dots \union {"/"},
           View(m.disk).bits # Ino, Len(m.list) < NumPtrs * BlockUnits,
           NEW made, made = CreateDirEntry(m, name, "file"),
           NEW n, n = AddDirEntryToPath(made.m, made.entry), ~Off(n.disk.blockBits)
    PROVE  Leaves(b, n) /\ (Kept(m) => Kept(n)) /\ n.cwd = m.cwd /\ n.path = m.path
<1>. DEFINE x == GetFreeInodeIdx(View(m.disk).bits)
            q == [r EXCEPT ![x] = r[m.cwd] + 1]
            k == made.m
            e == Entry(name, x, "file")
<1>1. CreatesBelow(m, r, name, "file", x, k, q)
  BY DEF CreatesBelow, Deepens
<1>. HIDE DEF x, q, k
<1>2. /\ At(b, k, q, w) /\ Creates(k, m, x, name, "file") /\ (Kept(m) => Kept(k))
      /\ Child(View(k.disk), q, m.cwd, Entry(name, x, "file")) /\ Unnamed(View(k.disk), x)
  BY <1>1, CreateHere
<1>3. made.entry = e /\ Stands(k, m) /\ n = AddDirEntryToPath(k, made.entry)
  BY <1>2 DEF Creates, k
<1>4. e.name = name /\ e.ino = x
  BY DEF Entry
<1>5. k.cwd = m.cwd /\ k.list = m.list /\ k.path = m.path
  BY <1>3 DEF Stands
<1>6. /\ Child(View(k.disk), q, k.cwd, e) /\ Unnamed(View(k.disk), e.ino) /\ e.name \notin Dots \union {"/"}
      /\ Len(k.list) < NumPtrs * BlockUnits /\ n = AddDirEntryToPath(k, e)
  BY <1>2, <1>3, <1>4, <1>5
<1>. HIDE DEF e
<1>7. At(b, n, q, w) /\ n.cwd = k.cwd /\ n.path = k.path /\ (Kept(k) => Kept(n))
  BY <1>2, <1>6, AddHere
<1>. QED
  BY <1>2, <1>5, <1>7 DEF Leaves

\* Nothing was written but the contents of files.
SameTree(n, m) ==
    /\ Stands(n, m) /\ n.disk.magic = m.disk.magic /\ View(n.disk) = View(m.disk)
    /\ \A d \in ToSet(n.log) : d \in ToSet(m.log) \/ (d.magic = m.disk.magic /\ View(d) = View(m.disk))

LEMMA SameTreeStays ==
    ASSUME NEW b, NEW m, NEW r, NEW w, At(b, m, r, w), NEW n, Sound(b, n), SameTree(n, m)
    PROVE  At(b, n, r, w) /\ (Kept(m) => Kept(n))
<1>1. m.disk.magic /\ Tidy(View(m.disk), r) /\ Within(m, View(m.disk), w)
  BY AtFacts
<1>2. At(b, n, r, w)
  BY <1>1 DEF At, Neat, SameTree, Within, Stands
<1>3. Kept(m) => Kept(n)
  <2>1. ASSUME Kept(m), NEW d \in ToSet(n.log) PROVE d.magic /\ \E s : Tidy(View(d), s)
    <3>1. CASE d \in ToSet(m.log)
      BY <2>1, <3>1 DEF Kept
    <3>2. CASE d.magic = m.disk.magic /\ View(d) = View(m.disk)
      BY <1>1, <3>2
    <3>. QED
      BY <2>1, <3>1, <3>2 DEF SameTree
  <2>. QED
    BY <2>1 DEF Kept
<1>. QED
  BY <1>2, <1>3

LEMMA WriteFileHere ==
    ASSUME NEW b, NEW m, NEW r, NEW w, At(b, m, r, w), NEW name, GetDirEntry(m, name).type # "dir",
           name \notin Dots \union {"/"} \/ GetDirEntry(m, name).type = "file",
           NEW units, IsSeq(units), NEW n, n = WriteToFile(m, name, units), ~Off(n.disk.blockBits)
    PROVE  At(b, n, r, w) /\ (Kept(m) => Kept(n))
<1>1. CASE GetDirEntry(m, name) = NoEntry
  <2>1. n = m
    BY <1>1, NoEntryIs DEF WriteToFile, NoEntryFacts
  <2>. QED
    BY <2>1
<1>2. CASE \E i : Names3(m, r, name, i)
  <2>1. PICK i : Names3(m, r, name, i)
    BY <1>2
  <2>. DEFINE x == GetDirEntry(m, name).ino
  <2>2. x \in Ino /\ x # 0 /\ View(m.disk).types[x] # "dir"
    BY <2>1 DEF Names3, Child, Ino
  <2>3. n = WriteInode(m, units, x)
    BY <2>2 DEF WriteToFile
  <2>4. Sound(b, m)
    BY AtFacts
  <2>. HIDE DEF x
  <2>5. /\ Sound(b, n) /\ Stands(n, m) /\ n.disk.magic = m.disk.magic /\ View(n.disk) = View(m.disk)
        /\ \A d \in ToSet(n.log) : \/ d \in ToSet(m.log) \/ d = n.disk
                                   \/ d.magic = m.disk.magic /\ View(d) = View(m.disk)
    BY <2>2, <2>3, <2>4, WriteFileLooks
  <2>6. SameTree(n, m)
    BY <2>5 DEF SameTree
  <2>. QED
    BY <2>5, <2>6, SameTreeStays
<1>. QED
  BY <1>1, <1>2, FindsPlain

LEMMA DeleteFileHere ==
    ASSUME NEW b, NEW m, NEW r, NEW w, At(b, m, r, w), NEW name,
           NEW n, n = DeleteFile(m, name), ~Off(n.disk.blockBits)
    PROVE  \/ n = m
           \/ \E i : /\ Names3(m, r, name, i) /\ m.list[i].type = "file"
                     /\ At(b, n, r, w) /\ n.cwd = m.cwd /\ n.path = m.path /\ n.list = RemoveAt(m.list, i)
                     /\ Loses(View(m.disk), View(n.disk), m.cwd, i)
                     /\ View(n.disk).bits = View(m.disk).bits \ {m.list[i].ino}
<1>1. CASE GetDirEntry(m, name).type # "file"
  BY <1>1 DEF DeleteFile
<1>2. CASE GetDirEntry(m, name).type = "file"
  <2>1. PICK i : Names3(m, r, name, i)
    BY <1>2, FindsPlain, NoEntryIs DEF NoEntryFacts
  <2>. DEFINE k == DeleteInode(m, m.list[i].ino)
  <2>2. n = RemoveDirEntryFromPath(k, name)
    BY <1>2, <2>1 DEF DeleteFile, Names3
  <2>3. Sound(b, m)
    BY AtFacts
  <2>. HIDE DEF k
  <2>4. Sound(b, k) /\ Frees(k, m, m.list[i].ino)
    BY <2>3, DeleteEffect DEF k
  <2>5. Opens(m, k, i) /\ Finds(m, name, i) /\ i >= 3 /\ View(k.disk).bits = View(m.disk).bits \ {m.list[i].ino}
        /\ m.list[i].type = "file"
    <3>1. m.list[i].type = "file" /\ m.list[i].type # "dir"
      BY <1>2, <2>1 DEF Names3
    <3>. QED
      BY <2>1, <2>4, <3>1 DEF Frees, Opens, Names3
  <2>6. /\ At(b, n, r, w) /\ n.cwd = m.cwd /\ n.path = m.path /\ n.list = RemoveAt(m.list, i)
        /\ Loses(View(m.disk), View(n.disk), m.cwd, i)
        /\ View(n.disk).bits = View(k.disk).bits
    BY <2>2, <2>4, <2>5, RemoveHere
  <2>. QED
    BY <2>1, <2>5, <2>6
<1>. QED
  BY <1>1, <1>2

\* The entry of a name is taken out, its inode is kept.
TakesOut(n, m, r, i) ==
    /\ n.cwd = m.cwd /\ n.path = m.path /\ n.list = RemoveAt(m.list, i)
    /\ Loses(View(m.disk), View(n.disk), m.cwd, i) /\ View(n.disk).bits = View(m.disk).bits
    /\ Child(View(n.disk), r, m.cwd, m.list[i]) /\ Unnamed(View(n.disk), m.list[i].ino)
    /\ Len(n.list) = Len(m.list) - 1
    /\ \A j \in 1..Len(n.list) : n.list[j] = IF j < i THEN m.list[j] ELSE m.list[j + 1]

LEMMA TakeOutHere ==
    ASSUME NEW b, NEW m, NEW r, NEW w, At(b, m, r, w), NEW name, NEW i, Names3(m, r, name, i),
           NEW n, n = RemoveDirEntryFromPath(m, name), ~Off(n.disk.blockBits)
    PROVE  At(b, n, r, w) /\ TakesOut(n, m, r, i)
<1>1. Sound(b, m) /\ Tidy(View(m.disk), r) /\ m.cwd \in View(m.disk).bits \ {FATHER} /\ DirIn(View(m.disk), m.cwd)
      /\ m.list = View(m.disk).lists[m.cwd] /\ IsSeq(m.list) /\ Len(m.list) \in Nat
  BY AtFacts
<1>2. Opens(m, m, i) /\ Finds(m, name, i) /\ i >= 3 /\ i \in 3..Len(m.list)
  BY DEF Opens, Stands, Names3
<1>3. /\ At(b, n, r, w) /\ n.cwd = m.cwd /\ n.path = m.path /\ n.list = RemoveAt(m.list, i)
      /\ Loses(View(m.disk), View(n.disk), m.cwd, i)
      /\ View(n.disk).bits = View(m.disk).bits
  BY <1>1, <1>2, RemoveHere
<1>4. Child(View(n.disk), r, m.cwd, m.list[i]) /\ Unnamed(View(n.disk), m.list[i].ino)
  <2>. DEFINE V == View(m.disk)
              W == View(n.disk)
  <2>1. Tidy(V, r) /\ m.cwd \in V.bits \ {FATHER} /\ DirIn(V, m.cwd) /\ i \in 3..Len(V.lists[m.cwd])
        /\ Loses(V, W, m.cwd, i) /\ W.bits = V.bits /\ m.list[i] = V.lists[m.cwd][i]
    BY <1>1, <1>2, <1>3
  <2>. HIDE DEF V, W
  <2>2. Child(W, r, m.cwd, V.lists[m.cwd][i]) /\ Unnamed(W, V.lists[m.cwd][i].ino)
    BY <2>1, CutTidy
  <2>. QED
    BY <2>1, <2>2 DEF W
<1>5. i \in 1..Len(m.list)
  BY <1>1, <1>2
<1>6. Len(n.list) = Len(m.list) - 1
      /\ \A j \in 1..Len(n.list) : n.list[j] = IF j < i THEN m.list[j] ELSE m.list[j + 1]
  <2>1. /\ Len(RemoveAt(m.list, i)) = Len(m.list) - 1
        /\ \A j \in 1..Len(m.list) - 1 : RemoveAt(m.list, i)[j] = IF j < i THEN m.list[j] ELSE m.list[j + 1]
    BY <1>1, <1>5, RemoveFacts
  <2>. QED
    BY <1>3, <2>1
<1>. QED
  BY <1>3, <1>4, <1>6 DEF TakesOut

LEMMA RenameHere ==
    ASSUME NEW b, NEW m, NEW r, NEW w, At(b, m, r, w), NEW src, src \notin Dots \union {"/"},
           NEW new, new \notin Dots \union {"/"},
           NEW n, n = RenameEntry(m, src, new), ~Off(n.disk.blockBits)
    PROVE  Leaves(b, n)
<1>1. CASE GetDirEntry(m, src) = NoEntry
  <2>1. n = m
    BY <1>1, NoEntryIs DEF RenameEntry, NoEntryFacts
  <2>. QED
    BY <2>1 DEF Leaves
<1>2. CASE \E i : Names3(m, r, src, i)
  <2>1. PICK i : Names3(m, r, src, i)
    BY <1>2
  <2>. DEFINE k == RemoveDirEntryFromPath(m, src)
              e == [m.list[i] EXCEPT !.name = new]
  <2>2. n = AddDirEntryToPath(k, e)
    <3>1. m.list[i].ino # 0
      BY <2>1 DEF Names3, Ino
    <3>. QED
      BY <2>1, <3>1 DEF RenameEntry, Names3
  <2>3. m.list[i] = Entry(m.list[i].name, m.list[i].ino, m.list[i].type)
    BY <2>1 DEF Names3, Child
  <2>4. e.name = new /\ e.ino = m.list[i].ino /\ e.type = m.list[i].type /\ e = Entry(e.name, e.ino, e.type)
    BY <2>3 DEF Entry
  <2>5. Sound(b, k) /\ ~Off(k.disk.blockBits)
    <3>1. Sound(b, k)
      BY AtFacts, RemoveDirEntrySound
    <3>. HIDE DEF k, e
    <3>. QED
      BY <2>2, <3>1, AddOff
  <2>. HIDE DEF e
  <2>6. At(b, k, r, w) /\ TakesOut(k, m, r, i)
    BY <2>1, <2>5, TakeOutHere
  <2>. HIDE DEF k
  <2>7. Child(View(k.disk), r, k.cwd, e) /\ Unnamed(View(k.disk), e.ino)
    BY <2>4, <2>6 DEF TakesOut, Child
  <2>8. Len(k.list) < NumPtrs * BlockUnits
    <3>1. Len(m.list) <= NumPtrs * BlockUnits /\ Len(m.list) \in Nat /\ NumPtrs * BlockUnits \in Nat
      BY AtFacts, ListFacts, Constants
    <3>. QED
      BY <2>6, <3>1 DEF TakesOut
  <2>9. At(b, n, r, w)
    BY <2>2, <2>4, <2>6, <2>7, <2>8, AddHere
  <2>. QED
    BY <2>9 DEF Leaves
<1>. QED
  BY <1>1, <1>2, FindsPlain

LEMMA ChangeDirDisk ==
    ASSUME NEW b, NEW m, Sound(b, m), NEW name
    PROVE  ChangeDir(m, name).disk = m.disk
BY DEF ChangeDir, Sound, IsMachine

\* mv to the parent directory.
LEMMA MoveUpHere ==
    ASSUME NEW b, NEW m, NEW r, NEW w, At(b, m, r, w), NEW src, src \notin Dots \union {"/"},
           GetDirEntry(m, src).type # "dir", m.cwd # ROOT,
           Len(View(m.disk).lists[GetDirEntry(m, "..").ino]) < NumPtrs * BlockUnits,
           NEW n, n = MoveUp(m, src), ~Off(n.disk.blockBits)
    PROVE  Leaves(b, n)
<1>1. CASE GetDirEntry(m, src) = NoEntry
  <2>1. n = m
    BY <1>1, NoEntryIs DEF MoveUp, NoEntryFacts
  <2>. QED
    BY <2>1 DEF Leaves
<1>2. CASE \E i : Names3(m, r, src, i)
  <2>1. PICK i : Names3(m, r, src, i)
    BY <1>2
  <2>. DEFINE k == RemoveDirEntryFromPath(m, src)
              u == ChangeDir(k, "..")
              e == m.list[i]
  <2>2. n = AddDirEntryToPath(u, e)
    <3>1. m.list[i].ino # 0
      BY <2>1 DEF Names3, Ino
    <3>. QED
      BY <2>1, <3>1 DEF MoveUp, Names3
  <2>3. e.type # "dir" /\ e.name \notin Dots \union {"/"}
    BY <2>1 DEF Names3
  <2>. HIDE DEF e
  <2>4. Sound(b, k) /\ u.disk = k.disk /\ Sound(b, u)
    <3>1. Sound(b, k)
      BY AtFacts, RemoveDirEntrySound
    <3>. HIDE DEF k
    <3>. QED
      BY <3>1, ChangeDirDisk, ChangeDirSound
  <2>5. ~Off(k.disk.blockBits)
    <3>. HIDE DEF k, u
    <3>. QED
      BY <2>2, <2>4, AddOff
  <2>6. At(b, k, r, w) /\ TakesOut(k, m, r, i)
    BY <2>1, <2>5, TakeOutHere
  <2>. HIDE DEF k
  <2>7. k.cwd # ROOT
    BY <2>6 DEF TakesOut
  <2>. HIDE DEF u
  <2>8. /\ At(b, u, r, w) /\ Reads(u, k) /\ Len(k.path) >= 1 /\ u.cwd = w[Len(k.path) - 1]
    <3>1. u = ChangeDir(k, "..")
      BY DEF u
    <3>. QED
      BY <2>6, <2>7, <3>1, CdUp
  <2>. DEFINE V == View(k.disk)
              l == Len(k.path)
  <2>9. /\ Tidy(V, r) /\ Walk(V, k.path, w) /\ l \in Nat /\ k.cwd = w[l]
    BY <2>6, AtFacts, WithinFacts DEF Within
  <2>10. r[u.cwd] < r[k.cwd] /\ r[u.cwd] \in Nat /\ r[k.cwd] \in Nat
    <3>1. l - 1 \in 0..Len(k.path) /\ l \in 0..Len(k.path) /\ l - 1 < l
      BY <2>8, <2>9
    <3>2. r[w[l - 1]] < r[w[l]]
      <4>. HIDE DEF V
      <4>. QED
        BY <2>9, <3>1, WalkRises
    <3>3. u.cwd \in Ino /\ k.cwd \in Ino
      BY <2>6, <2>8, AtFacts
    <3>. QED
      BY <2>8, <2>9, <3>2, <3>3, ListFacts
  <2>11. Child(View(u.disk), r, u.cwd, e) /\ Unnamed(View(u.disk), e.ino)
    <3>1. Child(V, r, k.cwd, e) /\ Unnamed(V, e.ino)
      BY <2>6 DEF TakesOut, e
    <3>2. e.ino \in Ino
      BY <2>9, <3>1, TidyParts DEF Child
    <3>3. r[e.ino] \in Nat
      BY <2>9, <3>2, ListFacts
    <3>4. r[u.cwd] < r[e.ino]
      BY <2>10, <3>1, <3>3 DEF Child
    <3>. QED
      BY <2>3, <2>8, <3>1, <3>4 DEF Child, Reads
  <2>12. Len(u.list) < NumPtrs * BlockUnits
    <3>1. GetDirEntry(m, "..").ino = u.cwd
      <4>1. GetDirEntry(m, "..") = m.list[2] /\ GetDirEntry(k, "..") = k.list[2] /\ GetDirEntry(k, "..").type = "dir"
        BY <2>6, FindsDots
      <4>2. k.list[2] = m.list[2]
        <5>1. i \in 3..Len(m.list) /\ Len(m.list) \in Nat
          BY <2>1, AtFacts DEF Names3
        <5>2. 2 \in 1..Len(k.list) /\ 2 < i
          BY <2>6, <5>1 DEF TakesOut
        <5>. QED
          BY <2>6, <5>2 DEF TakesOut
      <4>3. u.cwd = GetDirEntry(k, "..").ino
        <5>1. Goes(u, k, GetDirEntry(k, "..").ino, PathAfter(k, "..", GetDirEntry(k, "..").ino))
          BY <4>1, ChangeDirGoes DEF CanEnter, u
        <5>. QED
          BY <2>4, <5>1 DEF Goes, Sound, IsMachine
      <4>. QED
        BY <4>1, <4>2, <4>3
    <3>2. u.cwd # k.cwd /\ k.cwd = m.cwd /\ u.cwd \in Ino
      BY <2>6, <2>8, <2>10, AtFacts DEF TakesOut
    <3>3. View(k.disk).lists[u.cwd] = View(m.disk).lists[u.cwd]
      BY <2>6, <3>2 DEF TakesOut, Loses
    <3>4. u.list = View(k.disk).lists[u.cwd]
      BY <2>8, AtFacts DEF Reads
    <3>. QED
      BY <3>1, <3>3, <3>4
  <2>13. At(b, n, r, w)
    BY <2>2, <2>3, <2>8, <2>11, <2>12, AddHere
  <2>. QED
    BY <2>13 DEF Leaves
<1>. QED
  BY <1>1, <1>2, FindsPlain

\* mv to a directory that is here: to it and back, the entry taken out, to it
\* again with the entry, and back.
LEMMA MoveDownHere ==
    ASSUME NEW b, NEW m, NEW r, NEW w, At(b, m, r, w), NEW src, src \notin Dots \union {"/"},
           NEW dest, dest \notin Dots \union {"/"}, GetDirEntry(m, src).type # "dir",
           CanEnter(m, dest) => LET y == GetDirEntry(m, dest).ino
                                IN  /\ Len(View(m.disk).lists[y]) >= 2
                                    /\ Len(View(m.disk).lists[y]) < NumPtrs * BlockUnits,
           NEW n, n = MoveDown(m, src, dest), ~Off(n.disk.blockBits)
    PROVE  Leaves(b, n)
<1>1. CASE GetDirEntry(m, src) = NoEntry \/ ~CanEnter(m, dest)
  <2>1. n = m
    BY <1>1, NoEntryIs DEF MoveDown, NoEntryFacts
  <2>. QED
    BY <2>1 DEF Leaves
<1>2. CASE (\E i : Names3(m, r, src, i)) /\ CanEnter(m, dest)
  <2>1. PICK i : Names3(m, r, src, i)
    BY <1>2
  <2>2. PICK j : Names3(m, r, dest, j)
    <3>1. GetDirEntry(m, dest) # NoEntry
      BY <1>2, NoEntryIs DEF CanEnter, NoEntryFacts
    <3>. QED
      BY <3>1, FindsPlain
  <2>. DEFINE e == m.list[i]
              x == m.list[j].ino
              l == Len(m.path)
              p == ChangeDir(m, dest)
              q == ChangeDir(p, "..")
              k == RemoveDirEntryFromPath(q, src)
              u == ChangeDir(k, dest)
              a == AddDirEntryToPath(u, e)
  <2>3. n = ChangeDir(a, "..")
    <3>1. m.list[i].ino # 0
      BY <2>1 DEF Names3, Ino
    <3>. QED
      BY <1>2, <2>1, <3>1 DEF MoveDown, Names3
  <2>4. e.type # "dir" /\ m.list[j].type = "dir" /\ e.name \notin Dots \union {"/"} /\ i # j /\ src # dest
    BY <1>2, <2>1, <2>2 DEF CanEnter, Names3
  <2>5. Len(View(m.disk).lists[x]) >= 2 /\ Len(View(m.disk).lists[x]) < NumPtrs * BlockUnits
    BY <1>2, <2>2 DEF Names3
  <2>6. /\ Sound(b, m) /\ Len(m.list) \in Nat /\ l \in Nat /\ m.cwd = w[l]
    BY AtFacts, WithinFacts
  <2>7. PICK v : Onto(v, w, l, x)
    BY <2>6, OntoExists
  <2>. HIDE DEF x, l, e, p, q, k, u, a
  <2>8. At(b, p, r, v) /\ Reads(p, m) /\ p.path = Append(m.path, dest) /\ p.cwd = x
    <3>1. Finds(m, dest, j) /\ j >= 3
      BY <2>2 DEF Names3
    <3>2. p = ChangeDir(m, dest) /\ Onto(v, w, Len(m.path), m.list[j].ino)
      BY <2>7 DEF p, x, l
    <3>3. GoesDown(b, m, r, w, dest, j, p, v)
      BY <2>4, <2>5, <3>1, <3>2 DEF GoesDown, x
    <3>4. IsDown(b, m, r, dest, j, p, v)
      BY <3>3, CdDownIs
    <3>. QED
      BY <3>4 DEF IsDown, x
  <2>9. x \in View(m.disk).bits \ {FATHER, ROOT, m.cwd} /\ x \in Ino
    BY <2>2 DEF Names3, x
  <2>10. IsSeq(m.path) /\ Len(p.path) = l + 1
    <3>1. IsSeq(m.path)
      BY AtFacts DEF Within, Walk
    <3>. QED
      BY <2>8, <3>1, AppendIsSeq DEF l
  <2>11. /\ At(b, q, r, v) /\ Reads(q, m) /\ q.cwd = m.cwd /\ Len(q.path) = l
    <3>1. p.cwd # ROOT
      BY <2>8, <2>9
    <3>2. /\ At(b, q, r, v) /\ Reads(q, p) /\ q.cwd = v[Len(p.path) - 1] /\ Len(q.path) = Len(p.path) - 1
      <4>1. q = ChangeDir(p, "..")
        BY DEF q
      <4>2. At(b, p, r, v)
        BY <2>8
      <4>3. GoesUp(b, p, r, v, q)
        BY <3>1, <4>1, <4>2 DEF GoesUp
      <4>4. IsUp(b, p, r, v, q)
        BY <4>3, CdUpIs
      <4>. QED
        BY <4>4 DEF IsUp
    <3>3. Len(p.path) - 1 = l /\ l \in 0..l
      BY <2>6, <2>10
    <3>. QED
      BY <2>6, <2>7, <2>8, <3>2, <3>3 DEF Reads, Onto
  <2>12. q.list = m.list
    BY <2>11, AtFacts DEF Reads
  <2>13. Names3(q, r, src, i) /\ Names3(q, r, dest, j)
    <3>1. Finds(q, src, i) /\ i >= 3 /\ Finds(q, dest, j) /\ j >= 3
      BY <2>1, <2>2, <2>12 DEF Names3, Finds
    <3>. QED
      BY <2>11, <3>1, ThirdOn
  <2>14. /\ Sound(b, k) /\ u.disk = k.disk /\ Sound(b, u) /\ Sound(b, a) /\ n.disk = a.disk
    <3>1. Sound(b, k)
      BY <2>11, AtFacts, RemoveDirEntrySound DEF k
    <3>2. u.disk = k.disk /\ Sound(b, u)
      BY <3>1, ChangeDirDisk, ChangeDirSound DEF u
    <3>3. Sound(b, a)
      BY <3>2, AddDirEntrySound DEF a
    <3>. QED
      BY <2>3, <3>1, <3>2, <3>3, ChangeDirDisk
  <2>15. ~Off(a.disk.blockBits) /\ ~Off(k.disk.blockBits)
    BY <2>14, AddOff DEF a
  <2>16. At(b, k, r, v) /\ TakesOut(k, q, r, i)
    BY <2>11, <2>13, <2>15, TakeOutHere DEF k
  <2>17. PICK h : Finds(k, dest, h) /\ h >= 3 /\ k.list[h] = m.list[j]
    <3>. DEFINE h == IF j < i THEN j ELSE j - 1
    <3>1. i \in 3..Len(m.list) /\ j \in 3..Len(m.list) /\ m.list[j].name = dest
      BY <2>1, <2>2 DEF Names3, Finds
    <3>2. h \in 1..Len(k.list) /\ h >= 3 /\ (h < i => j = h) /\ (~(h < i) => j = h + 1)
      BY <2>4, <2>6, <2>12, <2>16, <3>1 DEF TakesOut
    <3>. HIDE DEF h
    <3>3. k.list[h] = m.list[j]
      BY <2>12, <2>16, <3>2 DEF TakesOut
    <3>. QED
      BY <3>1, <3>2, <3>3 DEF Finds
  <2>18. Len(k.path) = l /\ k.cwd = m.cwd
    BY <2>11, <2>16 DEF TakesOut
  <2>19. View(k.disk).lists[x] = View(m.disk).lists[x]
    BY <2>9, <2>11, <2>16 DEF TakesOut, Loses, Reads
  <2>20. PICK z : Onto(z, v, l, x)
    BY <2>6, OntoExists
  <2>21. At(b, u, r, z) /\ Reads(u, k) /\ u.cwd = x
    <3>1. Finds(k, dest, h) /\ h >= 3 /\ k.list[h].type = "dir" /\ k.list[h].ino = x
      BY <2>4, <2>17 DEF x
    <3>2. Len(View(k.disk).lists[k.list[h].ino]) >= 2 /\ Onto(z, v, Len(k.path), k.list[h].ino)
      BY <2>5, <2>18, <2>19, <2>20, <3>1
    <3>3. u = ChangeDir(k, dest)
      BY DEF u
    <3>4. At(b, u, r, z) /\ Reads(u, k) /\ u.cwd = k.list[h].ino
      <4>1. At(b, k, r, v)
        BY <2>16
      <4>2. Finds(k, dest, h) /\ h >= 3 /\ k.list[h].type = "dir"
        BY <3>1
      <4>. QED
        BY <3>2, <3>3, <4>1, <4>2, CdDown
    <3>. QED
      BY <3>1, <3>4
  <2>. DEFINE V == View(u.disk)
  <2>22. Child(V, r, m.cwd, e) /\ Unnamed(V, e.ino) /\ Tidy(V, r)
    BY <2>11, <2>12, <2>16, <2>21, AtFacts DEF TakesOut, Reads, e
  <2>23. x \in V.bits /\ V.types[x] = "dir"
    BY <2>21, AtFacts DEF DirIn
  <2>24. e.ino \in V.bits \ {FATHER, ROOT} /\ V.types[e.ino] # "dir" /\ x # e.ino
    <3>1. V.types[ROOT] = "dir"
      BY <2>22, TidyParts
    <3>. QED
      BY <2>4, <2>22, <2>23, <3>1 DEF Child
  <2>. DEFINE s == [r EXCEPT ![e.ino] = r[x] + 1]
  <2>25. Deepens(s, r, e.ino, x)
    BY DEF Deepens
  <2>. HIDE DEF s, V
  <2>26. Tidy(V, s) /\ s[x] < s[e.ino]
    BY <2>22, <2>23, <2>24, <2>25, RankTidy
  <2>27. At(b, u, s, z)
    BY <2>21, <2>26 DEF At, Neat, V
  <2>28. Child(V, s, x, e)
    BY <2>4, <2>22, <2>26 DEF Child
  <2>29. At(b, a, s, z) /\ a.cwd = x
    <3>1. Child(View(u.disk), s, u.cwd, e) /\ Unnamed(View(u.disk), e.ino)
      BY <2>21, <2>22, <2>28 DEF V
    <3>2. Len(u.list) < NumPtrs * BlockUnits
      <4>1. u.list = View(u.disk).lists[x]
        BY <2>21, AtFacts
      <4>. QED
        BY <2>5, <2>19, <2>21, <4>1 DEF Reads
    <3>. QED
      BY <2>4, <2>15, <2>21, <2>27, <3>1, <3>2, AddHere DEF a
  <2>30. At(b, n, s, z)
    BY <2>3, <2>9, <2>29, CdUp
  <2>. QED
    BY <2>30 DEF Leaves
<1>. QED
  BY <1>1, <1>2, FindsPlain

---------------------------------------------------------------------------
(* rmdir: what is still to do, and how deep.                               *)

LEMMA TailFacts ==
    ASSUME NEW s, IsSeq(s), s # <<>>
    PROVE  /\ IsSeq(Tail(s)) /\ Len(s) \in Nat \ {0} /\ Len(Tail(s)) = Len(s) - 1 /\ Head(s) = s[1]
           /\ \A k \in 1..Len(s) - 1 : Tail(s)[k] = s[k + 1]
<1>1. PICK S : s \in Seq(S)
  BY DEF IsSeq
<1>2. Tail(s) \in Seq(S) /\ Len(s) \in Nat \ {0} /\ Len(Tail(s)) = Len(s) - 1 /\ Head(s) = s[1]
      /\ \A k \in 1..Len(s) - 1 : Tail(s)[k] = s[k + 1]
  BY <1>1
<1>. QED
  BY <1>2 DEF IsSeq

\* U holds all that is below its members, and mkdir finished each directory.
Heaped(V, U) ==
    /\ U \subseteq Ino
    /\ \A x \in U : DirIn(V, x) =>
          /\ Len(V.lists[x]) >= 2
          /\ \A i \in 3..Len(V.lists[x]) : V.lists[x][i].ino \in U

LEMMA HeapShrinks ==
    ASSUME NEW V, NEW r, Tidy(V, r), NEW x \in V.bits \ {FATHER}, DirIn(V, x), NEW i \in 3..Len(V.lists[x]),
           NEW W, Loses(V, W, x, i), NEW U, Heaped(V, U)
    PROVE  Heaped(W, U)
<1>1. /\ x \in Ino /\ IsSeq(V.lists[x]) /\ Len(V.lists[x]) \in Nat /\ i \in 1..Len(V.lists[x])
  BY ListFacts, TidyParts
<1>2. /\ Len(W.lists[x]) = Len(V.lists[x]) - 1
      /\ \A j \in 1..Len(V.lists[x]) - 1 : W.lists[x][j] = IF j < i THEN V.lists[x][j] ELSE V.lists[x][j + 1]
  <2>. DEFINE s == V.lists[x]
  <2>1. W.lists[x] = RemoveAt(s, i)
    BY DEF Loses
  <2>2. IsSeq(s) /\ i \in 1..Len(s)
    BY <1>1
  <2>. HIDE DEF s
  <2>3. /\ Len(RemoveAt(s, i)) = Len(s) - 1
        /\ \A j \in 1..Len(s) - 1 : RemoveAt(s, i)[j] = IF j < i THEN s[j] ELSE s[j + 1]
    BY <2>2, RemoveFacts
  <2>. QED
    BY <2>1, <2>3 DEF s
<1>3. ASSUME NEW z \in U, DirIn(W, z)
      PROVE  Len(W.lists[z]) >= 2 /\ \A j \in 3..Len(W.lists[z]) : W.lists[z][j].ino \in U
  <2>1. z \in Ino
    BY <1>3 DEF Heaped
  <2>2. DirIn(V, z)
    BY <1>3, <2>1, TidyParts DEF Loses, DirIn
  <2>3. Len(V.lists[z]) >= 2 /\ \A j \in 3..Len(V.lists[z]) : V.lists[z][j].ino \in U
    BY <1>3, <2>2 DEF Heaped
  <2>4. CASE z # x
    BY <2>1, <2>3, <2>4 DEF Loses
  <2>5. CASE z = x
    <3>1. Len(W.lists[z]) >= 2
      BY <1>1, <1>2, <2>5
    <3>2. ASSUME NEW j \in 3..Len(W.lists[z]) PROVE W.lists[z][j].ino \in U
      <4>1. /\ j \in 1..Len(V.lists[x]) - 1 /\ j \in 3..Len(V.lists[x]) /\ j + 1 \in 3..Len(V.lists[x])
        BY <1>1, <1>2, <2>5, <3>2
      <4>2. W.lists[z][j] = V.lists[z][j] \/ W.lists[z][j] = V.lists[z][j + 1]
        BY <1>2, <2>5, <4>1
      <4>. QED
        BY <2>3, <2>5, <4>1, <4>2
    <3>. QED
      BY <3>1, <3>2
  <2>. QED
    BY <2>4, <2>5
<1>. QED
  BY <1>3 DEF Heaped

\* An entry to delete, or the directory at depth l of the walk to leave.
Asked(t) == t.type \in {"dir", "file"} /\ t.name \notin Dots \union {"/"}
Left(t, p, w, l) == t.type = "leave" /\ t.name = p[l] /\ t.ino = w[l]

\* What is still to do lies ever less deep, and below the directory of the command.
Stacked(todo, g, p, w, base) ==
    /\ \A k \in 1..Len(todo) : g[k] \in Int /\ base < g[k] /\ g[k] <= Len(p)
    /\ Len(todo) >= 1 => g[1] = Len(p)
    /\ \A k \in 1..Len(todo) - 1 : g[k + 1] = IF todo[k].type = "leave" THEN g[k] - 1 ELSE g[k]
    /\ \A j, k \in 1..Len(todo) : j <= k => g[k] <= g[j]
    /\ \A k \in 1..Len(todo) : Asked(todo[k]) \/ Left(todo[k], p, w, g[k])

LEMMA StackTail ==
    ASSUME NEW todo, IsSeq(todo), todo # <<>>, NEW g, NEW p, NEW w, NEW base \in Nat, Stacked(todo, g, p, w, base),
           NEW q, Len(p) \in Nat, Len(q) \in Nat,
           Len(q) = (IF Head(todo).type = "leave" THEN Len(p) - 1 ELSE Len(p)),
           \A k \in 1..Len(q) : q[k] = p[k]
    PROVE  \E h : Stacked(Tail(todo), h, q, w, base)
<1>. DEFINE n == Len(todo)
            h == [k \in 1..(n - 1) |-> g[k + 1]]
            s == Tail(todo)
<1>1. n \in Nat \ {0} /\ Len(s) = n - 1 /\ Head(todo) = todo[1] /\ \A k \in 1..n - 1 : s[k] = todo[k + 1]
  BY TailFacts
<1>2. \A k \in 1..Len(s) : h[k] = g[k + 1] /\ s[k] = todo[k + 1] /\ k + 1 \in 1..n /\ k \in 1..n
  BY <1>1
<1>3. g[1] = Len(p) /\ 1 \in 1..n
  BY <1>1 DEF Stacked
<1>4. Len(s) >= 1 => h[1] = Len(q)
  <2>1. ASSUME Len(s) >= 1 PROVE h[1] = Len(q)
    <3>1. 1 \in 1..Len(s) /\ 1 \in 1..n - 1
      BY <1>1, <2>1
    <3>2. h[1] = g[2] /\ g[2] = IF todo[1].type = "leave" THEN g[1] - 1 ELSE g[1]
      BY <1>2, <3>1 DEF Stacked
    <3>. QED
      BY <1>1, <1>3, <3>2
  <2>. QED
    BY <2>1
<1>. HIDE DEF h, s
<1>5. \A k \in 1..Len(s) : h[k] \in Int /\ base < h[k] /\ h[k] <= Len(q)
  <2>1. ASSUME NEW k \in 1..Len(s) PROVE h[k] \in Int /\ base < h[k] /\ h[k] <= Len(q)
    <3>1. h[k] \in Int /\ base < h[k]
      BY <1>2, <2>1 DEF Stacked
    <3>2. 1 \in 1..Len(s) /\ h[1] = g[2] /\ 2 \in 1..n /\ 2 <= k + 1 /\ k + 1 \in 1..n /\ h[1] = Len(q)
      BY <1>1, <1>2, <1>4, <2>1
    <3>3. g[k + 1] <= g[2]
      BY <3>2 DEF Stacked
    <3>. QED
      BY <1>2, <3>1, <3>2, <3>3
  <2>. QED
    BY <2>1
<1>6. \A k \in 1..Len(s) - 1 : h[k + 1] = IF s[k].type = "leave" THEN h[k] - 1 ELSE h[k]
  <2>1. ASSUME NEW k \in 1..Len(s) - 1 PROVE h[k + 1] = IF s[k].type = "leave" THEN h[k] - 1 ELSE h[k]
    <3>1. k \in 1..Len(s) /\ k + 1 \in 1..Len(s) /\ k + 1 \in 1..n - 1
      BY <1>1, <2>1
    <3>2. g[k + 1 + 1] = IF todo[k + 1].type = "leave" THEN g[k + 1] - 1 ELSE g[k + 1]
      BY <3>1 DEF Stacked
    <3>. QED
      BY <1>2, <3>1, <3>2
  <2>. QED
    BY <2>1
<1>7. \A j, k \in 1..Len(s) : j <= k => h[k] <= h[j]
  <2>1. ASSUME NEW j \in 1..Len(s), NEW k \in 1..Len(s), j <= k PROVE h[k] <= h[j]
    <3>1. j + 1 \in 1..n /\ k + 1 \in 1..n /\ j + 1 <= k + 1
      BY <1>2, <2>1
    <3>2. g[k + 1] <= g[j + 1]
      BY <3>1 DEF Stacked
    <3>. QED
      BY <1>2, <3>2
  <2>. QED
    BY <2>1
<1>8. \A k \in 1..Len(s) : Asked(s[k]) \/ Left(s[k], q, w, h[k])
  <2>1. ASSUME NEW k \in 1..Len(s) PROVE Asked(s[k]) \/ Left(s[k], q, w, h[k])
    <3>1. s[k] = todo[k + 1] /\ h[k] = g[k + 1] /\ k + 1 \in 1..n
      BY <1>2
    <3>2. Asked(todo[k + 1]) \/ Left(todo[k + 1], p, w, g[k + 1])
      BY <3>1 DEF Stacked
    <3>3. h[k] \in 1..Len(q)
      BY <1>5
    <3>4. q[h[k]] = p[h[k]]
      BY <3>3
    <3>. QED
      BY <3>1, <3>2, <3>4 DEF Left
  <2>. QED
    BY <2>1
<1>9. Stacked(s, h, q, w, base)
  BY <1>4, <1>5, <1>6, <1>7, <1>8 DEF Stacked
<1>. QED
  BY <1>9 DEF s

\* A directory is entered: the entries items are to do first, then to leave it.
Pushes(todo, g, p, w, base, q, v, items, t, n) ==
    /\ IsSeq(todo) /\ todo # <<>> /\ \E low : Stacked(todo, g, p, w, low)
    /\ base \in Nat /\ base <= Len(p) /\ \A k \in 2..Len(todo) : base < g[k]
    /\ Head(todo).type # "leave" /\ Len(p) \in Nat
    /\ Len(q) = Len(p) + 1 /\ \A k \in 1..Len(p) : q[k] = p[k]
    /\ \A k \in 0..Len(p) : v[k] = w[k]
    /\ IsSeq(items) /\ \A k \in 1..Len(items) : Asked(items[k])
    /\ Left(t, q, v, Len(q))
    /\ n = (items \o <<t>>) \o Tail(todo)

Pushed(n, q, v, base) == IsSeq(n) /\ \E h : Stacked(n, h, q, v, base)

LEMMA StackPushes ==
    ASSUME NEW todo, NEW g, NEW p, NEW w, NEW base, NEW q, NEW v, NEW items, NEW t, NEW n,
           Pushes(todo, g, p, w, base, q, v, items, t, n)
    PROVE  Pushed(n, q, v, base)
<1>. SUFFICES ASSUME IsSeq(todo), todo # <<>>, NEW low, Stacked(todo, g, p, w, low),
                     base \in Nat, base <= Len(p), \A k \in 2..Len(todo) : base < g[k],
                     Head(todo).type # "leave", Len(p) \in Nat,
                     Len(q) = Len(p) + 1, \A k \in 1..Len(p) : q[k] = p[k],
                     \A k \in 0..Len(p) : v[k] = w[k],
                     IsSeq(items), \A k \in 1..Len(items) : Asked(items[k]),
                     Left(t, q, v, Len(q)),
                     n = (items \o <<t>>) \o Tail(todo)
              PROVE  IsSeq(n) /\ \E h : Stacked(n, h, q, v, base)
  BY DEF Pushes, Pushed
<1>. DEFINE a == Len(items)
            s == Tail(todo)
            one == <<t>>
            l == Len(todo)
<1>1. l \in Nat \ {0} /\ IsSeq(s) /\ Len(s) = l - 1 /\ Head(todo) = todo[1] /\ \A k \in 1..l - 1 : s[k] = todo[k + 1]
  BY TailFacts
<1>2. IsSeq(one) /\ Len(one) = 1 /\ one[1] = t
  BY SingleIsSeq
<1>3. a \in Nat
  BY SeqFacts
<1>. HIDE DEF one, s
<1>4. IsSeq(items \o one) /\ Len(items \o one) = a + 1
      /\ \A k \in 1..a + 1 : (items \o one)[k] = IF k <= a THEN items[k] ELSE one[k - a]
  <2>1. IsSeq(one)
    BY <1>2
  <2>. HIDE DEF a
  <2>2. IsSeq(items \o one) /\ Len(items \o one) = Len(items) + Len(one)
        /\ \A k \in 1..Len(items) + Len(one) : (items \o one)[k] = IF k <= Len(items) THEN items[k] ELSE one[k - Len(items)]
    BY <2>1, ConcatIsSeq
  <2>. QED
    BY <1>2, <2>2 DEF a
<1>. DEFINE front == items \o one
<1>5. n = front \o s
  BY DEF one, s
<1>. HIDE DEF front
<1>6. IsSeq(n) /\ Len(n) = a + 1 + (l - 1)
      /\ \A k \in 1..a + 1 + (l - 1) : n[k] = IF k <= a + 1 THEN front[k] ELSE s[k - (a + 1)]
  <2>1. IsSeq(front \o s) /\ Len(front \o s) = Len(front) + Len(s)
        /\ \A k \in 1..Len(front) + Len(s) : (front \o s)[k] = IF k <= Len(front) THEN front[k] ELSE s[k - Len(front)]
    <3>1. IsSeq(front) /\ IsSeq(s)
      BY <1>1, <1>4 DEF front
    <3>. QED
      BY <3>1, ConcatIsSeq
  <2>. QED
    BY <1>1, <1>4, <1>5, <2>1 DEF front
<1>7. Len(n) = a + l
  BY <1>1, <1>3, <1>6
<1>8. \A k \in 1..a : n[k] = items[k]
  BY <1>1, <1>3, <1>4, <1>6 DEF front
<1>9. n[a + 1] = t
  BY <1>1, <1>2, <1>3, <1>4, <1>6 DEF front
<1>10. \A k \in a + 2..a + l : n[k] = todo[k - a] /\ k - a \in 2..l
  <2>1. ASSUME NEW k \in a + 2..a + l PROVE n[k] = todo[k - a] /\ k - a \in 2..l
    <3>1. k \in 1..a + 1 + (l - 1) /\ ~(k <= a + 1) /\ k - (a + 1) \in 1..l - 1 /\ k - (a + 1) + 1 = k - a /\ k - a \in 2..l
      BY <1>1, <1>3, <2>1
    <3>. QED
      BY <1>1, <1>6, <3>1
  <2>. QED
    BY <2>1
<1>. HIDE DEF a, l
<1>. DEFINE h == [k \in 1..a + l |-> IF k <= a + 1 THEN Len(p) + 1 ELSE g[k - a]]
<1>11. \A k \in 1..a + 1 : h[k] = Len(p) + 1
  BY <1>1, <1>3
<1>12. \A k \in a + 2..a + l : h[k] = g[k - a]
  BY <1>1, <1>3
<1>13. \A k \in 1..a + l : k \in 1..a + 1 \/ k \in a + 2..a + l
  BY <1>1, <1>3
<1>. HIDE DEF h
<1>14. g[1] = Len(p) /\ (l >= 2 => g[2] = Len(p)) /\ 1 \in 1..l
  <2>1. 1 \in 1..l /\ l >= 1 /\ (l >= 2 => 1 \in 1..l - 1)
    BY <1>1
  <2>2. \A k \in 1..l - 1 : g[k + 1] = IF todo[k].type = "leave" THEN g[k] - 1 ELSE g[k]
    BY DEF Stacked, l
  <2>3. g[1] = Len(p)
    BY <2>1 DEF Stacked, l
  <2>. QED
    BY <1>1, <2>1, <2>2, <2>3
<1>15. \A k \in 2..l : g[k] \in Int /\ base < g[k] /\ g[k] <= Len(p)
  <2>1. \A k \in 2..l : k \in 1..l
    BY <1>1
  <2>2. \A k \in 1..l : g[k] \in Int /\ g[k] <= Len(p)
    BY DEF Stacked, l
  <2>3. \A k \in 2..l : base < g[k]
    BY DEF l
  <2>. QED
    BY <2>1, <2>2, <2>3
<1>16. base < Len(p) + 1
  OBVIOUS
<1>17. \A k \in 1..Len(n) : h[k] \in Int /\ base < h[k] /\ h[k] <= Len(q)
  <2>1. ASSUME NEW k \in 1..Len(n) PROVE h[k] \in Int /\ base < h[k] /\ h[k] <= Len(q)
    <3>1. CASE k \in 1..a + 1
      BY <1>11, <1>16, <3>1
    <3>2. CASE k \in a + 2..a + l
      <4>1. h[k] = g[k - a] /\ k - a \in 2..l
        BY <1>10, <1>12, <3>2
      <4>. QED
        BY <1>15, <4>1
    <3>. QED
      BY <1>7, <1>13, <3>1, <3>2
  <2>. QED
    BY <2>1
<1>18. Len(n) >= 1 => h[1] = Len(q)
  <2>1. 1 \in 1..a + 1
    BY <1>3
  <2>. QED
    BY <1>11, <2>1
<1>19. \A k \in 1..Len(n) - 1 : h[k + 1] = IF n[k].type = "leave" THEN h[k] - 1 ELSE h[k]
  <2>1. ASSUME NEW k \in 1..Len(n) - 1 PROVE h[k + 1] = IF n[k].type = "leave" THEN h[k] - 1 ELSE h[k]
    <3>1. CASE k \in 1..a
      <4>1. k \in 1..a + 1 /\ k + 1 \in 1..a + 1
        BY <1>3, <3>1
      <4>2. n[k].type # "leave"
        BY <1>8, <3>1 DEF Asked, a
      <4>. QED
        BY <1>11, <4>1, <4>2
    <3>2. CASE k = a + 1
      <4>1. l >= 2 /\ a + 1 \in 1..a + 1 /\ a + 2 \in a + 2..a + l /\ a + 2 - a = 2 /\ a + 1 + 1 = a + 2
        BY <1>1, <1>3, <1>7, <2>1, <3>2
      <4>2. h[k] = Len(p) + 1 /\ h[k + 1] = g[2]
        <5>1. h[a + 1] = Len(p) + 1
          BY <1>11, <4>1
        <5>2. h[a + 2] = g[2]
          <6>. DEFINE j == a + 2
          <6>1. j \in a + 2..a + l /\ j - a = 2
            BY <1>1, <1>3, <4>1
          <6>. HIDE DEF j
          <6>2. h[j] = g[j - a]
            BY <1>12, <6>1
          <6>. QED
            BY <6>1, <6>2 DEF j
        <5>. QED
          BY <3>2, <4>1, <5>1, <5>2
      <4>3. n[k].type = "leave"
        BY <1>9, <3>2 DEF Left
      <4>. QED
        BY <1>14, <4>1, <4>2, <4>3
    <3>3. CASE k \in a + 2..a + l - 1
      <4>1. k \in a + 2..a + l /\ k + 1 \in a + 2..a + l /\ k - a \in 1..l - 1 /\ (k - a) + 1 = (k + 1) - a
        <5>1. a \in Nat /\ l \in Nat /\ k \in Int
          BY <1>1, <1>3
        <5>2. k >= a + 2 /\ k <= a + l - 1
          BY <3>3, <5>1
        <5>. HIDE DEF a, l
        <5>3. k \in a + 2..a + l /\ k + 1 \in a + 2..a + l
          BY <5>1, <5>2
        <5>4. k - a \in 1..l - 1 /\ (k - a) + 1 = (k + 1) - a
          BY <5>1, <5>2
        <5>. QED
          BY <5>3, <5>4
      <4>2. g[(k - a) + 1] = IF todo[k - a].type = "leave" THEN g[k - a] - 1 ELSE g[k - a]
        BY <4>1 DEF Stacked, l
      <4>. QED
        BY <1>10, <1>12, <4>1, <4>2
    <3>4. k \in 1..a \/ k = a + 1 \/ k \in a + 2..a + l - 1
      BY <1>1, <1>3, <1>7, <2>1
    <3>. QED
      BY <3>1, <3>2, <3>3, <3>4
  <2>. QED
    BY <2>1
<1>20. \A j, k \in 1..Len(n) : j <= k => h[k] <= h[j]
  <2>1. ASSUME NEW j \in 1..Len(n), NEW k \in 1..Len(n), j <= k PROVE h[k] <= h[j]
    <3>1. CASE j \in 1..a + 1
      BY <1>11, <1>17, <2>1, <3>1
    <3>2. CASE j \in a + 2..a + l
      <4>1. k \in a + 2..a + l /\ j - a \in 1..l /\ k - a \in 1..l /\ j - a <= k - a
        BY <1>1, <1>3, <1>7, <2>1, <3>2
      <4>2. g[k - a] <= g[j - a]
        BY <4>1 DEF Stacked, l
      <4>. QED
        BY <1>12, <3>2, <4>1, <4>2
    <3>. QED
      BY <1>7, <1>13, <3>1, <3>2
  <2>. QED
    BY <2>1
<1>21. \A k \in 1..Len(n) : Asked(n[k]) \/ Left(n[k], q, v, h[k])
  <2>1. ASSUME NEW k \in 1..Len(n) PROVE Asked(n[k]) \/ Left(n[k], q, v, h[k])
    <3>1. CASE k \in 1..a
      BY <1>8, <3>1 DEF a
    <3>2. CASE k = a + 1
      <4>1. a + 1 \in 1..a + 1
        BY <1>3
      <4>. QED
        BY <1>9, <1>11, <3>2, <4>1
    <3>3. CASE k \in a + 2..a + l
      <4>1. n[k] = todo[k - a] /\ k - a \in 2..l /\ h[k] = g[k - a] /\ k - a \in 1..l
        BY <1>1, <1>3, <1>10, <1>12, <3>3
      <4>2. Asked(todo[k - a]) \/ Left(todo[k - a], p, w, g[k - a])
        BY <4>1 DEF Stacked, l
      <4>3. g[k - a] \in 1..Len(p) /\ g[k - a] \in 0..Len(p)
        BY <1>15, <4>1
      <4>4. q[g[k - a]] = p[g[k - a]] /\ v[g[k - a]] = w[g[k - a]]
        BY <4>3
      <4>. QED
        BY <4>1, <4>2, <4>4 DEF Left
    <3>4. k \in 1..a \/ k = a + 1 \/ k \in a + 2..a + l
      BY <1>3, <1>7, <2>1
    <3>. QED
      BY <3>1, <3>2, <3>3, <3>4
  <2>. QED
    BY <2>1
<1>22. Stacked(n, h, q, v, base)
  BY <1>17, <1>18, <1>19, <1>20, <1>21 DEF Stacked
<1>. QED
  BY <1>6, <1>22

\* In the middle of rmdir.
Amid(b, s, r, w, g, base, U) ==
    /\ At(b, s.m, r, w) /\ IsSeq(s.todo) /\ Stacked(s.todo, g, s.m.path, w, base)
    /\ \A j \in base + 1..Len(s.m.path) : w[j] \in U
    /\ Heaped(View(s.m.disk), U)

Going(b, s, r, base, U) == \E w, g : Amid(b, s, r, w, g, base, U)

LEMMA AmidFacts ==
    ASSUME NEW b, NEW s, NEW r, NEW w, NEW g, NEW base \in Nat, NEW U, Amid(b, s, r, w, g, base, U), s.todo # <<>>
    PROVE  /\ At(b, s.m, r, w) /\ IsSeq(s.todo) /\ IsSeq(Tail(s.todo)) /\ IsSeq(s.m.path)
           /\ Len(s.m.path) \in Nat /\ base < Len(s.m.path) /\ s.m.cwd # ROOT
           /\ s.m.cwd = w[Len(s.m.path)] /\ s.m.cwd \in U
           /\ Asked(Head(s.todo)) \/ Left(Head(s.todo), s.m.path, w, Len(s.m.path))
<1>1. Within(s.m, View(s.m.disk), w) /\ Tidy(View(s.m.disk), r) /\ At(b, s.m, r, w)
  BY AtFacts DEF Amid
<1>2. Len(s.m.path) \in Nat /\ s.m.cwd = w[Len(s.m.path)] /\ (s.m.cwd = ROOT <=> Len(s.m.path) = 0)
  BY <1>1, WithinFacts
<1>3. IsSeq(s.m.path)
  BY <1>1 DEF Within, Walk
<1>4. IsSeq(Tail(s.todo)) /\ Len(s.todo) \in Nat \ {0} /\ Head(s.todo) = s.todo[1] /\ IsSeq(s.todo)
  BY TailFacts DEF Amid
<1>5. 1 \in 1..Len(s.todo) /\ Len(s.todo) >= 1
  BY <1>4
<1>6. Stacked(s.todo, g, s.m.path, w, base)
  BY DEF Amid
<1>7. g[1] = Len(s.m.path) /\ base < g[1] /\ (Asked(s.todo[1]) \/ Left(s.todo[1], s.m.path, w, g[1]))
  BY <1>5, <1>6 DEF Stacked
<1>8. Len(s.m.path) \in base + 1..Len(s.m.path) /\ Len(s.m.path) # 0
  BY <1>2, <1>7
<1>9. s.m.cwd \in U
  BY <1>2, <1>8 DEF Amid
<1>. QED
  BY <1>1, <1>2, <1>3, <1>4, <1>7, <1>8, <1>9

\* The entry is done, nothing moved.
LEMMA DoneHere ==
    ASSUME NEW b, NEW s, NEW r, NEW w, NEW g, NEW base \in Nat, NEW U, Amid(b, s, r, w, g, base, U), s.todo # <<>>,
           Asked(Head(s.todo)), NEW m, At(b, m, r, w), m.path = s.m.path, Heaped(View(m.disk), U)
    PROVE  Going(b, [m |-> m, todo |-> Tail(s.todo)], r, base, U)
<1>. DEFINE n == [m |-> m, todo |-> Tail(s.todo)]
<1>1. IsSeq(Tail(s.todo)) /\ IsSeq(s.todo) /\ Len(s.m.path) \in Nat /\ Head(s.todo).type # "leave"
  BY AmidFacts DEF Asked
<1>2. Stacked(s.todo, g, s.m.path, w, base)
  BY DEF Amid
<1>3. PICK h : Stacked(Tail(s.todo), h, m.path, w, base)
  BY <1>1, <1>2, StackTail
<1>4. n.m = m /\ n.todo = Tail(s.todo)
  OBVIOUS
<1>. HIDE DEF n
<1>5. Amid(b, n, r, w, h, base, U)
  BY <1>1, <1>3, <1>4 DEF Amid
<1>. QED
  BY <1>5 DEF Going, n

\* ... a file's, which is deleted.
LEMMA DeletesFile ==
    ASSUME NEW b, NEW s, NEW r, NEW w, NEW g, NEW base \in Nat, NEW U, Amid(b, s, r, w, g, base, U), s.todo # <<>>,
           Asked(Head(s.todo)), NEW m, m = DeleteFile(s.m, Head(s.todo).name), ~Off(m.disk.blockBits)
    PROVE  Going(b, [m |-> m, todo |-> Tail(s.todo)], r, base, U)
<1>. DEFINE name == Head(s.todo).name
            k == s.m
<1>1. At(b, k, r, w) /\ Heaped(View(k.disk), U)
  BY DEF Amid
<1>. HIDE DEF name, k
<1>2. m = DeleteFile(k, name)
  BY DEF name, k
<1>3. \/ m = k
      \/ \E i : /\ Names3(k, r, name, i)
                /\ At(b, m, r, w) /\ m.path = k.path
                /\ Loses(View(k.disk), View(m.disk), k.cwd, i)
  BY <1>1, <1>2, DeleteFileHere
<1>4. At(b, m, r, w) /\ m.path = k.path /\ Heaped(View(m.disk), U)
  <2>1. CASE m = k
    BY <1>1, <2>1
  <2>2. ASSUME NEW i, Names3(k, r, name, i), At(b, m, r, w), m.path = k.path, Loses(View(k.disk), View(m.disk), k.cwd, i)
        PROVE  Heaped(View(m.disk), U)
    <3>. DEFINE V == View(k.disk)
                W == View(m.disk)
    <3>1. Tidy(V, r) /\ k.cwd \in V.bits \ {FATHER} /\ DirIn(V, k.cwd) /\ i \in 3..Len(V.lists[k.cwd])
      BY <1>1, <2>2, AtFacts DEF Names3
    <3>2. Loses(V, W, k.cwd, i) /\ Heaped(V, U)
      BY <1>1, <2>2
    <3>. HIDE DEF V, W
    <3>3. Heaped(W, U)
      BY <3>1, <3>2, HeapShrinks
    <3>. QED
      BY <3>3 DEF W
  <2>. QED
    BY <1>3, <2>1, <2>2
<1>. QED
  BY <1>4, DoneHere DEF k

\* A directory is left, freed, and its name taken out.
LeavesDir(s, m) ==
    /\ s.todo # <<>> /\ Head(s.todo).type = "leave"
    /\ m = RemoveDirEntryFromPath(DeleteInode(ChangeDir(s.m, ".."), Head(s.todo).ino), Head(s.todo).name)

LEMMA DeletesDir ==
    ASSUME NEW b, NEW s, NEW r, NEW w, NEW g, NEW base \in Nat, NEW U, Amid(b, s, r, w, g, base, U),
           NEW m, LeavesDir(s, m), ~Off(m.disk.blockBits)
    PROVE  Going(b, [m |-> m, todo |-> Tail(s.todo)], r, base, U)
<1>. DEFINE t == Head(s.todo)
            u == ChangeDir(s.m, "..")
            k == DeleteInode(u, t.ino)
            l == Len(s.m.path)
            n == [m |-> m, todo |-> Tail(s.todo)]
<1>0. s.todo # <<>> /\ t.type = "leave" /\ m = RemoveDirEntryFromPath(k, t.name)
  BY DEF LeavesDir
<1>1. /\ At(b, s.m, r, w) /\ IsSeq(s.todo) /\ IsSeq(Tail(s.todo)) /\ IsSeq(s.m.path)
      /\ l \in Nat /\ base < l /\ s.m.cwd # ROOT /\ s.m.cwd = w[l]
      /\ Asked(t) \/ Left(t, s.m.path, w, l)
  BY <1>0, AmidFacts
<1>2. t.type = "leave" /\ t.name = s.m.path[l] /\ t.ino = w[l]
  BY <1>0, <1>1 DEF Asked, Left
<1>3. m = RemoveDirEntryFromPath(k, t.name)
  BY <1>0
<1>. HIDE DEF t, u, k, n
<1>4. u = ChangeDir(s.m, "..") /\ k = DeleteInode(u, t.ino)
  BY DEF u, k
<1>5. /\ At(b, u, r, w) /\ Reads(u, s.m)
      /\ u.cwd = w[l - 1] /\ Len(u.path) = l - 1 /\ \A j \in 1..Len(u.path) : u.path[j] = s.m.path[j]
  <2>. DEFINE z == s.m
  <2>1. At(b, z, r, w) /\ z.cwd # ROOT /\ u = ChangeDir(z, "..")
    BY <1>1, <1>4
  <2>. HIDE DEF z, l
  <2>2. GoesUp(b, z, r, w, u)
    BY <2>1 DEF GoesUp
  <2>3. IsUp(b, z, r, w, u)
    BY <2>2, CdUpIs
  <2>. QED
    BY <2>3 DEF z, l, IsUp
<1>. DEFINE V == View(s.m.disk)
            W == View(m.disk)
<1>6. PICK i \in 3..Len(V.lists[w[l - 1]]) : V.lists[w[l - 1]][i] = Entry(s.m.path[l], w[l], "dir")
  <2>1. Walk(V, s.m.path, w)
    BY <1>1, AtFacts DEF Within
  <2>2. l \in 1..Len(s.m.path)
    BY <1>1
  <2>. QED
    BY <2>1, <2>2 DEF Walk
<1>7. /\ u.list = V.lists[u.cwd] /\ Tidy(V, r) /\ u.cwd \in V.bits \ {FATHER} /\ DirIn(V, u.cwd)
      /\ Len(u.list) \in Nat /\ u.disk = s.m.disk /\ Sound(b, u)
  BY <1>5, AtFacts DEF Reads
<1>8. i \in 3..Len(u.list) /\ u.list[i] = Entry(t.name, t.ino, "dir")
  BY <1>2, <1>5, <1>6, <1>7
<1>9. Finds(u, t.name, i) /\ i >= 3 /\ u.list[i].ino = t.ino
  BY <1>7, <1>8 DEF Finds, Entry
<1>10. Sound(b, k) /\ Frees(k, u, t.ino)
  BY <1>4, <1>7, DeleteEffect
<1>11. Opens(u, k, i)
  BY <1>9, <1>10 DEF Opens, Frees
<1>12. /\ At(b, m, r, w) /\ m.path = u.path /\ Loses(View(u.disk), W, u.cwd, i)
  <2>. HIDE DEF W
  <2>1. /\ At(b, m, r, w) /\ m.cwd = u.cwd /\ m.path = u.path
        /\ Loses(View(u.disk), View(m.disk), u.cwd, i)
    <3>1. At(b, u, r, w)
      BY <1>5
    <3>2. Finds(u, t.name, i) /\ i >= 3
      BY <1>9
    <3>. QED
      BY <1>3, <1>10, <1>11, <3>1, <3>2, RemoveHere
  <2>. QED
    BY <2>1 DEF W
<1>13. Heaped(W, U)
  <2>1. Loses(V, W, u.cwd, i) /\ Heaped(V, U) /\ i \in 3..Len(V.lists[u.cwd])
    BY <1>7, <1>8, <1>12 DEF Amid
  <2>. HIDE DEF V, W
  <2>. QED
    BY <1>7, <2>1, HeapShrinks
<1>14. PICK h : Stacked(Tail(s.todo), h, m.path, w, base)
  <2>1. Stacked(s.todo, g, s.m.path, w, base)
    BY DEF Amid
  <2>2. Len(m.path) = l - 1 /\ Len(m.path) \in Nat /\ \A j \in 1..Len(m.path) : m.path[j] = s.m.path[j]
    <3>1. m.path = u.path
      BY <1>12
    <3>2. Len(u.path) = l - 1 /\ Len(u.path) \in Nat /\ \A j \in 1..Len(u.path) : u.path[j] = s.m.path[j]
      <4>. HIDE DEF l
      <4>1. l - 1 \in Nat
        BY <1>1
      <4>. QED
        BY <1>5, <4>1
    <3>. QED
      BY <3>1, <3>2
  <2>3. Head(s.todo).type = "leave"
    BY <1>0 DEF t
  <2>. QED
    BY <1>0, <1>1, <2>1, <2>2, <2>3, StackTail
<1>15. \A j \in base + 1..Len(m.path) : w[j] \in U
  <2>1. \A j \in base + 1..Len(m.path) : j \in base + 1..Len(s.m.path)
    BY <1>1, <1>5, <1>12
  <2>. QED
    BY <2>1 DEF Amid
<1>16. n.m = m /\ n.todo = Tail(s.todo)
  BY DEF n
<1>17. Amid(b, n, r, w, h, base, U)
  BY <1>1, <1>12, <1>13, <1>14, <1>15, <1>16 DEF Amid, W
<1>. QED
  BY <1>17 DEF Going, n

\* The entries of a directory behind the first two.
LEMMA ItemsAsked ==
    ASSUME NEW V, NEW r, Tidy(V, r), NEW x \in V.bits \ {FATHER}, DirIn(V, x),
           NEW items, items = SubSeq(V.lists[x], 3, Len(V.lists[x]))
    PROVE  IsSeq(items) /\ \A k \in 1..Len(items) : Asked(items[k])
<1>. DEFINE s == V.lists[x]
<1>1. Len(s) \in Nat /\ 3 \in Int /\ Len(s) \in Int
  BY ListFacts, TidyParts
<1>2. items = SubSeq(s, 3, Len(s))
  OBVIOUS
<1>. HIDE DEF s
<1>. DEFINE a == Len(s)
<1>3. IsSeq(items) /\ Len(items) = (IF 3 <= a THEN a - 3 + 1 ELSE 0) /\ \A k \in 1..a - 3 + 1 : items[k] = s[3 + k - 1]
  <2>1. items = SubSeq(s, 3, a) /\ a \in Int /\ 3 \in Int
    BY <1>1, <1>2
  <2>. HIDE DEF a
  <2>2. /\ IsSeq(SubSeq(s, 3, a)) /\ Len(SubSeq(s, 3, a)) = (IF 3 <= a THEN a - 3 + 1 ELSE 0)
        /\ \A k \in 1..a - 3 + 1 : SubSeq(s, 3, a)[k] = s[3 + k - 1]
    BY <2>1, SubSeqIsSeq
  <2>. QED
    BY <2>1, <2>2
<1>4. ASSUME NEW k \in 1..Len(items) PROVE Asked(items[k])
  <2>1. k \in 1..a - 3 + 1 /\ 3 + k - 1 \in 3..Len(s)
    BY <1>1, <1>3
  <2>. DEFINE i == 3 + k - 1
  <2>2. items[k] = s[i] /\ i \in 3..Len(V.lists[x])
    BY <1>3, <2>1 DEF s
  <2>. HIDE DEF i
  <2>3. Child(V, r, x, V.lists[x][i]) /\ V.lists[x][i].name \notin Dots \union {"/"}
    BY <2>2, KidFacts
  <2>. QED
    BY <2>2, <2>3 DEF Asked, Child, s
<1>. QED
  BY <1>3, <1>4

\* A directory is about to be entered.
Poised(b, s, r, w, g, base, U) ==
    /\ At(b, s.m, r, w) /\ Heaped(View(s.m.disk), U)
    /\ IsSeq(s.todo) /\ s.todo # <<>> /\ Head(s.todo).type # "leave"
    /\ \E low : Stacked(s.todo, g, s.m.path, w, low)
    /\ base <= Len(s.m.path) /\ \A k \in 2..Len(s.todo) : base < g[k]
    /\ \A j \in base + 1..Len(s.m.path) : w[j] \in U

EntersBy(s, r, U, name, i, x, m, n) ==
    /\ Names3(s.m, r, name, i) /\ s.m.list[i].ino \in U /\ s.m.list[i].type = "dir"
    /\ x = s.m.list[i].ino /\ m = ChangeDir(s.m, name)
    /\ n = [m |-> m, todo |-> (SubSeq(ReadDirectoryList(s.m.disk, x), 3, Len(ReadDirectoryList(s.m.disk, x)))
                               \o <<Entry(name, x, "leave")>>) \o Tail(s.todo)]

LEMMA EntersDir ==
    ASSUME NEW b, NEW s, NEW r, NEW w, NEW g, NEW base \in Nat, NEW U, Poised(b, s, r, w, g, base, U),
           NEW name, NEW i, NEW x, NEW m, NEW n, EntersBy(s, r, U, name, i, x, m, n)
    PROVE  Going(b, n, r, base, U)
<1>. DEFINE V == View(s.m.disk)
            l == Len(s.m.path)
            items == SubSeq(ReadDirectoryList(s.m.disk, x), 3, Len(ReadDirectoryList(s.m.disk, x)))
            t == Entry(name, x, "leave")
<1>1. /\ Tidy(V, r) /\ l \in Nat /\ s.m.cwd = w[l] /\ IsSeq(s.m.path) /\ Shape(s.m.disk)
  BY AtFacts, WithinFacts DEF Within, Walk, Poised
<1>2. /\ x \in V.bits \ {FATHER} /\ x \in Ino /\ V.types[x] = "dir" /\ Finds(s.m, name, i) /\ i >= 3
  <2>1. /\ Finds(s.m, name, i) /\ i \in 3..Len(s.m.list) /\ Child(View(s.m.disk), r, s.m.cwd, s.m.list[i])
        /\ s.m.list[i].ino \in View(s.m.disk).bits \ {FATHER, ROOT, s.m.cwd} /\ s.m.list[i].ino \in Ino
    BY DEF Names3, EntersBy
  <2>2. View(s.m.disk).types[s.m.list[i].ino] = "dir"
    BY <2>1 DEF Child, EntersBy
  <2>3. i >= 3
    BY <2>1
  <2>. QED
    BY <2>1, <2>2, <2>3 DEF EntersBy
<1>3. DirIn(V, x) /\ ReadDirectoryList(s.m.disk, x) = V.lists[x]
  BY <1>1, <1>2, ViewFacts DEF DirIn
<1>4. Len(V.lists[x]) >= 2
  BY <1>3 DEF Heaped, Poised, EntersBy
<1>5. PICK v : Onto(v, w, l, x)
  BY <1>1, OntoExists
<1>6. At(b, m, r, v) /\ Reads(m, s.m) /\ m.path = Append(s.m.path, name)
  <2>1. Len(View(s.m.disk).lists[s.m.list[i].ino]) >= 2 /\ Onto(v, w, Len(s.m.path), s.m.list[i].ino)
        /\ s.m.list[i].type = "dir" /\ Finds(s.m, name, i) /\ i >= 3
    BY <1>2, <1>4, <1>5 DEF EntersBy
  <2>. DEFINE k == s.m
  <2>2. At(b, k, r, w) /\ m = ChangeDir(k, name)
    BY DEF Poised, EntersBy
  <2>3. Len(View(k.disk).lists[k.list[i].ino]) >= 2 /\ Onto(v, w, Len(k.path), k.list[i].ino)
        /\ k.list[i].type = "dir" /\ Finds(k, name, i) /\ i >= 3
    BY <2>1
  <2>. HIDE DEF k
  <2>4. GoesDown(b, k, r, w, name, i, m, v)
    BY <2>2, <2>3 DEF GoesDown
  <2>5. IsDown(b, k, r, name, i, m, v)
    BY <2>4, CdDownIs
  <2>. QED
    BY <2>5 DEF k, IsDown
<1>7. Len(m.path) = l + 1 /\ m.path[l + 1] = name /\ \A k \in 1..l : m.path[k] = s.m.path[k]
  BY <1>1, <1>6, AppendIsSeq
<1>. HIDE DEF items, V
<1>8. IsSeq(items) /\ \A k \in 1..Len(items) : Asked(items[k])
  <2>1. items = SubSeq(V.lists[x], 3, Len(V.lists[x]))
    BY <1>3 DEF items
  <2>. QED
    BY <1>1, <1>2, <1>3, <2>1, ItemsAsked
<1>9. Left(t, m.path, v, Len(m.path))
  BY <1>5, <1>7 DEF Left, Entry, Onto
<1>10. n.m = m /\ n.todo = (items \o <<t>>) \o Tail(s.todo)
  BY DEF items, EntersBy
<1>. HIDE DEF t
<1>11. IsSeq(n.todo) /\ \E h : Stacked(n.todo, h, m.path, v, base)
  <2>1. \A k \in 0..l : v[k] = w[k]
    BY <1>5 DEF Onto
  <2>. HIDE DEF l
  <2>2. Len(s.m.path) \in Nat /\ Len(m.path) = Len(s.m.path) + 1 /\ (\A k \in 0..Len(s.m.path) : v[k] = w[k])
        /\ \A k \in 1..Len(s.m.path) : m.path[k] = s.m.path[k]
    BY <1>1, <1>7, <2>1 DEF l
  <2>. DEFINE next == n.todo
  <2>3. next = (items \o <<t>>) \o Tail(s.todo)
    BY <1>10
  <2>4. Left(t, m.path, v, Len(m.path)) /\ IsSeq(items) /\ \A k \in 1..Len(items) : Asked(items[k])
    BY <1>8, <1>9
  <2>. HIDE DEF next
  <2>5. IsSeq(next) /\ \E h : Stacked(next, h, m.path, v, base)
    <3>1. /\ IsSeq(s.todo) /\ s.todo # <<>> /\ Head(s.todo).type # "leave"
          /\ base <= Len(s.m.path) /\ \A k \in 2..Len(s.todo) : base < g[k]
      BY DEF Poised
    <3>2. PICK low : Stacked(s.todo, g, s.m.path, w, low)
      BY DEF Poised
    <3>3. Pushes(s.todo, g, s.m.path, w, base, m.path, v, items, t, next)
      BY <2>2, <2>3, <2>4, <3>1, <3>2 DEF Pushes
    <3>4. Pushed(next, m.path, v, base)
      BY <3>3, StackPushes
    <3>. QED
      BY <3>4 DEF Pushed
  <2>. QED
    BY <2>5 DEF next
<1>12. \A j \in base + 1..Len(m.path) : v[j] \in U
  <2>1. ASSUME NEW j \in base + 1..Len(m.path) PROVE v[j] \in U
    <3>1. j = l + 1 \/ (j \in base + 1..l /\ j \in 0..l)
      BY <1>1, <1>7
    <3>. QED
      BY <1>5, <3>1 DEF Onto, Poised, EntersBy
  <2>. QED
    BY <2>1
<1>13. Heaped(View(m.disk), U)
  BY <1>6 DEF Reads, Poised
<1>14. PICK h : Stacked(n.todo, h, m.path, v, base)
  BY <1>11
<1>15. Amid(b, n, r, v, h, base, U)
  BY <1>6, <1>10, <1>11, <1>12, <1>13, <1>14 DEF Amid
<1>. QED
  BY <1>15 DEF Going

\* The next step enters a directory.
LEMMA NextEnters ==
    ASSUME NEW b, NEW s, NEW r, NEW w, NEW g, NEW base \in Nat, NEW U, Poised(b, s, r, w, g, base, U),
           Head(s.todo).type = "dir", NEW i, Names3(s.m, r, Head(s.todo).name, i), s.m.list[i].ino \in U,
           ReadDirectoryList(s.m.disk, s.m.list[i].ino) # <<>>,
           NEW n, n = DeleteNext(s)
    PROVE  Going(b, n, r, base, U)
<1>. DEFINE name == Head(s.todo).name
            x == s.m.list[i].ino
            m == ChangeDir(s.m, name)
            dir == ReadDirectoryList(s.m.disk, x)
<1>1. s.todo # <<>> /\ At(b, s.m, r, w) /\ GetDirEntry(s.m, name) = s.m.list[i]
  BY DEF Poised, Names3
<1>2. x # 0 /\ x \in Ino /\ s.m.list[i].type = "dir"
  <2>1. x \in Ino /\ Child(View(s.m.disk), r, s.m.cwd, s.m.list[i])
    BY DEF Names3
  <2>2. Shape(s.m.disk)
    BY <1>1, AtFacts
  <2>3. s.m.disk.inode[x].type = "dir"
    BY <2>1, <2>2, ViewFacts
  <2>4. View(s.m.disk).types[x] = "dir"
    BY <2>1, <2>2, <2>3, ViewFacts
  <2>5. s.m.list[i].type = "dir"
    <3>1. View(s.m.disk).types[s.m.list[i].ino] = s.m.list[i].type
      BY <2>1 DEF Child
    <3>. QED
      BY <2>4, <3>1
  <2>. HIDE DEF x
  <2>6. x # 0
    BY <2>1, Constants DEF Ino
  <2>. QED
    BY <2>1, <2>5, <2>6
<1>3. n = [m |-> m, todo |-> SubSeq(dir, 3, Len(dir)) \o <<Entry(name, x, "leave")>> \o Tail(s.todo)]
  BY <1>1, <1>2 DEF DeleteNext
<1>4. EntersBy(s, r, U, name, i, x, m, n)
  BY <1>2, <1>3 DEF EntersBy
<1>. HIDE DEF name, x, m
<1>. QED
  BY <1>4, EntersDir

\* Each step of rmdir leads from the middle of it to the middle of it.
LEMMA DeleteNextGoes ==
    ASSUME NEW b, NEW s, NEW r, NEW base \in Nat, NEW U, Going(b, s, r, base, U),
           NEW n, n = DeleteNext(s), ~Off(n.m.disk.blockBits)
    PROVE  Going(b, n, r, base, U)
<1>1. PICK w, g : Amid(b, s, r, w, g, base, U)
  BY DEF Going
<1>. DEFINE t == Head(s.todo)
            e == GetDirEntry(s.m, t.name)
            dir == ReadDirectoryList(s.m.disk, e.ino)
<1>2. CASE s.todo = <<>>
  BY <1>2 DEF DeleteNext
<1>3. CASE s.todo # <<>> /\ t.type = "leave"
  <2>. DEFINE m == RemoveDirEntryFromPath(DeleteInode(ChangeDir(s.m, ".."), t.ino), t.name)
  <2>1. n = [m |-> m, todo |-> Tail(s.todo)]
    BY <1>3 DEF DeleteNext
  <2>2. LeavesDir(s, m)
    BY <1>3 DEF LeavesDir
  <2>. HIDE DEF m
  <2>3. ~Off(m.disk.blockBits)
    BY <2>1
  <2>. QED
    BY <1>1, <2>1, <2>2, <2>3, DeletesDir
<1>4. CASE s.todo # <<>> /\ t.type # "leave"
  <2>1. Asked(t) /\ At(b, s.m, r, w)
    BY <1>1, <1>4, AmidFacts DEF Left
  <2>2. CASE t.type # "dir"
    <3>. DEFINE m == DeleteFile(s.m, t.name)
    <3>1. n = [m |-> m, todo |-> Tail(s.todo)]
      BY <1>4, <2>2 DEF DeleteNext
    <3>2. m = DeleteFile(s.m, Head(s.todo).name)
      OBVIOUS
    <3>. HIDE DEF m
    <3>3. ~Off(m.disk.blockBits)
      BY <3>1
    <3>. QED
      BY <1>1, <1>4, <2>1, <3>1, <3>2, <3>3, DeletesFile
  <2>3. CASE t.type = "dir" /\ (e.ino = 0 \/ dir = <<>>)
    <3>1. n = [m |-> s.m, todo |-> Tail(s.todo)]
      BY <1>4, <2>3 DEF DeleteNext
    <3>2. Heaped(View(s.m.disk), U)
      BY <1>1 DEF Amid
    <3>. QED
      BY <1>1, <1>4, <2>1, <3>1, <3>2, DoneHere
  <2>4. CASE t.type = "dir" /\ e.ino # 0 /\ dir # <<>>
    <3>1. PICK i : Names3(s.m, r, t.name, i)
      <4>1. e # NoEntry
        BY <2>4, NoEntryIs DEF NoEntryFacts
      <4>2. t.name \notin Dots \union {"/"}
        BY <2>1 DEF Asked
      <4>. HIDE DEF t
      <4>. QED
        BY <2>1, <4>1, <4>2, FindsPlain
    <3>2. s.m.list[i].ino \in U
      <4>1. s.m.cwd \in U /\ DirIn(View(s.m.disk), s.m.cwd) /\ s.m.list = View(s.m.disk).lists[s.m.cwd]
        BY <1>1, <1>4, <2>1, AmidFacts, AtFacts
      <4>2. i \in 3..Len(s.m.list)
        BY <3>1 DEF Names3
      <4>. QED
        BY <1>1, <4>1, <4>2 DEF Amid, Heaped
    <3>3. ReadDirectoryList(s.m.disk, s.m.list[i].ino) # <<>>
      BY <2>4, <3>1 DEF Names3
    <3>4. Poised(b, s, r, w, g, base, U)
      <4>1. Stacked(s.todo, g, s.m.path, w, base) /\ IsSeq(s.todo) /\ Len(s.todo) \in Nat
        BY <1>1, SeqFacts DEF Amid
      <4>2. \A k \in 2..Len(s.todo) : base < g[k]
        BY <4>1 DEF Stacked
      <4>3. base <= Len(s.m.path)
        BY <1>1, <1>4, AmidFacts
      <4>. QED
        BY <1>1, <1>4, <4>1, <4>2, <4>3 DEF Amid, Poised
    <3>. HIDE DEF t
    <3>5. t = Head(s.todo)
      BY DEF t
    <3>. QED
      BY <2>4, <3>1, <3>2, <3>3, <3>4, <3>5, NextEnters
  <2>. QED
    BY <2>2, <2>3, <2>4
<1>. QED
  BY <1>2, <1>3, <1>4

\* ... and so does the first.
LEMMA FirstGoes ==
    ASSUME NEW b, NEW m, NEW r, NEW w, At(b, m, r, w), NEW name, name \notin Dots \union {"/"},
           NEW U, Heaped(View(m.disk), U), GetDirEntry(m, name).ino # 0 => GetDirEntry(m, name).ino \in U,
           NEW s, s = [m |-> m, todo |-> <<Entry(name, 0, "dir")>>],
           NEW n, n = DeleteNext(s)
    PROVE  Going(b, n, r, Len(m.path), U)
<1>. DEFINE t == Entry(name, 0, "dir")
            todo == <<t>>
            g == [k \in {1} |-> Len(m.path)]
            base == Len(m.path)
            e == GetDirEntry(m, name)
<1>1. IsSeq(todo) /\ Len(todo) = 1 /\ todo[1] = t /\ todo # <<>> /\ Head(todo) = t /\ Tail(todo) = <<>>
  BY SingleIsSeq
<1>2. t.name = name /\ t.type = "dir" /\ Asked(t) /\ s.m = m /\ s.todo = todo
  BY DEF Entry, Asked
<1>3. base \in Nat
  BY AtFacts, WithinFacts
<1>. HIDE DEF t, todo
<1>4. \A j \in base + 1..Len(m.path) : w[j] \in U
  BY <1>3
<1>5. Stacked(todo, g, m.path, w, base - 1)
  BY <1>1, <1>2, <1>3 DEF Stacked
<1>6. CASE e.ino = 0 \/ ReadDirectoryList(m.disk, e.ino) = <<>>
  <2>1. n = [m |-> m, todo |-> <<>>]
    BY <1>1, <1>2, <1>6 DEF DeleteNext
  <2>2. n.m = m /\ n.todo = <<>>
    BY <2>1
  <2>3. Stacked(<<>>, g, m.path, w, base) /\ IsSeq(<<>>)
    BY EmptyIsSeq DEF Stacked
  <2>4. Amid(b, n, r, w, g, base, U)
    BY <1>4, <2>2, <2>3 DEF Amid
  <2>. QED
    BY <2>4 DEF Going
<1>7. CASE e.ino # 0 /\ ReadDirectoryList(m.disk, e.ino) # <<>>
  <2>1. PICK i : Names3(m, r, name, i)
    <3>1. e # NoEntry
      BY <1>7, NoEntryIs DEF NoEntryFacts
    <3>. QED
      BY <3>1, FindsPlain
  <2>2. e = m.list[i]
    BY <2>1 DEF Names3
  <2>. HIDE DEF g, e
  <2>3. s.m.list[i].ino \in U /\ ReadDirectoryList(s.m.disk, s.m.list[i].ino) # <<>>
    BY <1>2, <1>7, <2>2 DEF e
  <2>4. Head(s.todo).name = name /\ Head(s.todo).type = "dir"
    BY <1>1, <1>2
  <2>5. Poised(b, s, r, w, g, base, U)
    <3>1. \A k \in 2..Len(todo) : base < g[k]
      BY <1>1
    <3>2. base <= Len(m.path)
      BY <1>3
    <3>. QED
      BY <1>1, <1>2, <1>4, <1>5, <2>4, <3>1, <3>2 DEF Poised
  <2>6. Names3(s.m, r, Head(s.todo).name, i)
    BY <1>2, <2>1, <2>4
  <2>. QED
    BY <1>3, <2>3, <2>4, <2>5, <2>6, NextEnters
<1>. QED
  BY <1>6, <1>7

LEMMA DeletingGoes ==
    ASSUME NEW b, NEW m, NEW r, NEW w, At(b, m, r, w), NEW name, name \notin Dots \union {"/"},
           NEW U, Heaped(View(m.disk), U), GetDirEntry(m, name).ino # 0 => GetDirEntry(m, name).ino \in U,
           NEW n \in Nat, NEW f, IsDeleting(f, m, name, n), NEW l \in 1..n
    PROVE  Off(f[l].m.disk.blockBits) \/ Going(b, f[l], r, Len(m.path), U)
<1>. DEFINE Fits(k) == Off(f[k].m.disk.blockBits) \/ Going(b, f[k], r, Len(m.path), U)
            Bad == {k \in 1..n : ~Fits(k)}
<1>0. Sound(b, m) /\ Len(m.path) \in Nat
  BY AtFacts, WithinFacts
<1>1. CASE Bad = {}
  BY <1>1
<1>2. CASE Bad # {}
  <2>1. PICK k \in Bad : \A j \in Bad : k <= j
    <3>1. Bad \in SUBSET Nat
      OBVIOUS
    <3>. HIDE DEF Bad
    <3>. QED
      BY <1>2, <3>1, MinIsLeast
  <2>. HIDE DEF Fits
  <2>2. CASE k = 1
    <3>1. f[0] = [m |-> m, todo |-> <<Entry(name, 0, "dir")>>] /\ f[1] = DeleteNext(f[0])
      BY <2>1, <2>2 DEF IsDeleting
    <3>2. Going(b, f[1], r, Len(m.path), U)
      BY <3>1, FirstGoes
    <3>. QED
      BY <2>1, <2>2, <3>2 DEF Fits
  <2>3. CASE k # 1
    <3>1. k - 1 \in 1..n /\ k - 1 \notin Bad /\ k \in 0..n /\ k # 0 /\ k - 1 \in 0..n
      BY <2>1, <2>3
    <3>2. f[k] = DeleteNext(f[k - 1])
      BY <3>1 DEF IsDeleting
    <3>. DEFINE s == f[k - 1]
                u == f[k]
                bits == s.m.disk.blockBits
    <3>3. Fits(k - 1)
      BY <3>1
    <3>4. Deleting(b, s)
      BY <1>0, <3>1, DeletingGoesOn
    <3>5. Off(bits) \/ Going(b, s, r, Len(m.path), U)
      BY <3>3 DEF Fits
    <3>. HIDE DEF s, u
    <3>6. u = DeleteNext(s)
      BY <3>2 DEF s, u
    <3>7. CASE Off(bits)
      <4>1. Deleting(bits, s)
        BY <3>4, SoundHere DEF Deleting
      <4>2. Deleting(bits, u)
        BY <3>6, <4>1, DeleteNextSound
      <4>3. Sound(bits, u.m)
        BY <4>2 DEF Deleting
      <4>. HIDE DEF bits
      <4>4. Off(u.m.disk.blockBits)
        <5>. DEFINE v == u.m
        <5>1. Sound(bits, v)
          BY <4>3
        <5>. HIDE DEF v
        <5>2. Off(v.disk.blockBits)
          BY <3>7, <5>1, OffStays
        <5>. QED
          BY <5>2 DEF v
      <4>. QED
        BY <2>1, <4>4 DEF Fits, u
    <3>8. CASE Going(b, s, r, Len(m.path), U)
      <4>1. Off(u.m.disk.blockBits) \/ Going(b, u, r, Len(m.path), U)
        BY <1>0, <3>6, <3>8, DeleteNextGoes
      <4>. QED
        BY <2>1, <4>1 DEF Fits, u
    <3>. QED
      BY <3>5, <3>7, <3>8
  <2>. QED
    BY <2>2, <2>3
<1>. QED
  BY <1>1, <1>2

LEMMA RmdirHere ==
    ASSUME NEW b, NEW m, NEW r, NEW w, At(b, m, r, w), NEW name, name \notin Dots \union {"/"},
           NEW U, Heaped(View(m.disk), U), GetDirEntry(m, name).ino # 0 => GetDirEntry(m, name).ino \in U,
           NEW n, n = DeleteDir(m, name), ~Off(n.disk.blockBits)
    PROVE  Leaves(b, n)
<1>. DEFINE l == 2 * NumInodes
            f == CHOOSE f : IsDeleting(f, m, name, l)
<1>1. l \in Nat /\ l \in 1..l
  BY Constants
<1>2. n = f[l].m
  BY DEF DeleteDir, IsDeleting
<1>. HIDE DEF l
<1>3. IsDeleting(f, m, name, l)
  BY <1>1, DeletingExists
<1>. HIDE DEF f
<1>4. Going(b, f[l], r, Len(m.path), U)
  BY <1>1, <1>2, <1>3, DeletingGoes
<1>5. PICK v, g : Amid(b, f[l], r, v, g, Len(m.path), U)
  BY <1>4 DEF Going
<1>. QED
  BY <1>2, <1>5 DEF Amid, Leaves

---------------------------------------------------------------------------
(* The inodes below one.                                                   *)

LEMMA NamedOn ==
    ASSUME NEW d, Shape(d), NEW r, Tidy(View(d), r), NEW x \in Ino
    PROVE  /\ \A e \in ChildrenOn(d, x) : e.ino \in Ino
           /\ \A e : e \in ChildrenOn(d, x) <=>
                 \E i \in 1..Len(View(d).lists[x]) : e = View(d).lists[x][i] /\ e.name \notin Dots
<1>. DEFINE s == View(d).lists[x]
<1>1. s = ReadDirectoryList(d, x) /\ IsSeq(s)
  BY ViewFacts
<1>2. \A i \in 1..Len(s) : s[i].ino \in Ino
  BY ListFacts
<1>. HIDE DEF s
<1>3. DOMAIN s = 1..Len(s)
  BY <1>1, SeqFacts
<1>4. ToSet(s) = {s[i] : i \in 1..Len(s)}
  BY <1>3 DEF ToSet
<1>5. ChildrenOn(d, x) = {e \in ToSet(s) : e.name \notin Dots}
  BY <1>1 DEF ChildrenOn
<1>6. \A e : e \in ChildrenOn(d, x) <=> \E i \in 1..Len(s) : e = s[i] /\ e.name \notin Dots
  BY <1>4, <1>5
<1>. QED
  BY <1>2, <1>6 DEF s

\* A directory of the tree names its children from the third entry on.
LEMMA ChildrenIn ==
    ASSUME NEW d, Shape(d), NEW r, Tidy(View(d), r), NEW x \in View(d).bits \ {FATHER}, DirIn(View(d), x)
    PROVE  \A e : e \in ChildrenOn(d, x) <=> \E i \in 3..Len(View(d).lists[x]) : e = View(d).lists[x][i]
<1>. DEFINE s == View(d).lists[x]
<1>1. x \in Ino /\ Len(s) \in Nat /\ Headed(s, x)
  BY ListFacts, TidyParts DEF Tidy, HeadsTrue
<1>2. \A e : e \in ChildrenOn(d, x) <=> \E i \in 1..Len(s) : e = s[i] /\ e.name \notin Dots
  BY <1>1, NamedOn
<1>. HIDE DEF s
<1>3. /\ Len(s) >= 1 => s[1].name \in Dots
      /\ Len(s) >= 2 => s[2].name \in Dots
      /\ \A i \in 3..Len(s) : s[i].name \notin Dots
  BY <1>1 DEF Headed, Entry, Dots
<1>4. \A i \in 1..Len(s) : s[i].name \notin Dots <=> i \in 3..Len(s)
  <2>1. ASSUME NEW i \in 1..Len(s) PROVE s[i].name \notin Dots <=> i \in 3..Len(s)
    <3>1. i = 1 \/ i = 2 \/ i \in 3..Len(s)
      BY <1>1
    <3>. QED
      BY <1>1, <1>3, <3>1
  <2>. QED
    BY <2>1
<1>5. \A i \in 3..Len(s) : i \in 1..Len(s)
  BY <1>1
<1>. QED
  BY <1>2, <1>4, <1>5 DEF s

IsBelow(f, d) == f = [y \in Ino |-> {y} \union UNION {f[e.ino] : e \in ChildrenOn(d, y)}]

\* All that a directory names is in S.
Closed(d, S) == \A y \in S : \A e \in ChildrenOn(d, y) : e.ino \in S
Down(d, y) == {z \in Ino : \A S \in SUBSET Ino : y \in S /\ Closed(d, S) => z \in S}

LEMMA BelowExists ==
    ASSUME NEW d, \A x \in Ino : \A e \in ChildrenOn(d, x) : e.ino \in Ino
    PROVE  \E f : IsBelow(f, d)
<1>. DEFINE f == [y \in Ino |-> Down(d, y)]
            T(y) == {y} \union UNION {f[e.ino] : e \in ChildrenOn(d, y)}
<1>1. \A y \in Ino : y \in Down(d, y) /\ Down(d, y) \in SUBSET Ino
  BY DEF Down
<1>2. ASSUME NEW y \in Ino PROVE Closed(d, Down(d, y))
  BY DEF Down, Closed
<1>3. ASSUME NEW y \in Ino PROVE f[y] = T(y)
  <2>1. \A e \in ChildrenOn(d, y) : e.ino \in Ino /\ f[e.ino] = Down(d, e.ino)
    OBVIOUS
  <2>2. T(y) \in SUBSET Ino /\ y \in T(y)
    BY <1>1, <2>1
  <2>3. Closed(d, T(y))
    <3>1. ASSUME NEW z \in T(y), NEW c \in ChildrenOn(d, z) PROVE c.ino \in T(y)
      <4>1. CASE z = y
        <5>1. c.ino \in f[c.ino] /\ c \in ChildrenOn(d, y)
          BY <1>1, <2>1, <3>1, <4>1
        <5>. QED
          BY <5>1
      <4>2. ASSUME NEW e \in ChildrenOn(d, y), z \in f[e.ino] PROVE c.ino \in T(y)
        <5>1. z \in Down(d, e.ino) /\ e.ino \in Ino
          BY <2>1, <4>2
        <5>2. c.ino \in Down(d, e.ino)
          BY <1>2, <3>1, <5>1 DEF Closed
        <5>. QED
          BY <2>1, <5>2
      <4>. QED
        BY <3>1, <4>1, <4>2
    <3>. QED
      BY <3>1 DEF Closed
  <2>4. f[y] \subseteq T(y)
    <3>. DEFINE S == T(y)
    <3>1. S \in SUBSET Ino /\ y \in S /\ Closed(d, S)
      BY <2>2, <2>3
    <3>. HIDE DEF S
    <3>2. Down(d, y) \subseteq S
      BY <3>1 DEF Down
    <3>. QED
      BY <3>2 DEF S
  <2>5. T(y) \subseteq f[y]
    <3>1. ASSUME NEW e \in ChildrenOn(d, y), NEW z \in Down(d, e.ino) PROVE z \in Down(d, y)
      <4>1. ASSUME NEW S \in SUBSET Ino, y \in S, Closed(d, S) PROVE z \in S
        BY <3>1, <4>1 DEF Closed, Down
      <4>. QED
        BY <3>1, <4>1 DEF Down
    <3>. QED
      BY <1>1, <2>1, <3>1
  <2>. QED
    BY <2>4, <2>5
<1>4. IsBelow(f, d)
  <2>. HIDE DEF f
  <2>1. f = [y \in Ino |-> f[y]]
    BY DEF f
  <2>2. f = [y \in Ino |-> T(y)]
    BY <1>3, <2>1
  <2>. QED
    BY <2>2 DEF IsBelow
<1>. HIDE DEF f
<1>. QED
  BY <1>4

LEMMA BelowIs ==
    ASSUME NEW d, \A x \in Ino : \A e \in ChildrenOn(d, x) : e.ino \in Ino
    PROVE  \E f : IsBelow(f, d) /\ \A x : BelowOn(d, x) = f[x]
<1>. DEFINE f == CHOOSE f : IsBelow(f, d)
<1>1. IsBelow(f, d)
  BY BelowExists
<1>2. \A x : BelowOn(d, x) = f[x]
  BY DEF BelowOn, IsBelow, Ino
<1>. HIDE DEF f
<1>. QED
  BY <1>1, <1>2

\* What is below y is in use, all of it, and each has a directory there that names it.
Beneath(V, B, y) ==
    /\ y \in B /\ B \subseteq V.bits \ {FATHER}
    /\ \A z \in B : DirIn(V, z) => \A i \in 3..Len(V.lists[z]) : V.lists[z][i].ino \in B
    /\ \A z \in B : z = y \/ \E x \in B : DirIn(V, x) /\ \E i \in 3..Len(V.lists[x]) : V.lists[x][i].ino = z

LEMMA BeneathEach ==
    ASSUME NEW d, Shape(d), NEW r, Tidy(View(d), r), NEW f, IsBelow(f, d), NEW y \in View(d).bits \ {FATHER},
           \A e \in ChildrenOn(d, y) : Beneath(View(d), f[e.ino], e.ino)
    PROVE  Beneath(View(d), f[y], y)
<1>. DEFINE V == View(d)
            C == ChildrenOn(d, y)
            B == f[y]
<1>1. y \in Ino /\ B = {y} \union UNION {f[e.ino] : e \in C}
  BY TidyParts DEF IsBelow
<1>2. ~DirIn(V, y) => C = {}
  <2>1. ~DirIn(V, y) => V.lists[y] = <<>>
    BY <1>1, ViewFacts DEF DirIn
  <2>2. V.lists[y] = <<>> => C = {}
    BY <1>1, NamedOn
  <2>. QED
    BY <2>1, <2>2
<1>3. DirIn(V, y) => \A e : e \in C <=> \E i \in 3..Len(V.lists[y]) : e = V.lists[y][i]
  BY ChildrenIn
<1>4. \A e \in C : Beneath(V, f[e.ino], e.ino)
  OBVIOUS
<1>. HIDE DEF V, C, B
<1>5. y \in B /\ B \subseteq V.bits \ {FATHER}
  BY <1>1, <1>4 DEF Beneath, V
<1>6. ASSUME NEW z \in B, DirIn(V, z), NEW i \in 3..Len(V.lists[z]) PROVE V.lists[z][i].ino \in B
  <2>1. CASE z = y
    <3>1. V.lists[z][i] \in C
      BY <1>3, <1>6, <2>1
    <3>2. V.lists[z][i].ino \in f[V.lists[z][i].ino]
      BY <1>4, <3>1 DEF Beneath
    <3>. QED
      BY <1>1, <3>1, <3>2
  <2>2. ASSUME NEW e \in C, z \in f[e.ino] PROVE V.lists[z][i].ino \in B
    <3>1. V.lists[z][i].ino \in f[e.ino]
      BY <1>4, <1>6, <2>2 DEF Beneath
    <3>. QED
      BY <1>1, <3>1
  <2>. QED
    BY <1>1, <1>6, <2>1, <2>2
<1>7. ASSUME NEW z \in B
      PROVE  z = y \/ \E x \in B : DirIn(V, x) /\ \E i \in 3..Len(V.lists[x]) : V.lists[x][i].ino = z
  <2>1. ASSUME NEW e \in C, z \in f[e.ino]
        PROVE  \E x \in B : DirIn(V, x) /\ \E i \in 3..Len(V.lists[x]) : V.lists[x][i].ino = z
    <3>1. CASE z = e.ino
      BY <1>2, <1>3, <1>5, <2>1, <3>1
    <3>2. CASE z # e.ino
      <4>1. \E x \in f[e.ino] : DirIn(V, x) /\ \E i \in 3..Len(V.lists[x]) : V.lists[x][i].ino = z
        BY <1>4, <2>1, <3>2 DEF Beneath
      <4>2. f[e.ino] \subseteq B
        BY <1>1
      <4>. QED
        BY <4>1, <4>2
    <3>. QED
      BY <3>1, <3>2
  <2>. QED
    BY <1>1, <1>7, <2>1
<1>8. Beneath(V, B, y)
  BY <1>5, <1>6, <1>7 DEF Beneath
<1>. QED
  BY <1>8 DEF V, B

LEMMA BeneathAll ==
    ASSUME NEW d, Shape(d), NEW r, Tidy(View(d), r), NEW f, IsBelow(f, d), NEW y \in View(d).bits \ {FATHER}
    PROVE  Beneath(View(d), f[y], y)
<1>. DEFINE V == View(d)
            Bad == {x \in V.bits \ {FATHER} : ~Beneath(V, f[x], x)}
            Rs == {r[x] : x \in Bad}
<1>1. CASE Bad = {}
  BY <1>1
<1>2. CASE Bad # {}
  <2>1. PICK k \in Nat : \A x \in Ino : r[x] <= k
    BY DEF Tidy, Ranked
  <2>2. \A x \in Bad : x \in Ino /\ r[x] \in Nat
    BY ListFacts, TidyParts
  <2>. HIDE DEF Bad
  <2>3. Rs \in SUBSET Nat /\ Rs # {} /\ \A i \in Rs : i <= k
    BY <1>2, <2>1, <2>2
  <2>4. PICK l \in Rs : \A i \in Rs : i <= l
    <3>. HIDE DEF Rs
    <3>. QED
      BY <2>3, Greatest
  <2>5. PICK x \in Bad : \A z \in Bad : r[z] <= r[x]
    BY <2>4
  <2>6. x \in V.bits \ {FATHER} /\ ~Beneath(V, f[x], x) /\ x \in Ino /\ r[x] \in Nat
    BY <2>2, <2>5 DEF Bad
  <2>7. ASSUME NEW e \in ChildrenOn(d, x) PROVE Beneath(V, f[e.ino], e.ino)
    <3>1. DirIn(V, x)
      <4>1. ~DirIn(V, x) => V.lists[x] = <<>>
        BY <2>6, ViewFacts DEF DirIn
      <4>2. V.lists[x] = <<>> => ChildrenOn(d, x) = {}
        BY <2>6, NamedOn
      <4>. QED
        BY <2>7, <4>1, <4>2
    <3>2. PICK i \in 3..Len(V.lists[x]) : e = V.lists[x][i]
      BY <2>6, <2>7, <3>1, ChildrenIn
    <3>3. e.ino \in V.bits \ {FATHER, ROOT, x} /\ r[x] < r[e.ino]
      BY <2>6, <3>1, <3>2, KidFacts
    <3>4. r[e.ino] \in Nat
      BY <3>3, ListFacts, TidyParts
    <3>5. e.ino \notin Bad
      BY <2>5, <2>6, <3>3, <3>4
    <3>. QED
      BY <3>3, <3>5 DEF Bad
  <2>8. Beneath(V, f[x], x)
    BY <2>6, <2>7, BeneathEach
  <2>. QED
    BY <2>6, <2>8
<1>. QED
  BY <1>1, <1>2

LEMMA BelowFacts ==
    ASSUME NEW d, Shape(d), NEW r, Tidy(View(d), r), NEW y \in View(d).bits \ {FATHER}
    PROVE  Beneath(View(d), BelowOn(d, y), y)
<1>1. \A x \in Ino : \A e \in ChildrenOn(d, x) : e.ino \in Ino
  BY NamedOn
<1>2. PICK f : IsBelow(f, d) /\ \A x : BelowOn(d, x) = f[x]
  BY <1>1, BelowIs
<1>. QED
  BY <1>2, BeneathAll

---------------------------------------------------------------------------
(* What the tree says of the properties.                                   *)

InTree(r) == disk.magic /\ Tidy(View(disk), r) /\ (up => \E w : Within(m0, View(disk), w))

\* The disk is as it came, or holds a tree in which the machine is.
Settled == Intact /\ ((~up /\ disk = UnformattedDisk) \/ \E r : InTree(r))

Rooted(V) ==
    /\ \A x \in Dirs : x \in V.bits \ {FATHER} /\ DirIn(V, x) /\ x \in Ino /\ Listing(x) = V.lists[x]
    /\ \A x \in Dirs : \A e : e \in Children(x) <=> \E i \in 3..Len(V.lists[x]) : e = V.lists[x][i]
    /\ \A x \in Dirs : x = ROOT \/ \E y \in Dirs : \E i \in 3..Len(V.lists[y]) : V.lists[y][i].ino = x
    /\ \A x \in Ino : disk.inode[x].type = V.types[x]
    /\ V.bits = disk.inodeBits

LEMMA DirsFacts ==
    ASSUME Intact, NEW r, InTree(r)
    PROVE  Rooted(View(disk))
<1>. DEFINE V == View(disk)
            B == BelowOn(disk, ROOT)
<1>1. Shape(disk) /\ Tidy(V, r)
  BY DEF Intact, InTree
<1>2. ROOT \in V.bits \ {FATHER} /\ V.bits \subseteq Ino
  BY <1>1, TidyParts DEF ROOT, FATHER
<1>3. Beneath(V, B, ROOT)
  BY <1>1, <1>2, BelowFacts
<1>4. Dirs = {x \in B : IsDir(x)}
  BY DEF Dirs, Reachable, Below, InTree
<1>5. \A x \in Ino : /\ disk.inode[x].type = V.types[x] /\ GetInode(disk, x) = disk.inode[x]
                      /\ V.lists[x] = ReadDirectoryList(disk, x)
  BY <1>1, ViewFacts, GetInodeIsNode
<1>6. V.bits = disk.inodeBits
  BY DEF View
<1>. HIDE DEF B
<1>7. ASSUME NEW x \in Dirs PROVE x \in V.bits \ {FATHER} /\ DirIn(V, x) /\ x \in Ino /\ Listing(x) = V.lists[x] /\ x \in B
  <2>1. x \in B /\ x \in V.bits \ {FATHER} /\ IsDir(x)
    BY <1>3, <1>4 DEF Beneath
  <2>. HIDE DEF V
  <2>. QED
    BY <1>2, <1>5, <2>1 DEF IsDir, DirIn, Listing
<1>8. ASSUME NEW x \in B, DirIn(V, x) PROVE x \in Dirs
  <2>1. x \in Ino
    BY <1>2, <1>8 DEF DirIn
  <2>. HIDE DEF V
  <2>. QED
    BY <1>4, <1>5, <1>8, <2>1 DEF IsDir, DirIn
<1>9. ASSUME NEW x \in Dirs
      PROVE  \A e : e \in Children(x) <=> \E i \in 3..Len(V.lists[x]) : e = V.lists[x][i]
  BY <1>1, <1>7, ChildrenIn DEF Children
<1>10. ASSUME NEW x \in Dirs
       PROVE  x = ROOT \/ \E y \in Dirs : \E i \in 3..Len(V.lists[y]) : V.lists[y][i].ino = x
  <2>. HIDE DEF V
  <2>. QED
    BY <1>3, <1>7, <1>8 DEF Beneath
<1>. HIDE DEF V
<1>11. Rooted(V)
  BY <1>5, <1>6, <1>7, <1>9, <1>10 DEF Rooted
<1>. QED
  BY <1>11 DEF V

LEMMA LiveInTree ==
    ASSUME Intact, NEW r, InTree(r)
    PROVE  EntriesLive
<1>. DEFINE V == View(disk)
<1>1. Tidy(V, r)
  BY DEF InTree
<1>2. Rooted(V)
  BY DirsFacts
<1>. HIDE DEF V
<1>3. ASSUME NEW x \in Dirs, NEW e \in Children(x)
      PROVE  e.ino \in disk.inodeBits /\ GetInode(disk, e.ino).type = e.type
  <2>1. PICK i \in 3..Len(V.lists[x]) : e = V.lists[x][i]
    BY <1>2 DEF Rooted
  <2>2. x \in V.bits \ {FATHER} /\ DirIn(V, x)
    BY <1>2 DEF Rooted
  <2>3. Child(V, r, x, V.lists[x][i])
    BY <1>1, <2>2, KidFacts
  <2>4. e.ino \in V.bits /\ V.types[e.ino] = e.type /\ e.ino \in Ino
    BY <1>1, <2>1, <2>3, TidyParts DEF Child
  <2>5. GetInode(disk, e.ino) = disk.inode[e.ino]
    BY <2>4, GetInodeIsNode DEF Intact
  <2>. QED
    BY <1>2, <2>4, <2>5 DEF Rooted
<1>4. ASSUME NEW x \in Dirs, NEW i \in DOMAIN Listing(x), NEW j \in DOMAIN Listing(x), Listing(x)[i].name = Listing(x)[j].name
      PROVE  i = j
  <2>1. x \in V.bits \ {FATHER} /\ DirIn(V, x) /\ x \in Ino /\ Listing(x) = V.lists[x]
    BY <1>2 DEF Rooted
  <2>2. Headed(V.lists[x], x) /\ IsSeq(V.lists[x])
    BY <1>1, <2>1, ListFacts DEF Tidy, HeadsTrue
  <2>3. DOMAIN V.lists[x] = 1..Len(V.lists[x])
    <3>. DEFINE s == V.lists[x]
    <3>1. IsSeq(s)
      BY <2>2
    <3>. HIDE DEF s
    <3>2. DOMAIN s = 1..Len(s)
      BY <3>1, SeqFacts
    <3>. QED
      BY <3>2 DEF s
  <2>. QED
    BY <1>4, <2>1, <2>2, <2>3 DEF Headed
<1>5. ASSUME NEW x \in Dirs, NEW y \in Dirs, NEW e \in Children(x), NEW f \in Children(y), e.ino = f.ino
      PROVE  x = y /\ e = f
  <2>1. PICK i \in 3..Len(V.lists[x]) : e = V.lists[x][i]
    BY <1>2 DEF Rooted
  <2>2. PICK j \in 3..Len(V.lists[y]) : f = V.lists[y][j]
    BY <1>2 DEF Rooted
  <2>3. x \in V.bits \ {FATHER} /\ DirIn(V, x) /\ y \in V.bits \ {FATHER} /\ DirIn(V, y)
    BY <1>2 DEF Rooted
  <2>4. Kid(V, x, i) /\ Kid(V, y, j)
    BY <1>1, <2>3, KidFacts
  <2>5. i \in 1..Len(V.lists[x]) /\ j \in 1..Len(V.lists[y])
    BY <2>4 DEF Kid
  <2>6. V.lists[x][i].ino = V.lists[y][j].ino
    BY <1>5, <2>1, <2>2
  <2>7. x = y /\ i = j
    BY <1>1, <2>3, <2>4, <2>5, <2>6 DEF Tidy, NamedOnce
  <2>. QED
    BY <2>1, <2>2, <2>7
<1>. QED
  BY <1>3, <1>4, <1>5 DEF EntriesLive

LEMMA DotsInTree ==
    ASSUME Intact, NEW r, InTree(r)
    PROVE  DotsTrue
<1>. DEFINE V == View(disk)
<1>1. Tidy(V, r)
  BY DEF InTree
<1>2. Rooted(V)
  BY DirsFacts
<1>. HIDE DEF V
<1>. SUFFICES ASSUME NEW x \in Dirs, Whole(x)
              PROVE  /\ Listing(x)[1] = Entry(".", x, "dir") /\ Listing(x)[2].name = ".."
                     /\ x = ROOT \/ x \in ChildrenOf(Listing(x)[2].ino)
  BY DEF DotsTrue
<1>3. x \in V.bits \ {FATHER} /\ DirIn(V, x) /\ x \in Ino /\ Listing(x) = V.lists[x]
  BY <1>2 DEF Rooted
<1>4. Headed(V.lists[x], x) /\ Len(V.lists[x]) \in Nat
  BY <1>1, <1>3, ListFacts DEF Tidy, HeadsTrue
<1>5. Len(V.lists[x]) >= 2 /\ Len(V.lists[x]) >= 1
  BY <1>3, <1>4 DEF Whole
<1>6. ASSUME x # ROOT PROVE x \in ChildrenOf(Listing(x)[2].ino)
  <2>1. PICK y \in Dirs : \E i \in 3..Len(V.lists[y]) : V.lists[y][i].ino = x
    BY <1>2, <1>6 DEF Rooted
  <2>2. PICK i \in 3..Len(V.lists[y]) : V.lists[y][i].ino = x
    BY <2>1
  <2>3. y \in V.bits \ {FATHER} /\ DirIn(V, y)
    BY <1>2, <2>1 DEF Rooted
  <2>. DEFINE e == V.lists[y][i]
  <2>4. Child(V, r, y, e)
    BY <1>1, <2>2, <2>3, KidFacts
  <2>5. e \in Children(y)
    BY <1>2, <2>1, <2>2 DEF Rooted
  <2>6. e.ino = x
    BY <2>2
  <2>. HIDE DEF e
  <2>7. e.type = "dir"
    BY <1>3, <2>4, <2>6 DEF Child, DirIn
  <2>8. V.lists[x][2].ino = y
    BY <1>5, <2>4, <2>6, <2>7 DEF Child
  <2>9. x \in ChildrenOf(y)
    BY <2>5, <2>6 DEF ChildrenOf
  <2>. QED
    BY <1>3, <2>8, <2>9
<1>. QED
  BY <1>3, <1>4, <1>5, <1>6 DEF Headed

LEMMA ListInTree ==
    ASSUME Intact, NEW r, InTree(r)
    PROVE  ListIsDisk
<1>. SUFFICES ASSUME up PROVE list = Listing(cwd)
  BY DEF ListIsDisk
<1>1. PICK w : Within(m0, View(disk), w)
  BY DEF InTree
<1>2. Shape(disk) /\ Tidy(View(disk), r)
  BY DEF InTree, Intact
<1>3. m0.cwd \in Ino /\ m0.list = View(disk).lists[m0.cwd]
  BY <1>1, <1>2, WithinFacts
<1>4. m0.cwd = cwd /\ m0.list = list
  BY DEF m0, Machine
<1>. QED
  BY <1>2, <1>3, <1>4, ViewFacts DEF Listing

\* What leads one name further.
Ahead(xs, name) == {e.ino : e \in {f \in UNION {Children(x) : x \in xs} : f.name = name}}

LEMMA LeadsOn ==
    ASSUME Intact, NEW r, InTree(r), NEW p, NEW w, Walk(View(disk), p, w), NEW k \in 1..Len(p)
    PROVE  Ahead({w[k - 1]}, p[k]) = {w[k]}
<1>. DEFINE V == View(disk)
            x == w[k - 1]
<1>1. Shape(disk) /\ Tidy(V, r) /\ Walk(V, p, w)
  BY DEF InTree, Intact
<1>2. x \in V.bits \ {FATHER} /\ DirIn(V, x)
  <2>1. k - 1 \in 0..Len(p)
    BY <1>1, WalkFacts
  <2>. QED
    BY <1>1, <2>1, WalkFacts
<1>3. PICK i \in 3..Len(V.lists[x]) : V.lists[x][i] = Entry(p[k], w[k], "dir")
  BY <1>1 DEF Walk
<1>4. \A e : e \in Children(x) <=> \E j \in 3..Len(V.lists[x]) : e = V.lists[x][j]
  BY <1>1, <1>2, ChildrenIn DEF Children
<1>5. Headed(V.lists[x], x) /\ Len(V.lists[x]) \in Nat
  BY <1>1, <1>2, TidyParts, ListFacts DEF Tidy, HeadsTrue
<1>. HIDE DEF V, x
<1>6. V.lists[x][i].name = p[k] /\ V.lists[x][i].ino = w[k]
  BY <1>3 DEF Entry
<1>7. \A j \in 3..Len(V.lists[x]) : V.lists[x][j].name = p[k] => j = i
  BY <1>5, <1>6 DEF Headed
<1>8. \A e : e \in Children(x) /\ e.name = p[k] <=> e = V.lists[x][i]
  BY <1>4, <1>6, <1>7
<1>9. Ahead({x}, p[k]) = {w[k]}
  BY <1>6, <1>8 DEF Ahead
<1>. QED
  BY <1>9 DEF x

IsLead(f) == f = [n \in 0..Len(path) |-> IF n = 0 THEN {ROOT} ELSE Ahead(f[n - 1], path[n])]

LEMMA PathInTree ==
    ASSUME Intact, NEW r, InTree(r)
    PROVE  PathLeads
<1>. SUFFICES ASSUME up PROVE PathLeads
  BY DEF PathLeads
<1>1. PICK w : Within(m0, View(disk), w)
  BY DEF InTree
<1>2. m0.cwd = cwd /\ m0.path = path
  BY DEF m0, Machine
<1>3. Walk(View(disk), path, w) /\ cwd = w[Len(path)] /\ w[0] = ROOT
  BY <1>1, <1>2 DEF Within, Walk
<1>4. Len(path) \in Nat
  BY <1>3, WalkFacts DEF InTree
<1>5. \A k \in 1..Len(path) : Ahead({w[k - 1]}, path[k]) = {w[k]}
  BY <1>3, LeadsOn
<1>. DEFINE A == [n \in 0..Len(path) |-> {w[n]}]
<1>6. IsLead(A)
  <2>1. ASSUME NEW n \in 0..Len(path) PROVE A[n] = IF n = 0 THEN {ROOT} ELSE Ahead(A[n - 1], path[n])
    <3>1. CASE n = 0
      BY <1>3, <3>1
    <3>2. CASE n # 0
      <4>1. n \in 1..Len(path) /\ n - 1 \in 0..Len(path)
        BY <1>4, <3>2
      <4>. QED
        BY <1>5, <3>2, <4>1
    <3>. QED
      BY <3>1, <3>2
  <2>. QED
    BY <2>1 DEF IsLead
<1>. DEFINE at == CHOOSE f : IsLead(f)
<1>7. IsLead(at)
  <2>. HIDE DEF A
  <2>. QED
    BY <1>6
<1>8. PathLeads <=> (up => at[Len(path)] = {cwd})
  BY DEF PathLeads, IsLead, Ahead
<1>. HIDE DEF at, A
<1>9. at[Len(path)] = {w[Len(path)]}
  <2>. DEFINE Bad == {k \in 0..Len(path) : at[k] # {w[k]}}
  <2>1. CASE Bad = {}
    BY <1>4, <2>1
  <2>2. CASE Bad # {}
    <3>1. PICK k \in Bad : \A j \in Bad : k <= j
      <4>1. Bad \in SUBSET Nat
        OBVIOUS
      <4>. HIDE DEF Bad
      <4>. QED
        BY <2>2, <4>1, MinIsLeast
    <3>2. CASE k = 0
      BY <1>3, <1>7, <3>1, <3>2 DEF IsLead
    <3>3. CASE k # 0
      <4>1. k - 1 \in 0..Len(path) /\ k - 1 \notin Bad /\ k \in 1..Len(path) /\ k \in 0..Len(path)
        BY <1>4, <3>1, <3>3
      <4>2. at[k - 1] = {w[k - 1]}
        BY <4>1
      <4>3. at[k] = Ahead(at[k - 1], path[k])
        BY <1>7, <3>3, <4>1 DEF IsLead
      <4>. QED
        BY <1>5, <3>1, <4>1, <4>2, <4>3
    <3>. QED
      BY <3>2, <3>3
  <2>. QED
    BY <2>1, <2>2
<1>. QED
  BY <1>3, <1>8, <1>9

LEMMA UnformattedIsFine ==
    ASSUME ~up, disk = UnformattedDisk
    PROVE  EntriesLive /\ DotsTrue /\ ListIsDisk /\ PathLeads
<1>1. Dirs = {}
  BY DEF Dirs, Reachable, UnformattedDisk
<1>. QED
  BY <1>1 DEF EntriesLive, DotsTrue, ListIsDisk, PathLeads

LEMMA SettledIsFine == Settled => EntriesLive /\ DotsTrue /\ ListIsDisk /\ PathLeads
BY UnformattedIsFine, LiveInTree, DotsInTree, ListInTree, PathInTree DEF Settled

---------------------------------------------------------------------------
(* The commands, from a settled state to a settled state.                  *)

\* Every command stops before the blocks run out or would be spent.
BlocksLeft == MaxBlocks < DataStart - 1 /\ MaxBlocks < NumBlocks

\* A name is neither "." nor ".." nor "/".
PlainNames == \A n \in Names \union {HomeDir, Hello} \union ToSet(SubDirs) : n \notin Dots \union {"/"}

\* The commands that may lose power lose no name and no inode by it.
CrashesKeep == CrashIn \subseteq {"touch", "mkdir", "write", "append"}

LEMMA NotOff ==
    ASSUME BlocksLeft, NEW bits \in SUBSET Blk, Cardinality(bits) <= MaxBlocks
    PROVE  ~Off(bits)
<1>1. Limit \in Nat /\ 1 \in Int /\ MaxBlocks \in Nat /\ MaxBlocks < Limit
  BY Constants, InputAssumption DEF Limit, BlocksLeft
<1>2. Cardinality(1..Limit) = Limit
  <2>1. Limit \in Int /\ 1 \in Int /\ Limit >= 1
    BY <1>1
  <2>. HIDE DEF Limit
  <2>2. Cardinality(1..Limit) = IF 1 > Limit THEN 0 ELSE Limit - 1 + 1
    BY <2>1, FS_Interval
  <2>. QED
    BY <2>1, <2>2
<1>3. IsFiniteSet(bits) /\ Cardinality(bits) \in Nat
  <2>1. IsFiniteSet(Blk)
    BY Constants, FS_Interval DEF Blk
  <2>2. IsFiniteSet(bits)
    BY <2>1, FS_Subset
  <2>. QED
    BY <2>2, FS_CardinalityType
<1>4. ASSUME 1..Limit \in SUBSET bits PROVE FALSE
  <2>1. Cardinality(1..Limit) <= Cardinality(bits)
    BY <1>3, <1>4, FS_Subset
  <2>. QED
    BY <1>1, <1>2, <1>3, <2>1
<1>. QED
  BY <1>4 DEF Off

\* The machine of a command.
LEMMA MachineAt ==
    ASSUME Intact, up, NEW r, InTree(r)
    PROVE  /\ \E w : At(disk.blockBits, m0, r, w)
           /\ Kept(m0) /\ m0.disk = disk /\ m0.cwd = cwd /\ m0.list = list /\ m0.path = path /\ Shape(disk)
<1>1. Good(disk) /\ IsSeq(list)
  BY DEF Intact, Good, Fine
<1>2. Sound(disk.blockBits, m0)
  BY <1>1, MachineSound DEF m0
<1>3. m0.disk = disk /\ m0.cwd = cwd /\ m0.list = list /\ m0.path = path /\ m0.log = <<>>
  BY DEF m0, Machine
<1>4. Kept(m0)
  <2>1. ToSet(<<>>) = {}
    BY DEF ToSet
  <2>. QED
    BY <1>3, <2>1 DEF Kept
<1>5. PICK w : Within(m0, View(disk), w)
  BY DEF InTree
<1>6. At(disk.blockBits, m0, r, w)
  BY <1>2, <1>3, <1>5 DEF At, Neat, InTree
<1>. QED
  BY <1>1, <1>3, <1>4, <1>6 DEF Good

\* Where a command ends, or loses power, the state is settled.
LEMMA RunsSettled ==
    ASSUME BlocksLeft, Intact, Intact', NEW r, InTree(r), NEW n, NEW command, Runs(command, n),
           ~Off(n.disk.blockBits) => Leaves(disk.blockBits, n),
           Sound(disk.blockBits, n),
           command \in CrashIn /\ ~Off(n.disk.blockBits) => Kept(n)
    PROVE  Settled'
<1>1. ~Off(n.disk.blockBits)
  <2>1. n.disk.blockBits \in SUBSET Blk /\ Cardinality(n.disk.blockBits) <= MaxBlocks
    BY DEF Runs, Sound, Good, Shape
  <2>. QED
    BY <2>1, NotOff
<1>2. CASE Completes(n)
  <2>1. PICK q, w : At(disk.blockBits, n, q, w)
    BY <1>1 DEF Leaves
  <2>2. n.disk.magic /\ Tidy(View(n.disk), q) /\ Within(n, View(n.disk), w)
    BY <2>1, AtFacts
  <2>3. disk' = n.disk /\ m0'.cwd = n.cwd /\ m0'.list = n.list /\ m0'.path = n.path
    BY <1>2 DEF Completes, m0, Machine
  <2>4. Within(m0', View(disk'), w)
    BY <2>2, <2>3 DEF Within
  <2>5. disk'.magic /\ Tidy(View(disk'), q)
    BY <2>2, <2>3
  <2>6. InTree(q)'
    BY <2>4, <2>5 DEF InTree
  <2>. QED
    BY <2>6 DEF Settled
<1>3. CASE command \in CrashIn /\ LosesPower(n)
  <2>1. ~up' /\ (disk' = disk \/ disk' \in ToSet(n.log))
    BY <1>3 DEF LosesPower
  <2>2. disk'.magic /\ \E q : Tidy(View(disk'), q)
    BY <1>1, <1>3, <2>1 DEF Kept, InTree
  <2>3. PICK q : Tidy(View(disk'), q)
    BY <2>2
  <2>4. InTree(q)'
    BY <2>1, <2>2, <2>3 DEF InTree
  <2>. QED
    BY <2>4 DEF Settled
<1>. QED
  BY <1>2, <1>3 DEF Runs

LEMMA RoomLeft ==
    ASSUME Intact, NEW x \in Ino, DirIn(View(disk), x), RoomIn(x)
    PROVE  Len(View(disk).lists[x]) < NumPtrs * BlockUnits
<1>1. Shape(disk)
  BY DEF Intact
<1>2. Len(View(disk).lists[x]) = GetInode(disk, x).size
  BY <1>1, RoomHere, GetInodeIsNode
<1>. QED
  BY <1>2 DEF RoomIn

LEMMA TouchSettles ==
    ASSUME BlocksLeft, PlainNames, CrashesKeep, Intact, Intact', NEW r, InTree(r), NEW name \in Names, Touch(name)
    PROVE  Settled'
<1>. DEFINE made == CreateDirEntry(m0, name, "file")
            n == AddDirEntryToPath(made.m, made.entry)
            b == disk.blockBits
<1>1. up /\ InodeFree /\ RoomIn(cwd) /\ Runs("touch", n)
  BY DEF Touch
<1>2. PICK w : At(b, m0, r, w)
  BY <1>1, MachineAt
<1>3. Kept(m0) /\ m0.disk = disk /\ m0.cwd = cwd /\ m0.list = list /\ Shape(disk)
  BY <1>1, MachineAt
<1>4. Sound(b, m0)
  BY <1>2, AtFacts
<1>5. Sound(b, n)
  <2>1. Sound(b, made.m)
    BY <1>4, CreateDirEntrySound DEF Kinds
  <2>. HIDE DEF made
  <2>. QED
    BY <2>1, AddDirEntrySound
<1>6. View(m0.disk).bits # Ino
  BY <1>1, <1>3, FirstInodes DEF InodeFree, View, Ino
<1>7. Len(m0.list) < NumPtrs * BlockUnits
  <2>1. cwd \in Ino /\ DirIn(View(disk), cwd) /\ m0.list = View(disk).lists[cwd]
    BY <1>2, <1>3, AtFacts
  <2>. QED
    BY <1>1, <2>1, RoomLeft
<1>8. name \notin Dots \union {"/"}
  BY DEF PlainNames
<1>. HIDE DEF made, b
<1>9. made = CreateDirEntry(m0, name, "file")
  BY DEF made
<1>. HIDE DEF n
<1>10. n = AddDirEntryToPath(made.m, made.entry)
  BY DEF n
<1>11. ~Off(n.disk.blockBits) => Leaves(b, n) /\ Kept(n)
  BY <1>2, <1>3, <1>6, <1>7, <1>8, <1>9, <1>10, TouchHere
<1>. QED
  BY <1>1, <1>5, <1>11, RunsSettled DEF b

LEMMA MkdirSettles ==
    ASSUME BlocksLeft, PlainNames, CrashesKeep, NumPtrs * BlockUnits >= 2,
           Intact, Intact', NEW r, InTree(r), NEW name \in Names, Mkdir(name)
    PROVE  Settled'
<1>. DEFINE n == CreateNewDirectory(m0, name)
            b == disk.blockBits
            x == GetFreeInodeIdx(View(m0.disk).bits)
<1>1. up /\ InodeFree /\ RoomIn(cwd) /\ Runs("mkdir", n)
  BY DEF Mkdir
<1>2. PICK w : At(b, m0, r, w)
  BY <1>1, MachineAt
<1>3. Kept(m0) /\ m0.disk = disk /\ m0.cwd = cwd /\ m0.list = list /\ Shape(disk)
  BY <1>1, MachineAt
<1>4. Sound(b, n)
  BY <1>2, AtFacts, CreateNewDirectorySound
<1>6. View(m0.disk).bits # Ino
  BY <1>1, <1>3, FirstInodes DEF InodeFree, View, Ino
<1>7. Len(m0.list) < NumPtrs * BlockUnits
  <2>1. cwd \in Ino /\ DirIn(View(disk), cwd) /\ m0.list = View(disk).lists[cwd]
    BY <1>2, <1>3, AtFacts
  <2>. QED
    BY <1>1, <2>1, RoomLeft
<1>8. name \notin Dots \union {"/"}
  BY DEF PlainNames
<1>. HIDE DEF n, b, x
<1>9. n = CreateNewDirectory(m0, name) /\ x = GetFreeInodeIdx(View(m0.disk).bits)
  BY DEF n, x
<1>10. ~Off(n.disk.blockBits) => (\E q : At(b, n, q, w)) /\ (Kept(m0) => Kept(n))
  BY <1>2, <1>6, <1>7, <1>8, <1>9, MkdirHere
<1>11. ~Off(n.disk.blockBits) => Leaves(b, n) /\ Kept(n)
  BY <1>3, <1>10 DEF Leaves
<1>. QED
  BY <1>1, <1>4, <1>11, RunsSettled DEF b

LEMMA RmSettles ==
    ASSUME BlocksLeft, CrashesKeep, Intact, Intact', NEW r, InTree(r), NEW name, Rm(name)
    PROVE  Settled'
<1>. DEFINE n == DeleteFile(m0, name)
            b == disk.blockBits
<1>1. up /\ Runs("rm", n)
  BY DEF Rm
<1>2. PICK w : At(b, m0, r, w)
  BY <1>1, MachineAt
<1>3. Sound(b, n)
  BY <1>2, AtFacts, DeleteFileSound
<1>. HIDE DEF n, b
<1>4. n = DeleteFile(m0, name)
  BY DEF n
<1>5. ~Off(n.disk.blockBits) => Leaves(b, n)
  BY <1>2, <1>4, DeleteFileHere DEF Leaves
<1>6. "rm" \notin CrashIn
  BY DEF CrashesKeep
<1>. QED
  BY <1>1, <1>3, <1>5, <1>6, RunsSettled DEF b

LEMMA RmdirSettles ==
    ASSUME BlocksLeft, PlainNames, CrashesKeep, Intact, Intact', NEW r, InTree(r), NEW name \in Names, Rmdir(name)
    PROVE  Settled'
<1>. DEFINE n == DeleteDir(m0, name)
            b == disk.blockBits
            e == GetDirEntry(m0, name)
            U == IF e.ino = 0 THEN {} ELSE BelowOn(disk, e.ino)
            V == View(disk)
<1>1. up /\ Runs("rmdir", n) /\ \A x \in U : IsDir(x) => Whole(x)
  BY DEF Rmdir, Here, Below
<1>2. PICK w : At(b, m0, r, w)
  BY <1>1, MachineAt
<1>3. m0.disk = disk /\ Shape(disk) /\ Tidy(V, r)
  BY <1>1, MachineAt DEF InTree
<1>4. Sound(b, n)
  BY <1>2, AtFacts, DeleteDirSound
<1>5. name \notin Dots \union {"/"}
  BY DEF PlainNames
<1>6. Heaped(V, U) /\ (e.ino # 0 => e.ino \in U)
  <2>1. CASE e.ino = 0
    BY <2>1 DEF Heaped
  <2>2. CASE e.ino # 0
    <3>1. PICK i : Names3(m0, r, name, i)
      <4>1. e # NoEntry
        BY <2>2, NoEntryIs DEF NoEntryFacts
      <4>. QED
        BY <1>2, <1>5, <4>1, FindsPlain
    <3>2. e.ino \in V.bits \ {FATHER}
      BY <1>3, <3>1 DEF Names3
    <3>3. Beneath(V, U, e.ino)
      BY <1>3, <2>2, <3>2, BelowFacts
    <3>. HIDE DEF e, U
    <3>4. U \subseteq Ino
      BY <1>3, <3>3, TidyParts DEF Beneath
    <3>5. ASSUME NEW x \in U, DirIn(V, x) PROVE Len(V.lists[x]) >= 2
      <4>1. x \in Ino
        BY <3>4
      <4>2. IsDir(x)
        BY <1>3, <3>5, <4>1, ViewFacts, GetInodeIsNode DEF DirIn, IsDir
      <4>3. V.lists[x] = Listing(x)
        BY <1>3, <4>1, ViewFacts DEF Listing
      <4>. QED
        BY <1>1, <4>2, <4>3 DEF Whole
    <3>. QED
      BY <3>3, <3>4, <3>5 DEF Heaped, Beneath
  <2>. QED
    BY <2>1, <2>2
<1>. HIDE DEF n, b, e, U
<1>7. n = DeleteDir(m0, name) /\ e = GetDirEntry(m0, name) /\ Heaped(View(m0.disk), U)
  BY <1>3, <1>6 DEF n, e
<1>8. ~Off(n.disk.blockBits) => Leaves(b, n)
  BY <1>2, <1>5, <1>6, <1>7, RmdirHere
<1>9. "rmdir" \notin CrashIn
  BY DEF CrashesKeep
<1>. QED
  BY <1>1, <1>4, <1>8, <1>9, RunsSettled DEF b

LEMMA TextIsSeq ==
    ASSUME NEW text \in Texts
    PROVE  IsSeq(text \o <<Zero>>)
<1>1. IsSeq(text)
  BY InputAssumption DEF IsSeq
<1>. QED
  BY <1>1, SingleIsSeq, ConcatIsSeq

LEMMA WriteSettles ==
    ASSUME BlocksLeft, PlainNames, Intact, Intact', NEW r, InTree(r),
           NEW name \in Names, NEW text \in Texts, Write(name, text)
    PROVE  Settled'
<1>. DEFINE units == text \o <<Zero>>
            n == WriteToFile(m0, name, units)
            b == disk.blockBits
<1>1. up /\ Runs("write", n) /\ GetDirEntry(m0, name).type # "dir"
  BY DEF Write, Here
<1>2. PICK w : At(b, m0, r, w)
  BY <1>1, MachineAt
<1>3. Kept(m0)
  BY <1>1, MachineAt
<1>4. IsSeq(units)
  BY TextIsSeq
<1>. HIDE DEF units
<1>5. Sound(b, n)
  BY <1>2, <1>4, AtFacts, WriteToFileSound
<1>6. name \notin Dots \union {"/"}
  BY DEF PlainNames
<1>. HIDE DEF n, b
<1>7. n = WriteToFile(m0, name, units)
  BY DEF n
<1>8. ~Off(n.disk.blockBits) => At(b, n, r, w) /\ (Kept(m0) => Kept(n))
  BY <1>1, <1>2, <1>4, <1>6, <1>7, WriteFileHere
<1>9. ~Off(n.disk.blockBits) => Leaves(b, n) /\ Kept(n)
  BY <1>3, <1>8 DEF Leaves
<1>. QED
  BY <1>1, <1>5, <1>9, RunsSettled DEF b

LEMMA AppendSettles ==
    ASSUME BlocksLeft, PlainNames, Intact, Intact', NEW r, InTree(r),
           NEW name \in Names, NEW text \in Texts, AppendText(name, text)
    PROVE  Settled'
<1>. DEFINE old == ReadFromFile(m0.disk, m0.cwd, name)
            units == Front(old) \o (text \o <<Zero>>) \o <<Zero>>
            n == AppendToFile(m0, name, text \o <<Zero>>)
            b == disk.blockBits
<1>1. up /\ Runs("append", n) /\ GetDirEntry(m0, name).type = "file"
  BY DEF AppendText, Here
<1>2. PICK w : At(b, m0, r, w)
  BY <1>1, MachineAt
<1>3. Kept(m0)
  BY <1>1, MachineAt
<1>4. IsSeq(units)
  <2>1. IsSeq(old)
    BY <1>2, AtFacts, DataIsSeq DEF ReadFromFile
  <2>2. IsSeq(text \o <<Zero>>)
    BY TextIsSeq
  <2>. HIDE DEF old
  <2>3. IsSeq(Front(old)) /\ IsSeq(<<Zero>>)
    BY <2>1, PartsAreSeq, SingleIsSeq
  <2>4. IsSeq(Front(old) \o (text \o <<Zero>>))
    BY <2>2, <2>3, ConcatIsSeq
  <2>. QED
    BY <2>3, <2>4, ConcatIsSeq
<1>5. n = WriteToFile(m0, name, units)
  BY DEF AppendToFile
<1>. HIDE DEF units, n
<1>6. Sound(b, n)
  BY <1>2, <1>4, <1>5, AtFacts, WriteToFileSound
<1>. HIDE DEF b
<1>7. GetDirEntry(m0, name).type # "dir"
  BY <1>1
<1>8. ~Off(n.disk.blockBits) => At(b, n, r, w) /\ (Kept(m0) => Kept(n))
  BY <1>1, <1>2, <1>4, <1>5, <1>7, WriteFileHere
<1>9. ~Off(n.disk.blockBits) => Leaves(b, n) /\ Kept(n)
  BY <1>3, <1>8 DEF Leaves
<1>10. Runs("append", n)
  BY <1>1
<1>. QED
  BY <1>6, <1>9, <1>10, RunsSettled DEF b

LEMMA CdSettles ==
    ASSUME BlocksLeft, CrashesKeep, Intact, Intact', NEW r, InTree(r), NEW name, Cd(name)
    PROVE  Settled'
<1>. DEFINE n == ChangeDir(m0, name)
            b == disk.blockBits
            x == GetDirEntry(m0, name).ino
<1>1. up /\ Runs("cd", n) /\ (name = ".." => cwd # ROOT) /\ (CanEnter(m0, name) => Whole(x))
  BY DEF Cd, Here
<1>2. PICK w : At(b, m0, r, w)
  BY <1>1, MachineAt
<1>3. m0.disk = disk /\ m0.cwd = cwd /\ Shape(disk) /\ Tidy(View(disk), r)
  BY <1>1, MachineAt DEF InTree
<1>4. Sound(b, n)
  BY <1>2, AtFacts, ChangeDirSound
<1>5. CanEnter(m0, name) => Len(View(m0.disk).lists[x]) >= 2
  <2>1. ASSUME CanEnter(m0, name) PROVE x \in Ino
    <3>1. CASE name = "/"
      <4>1. x = ROOT
        BY <1>2, <3>1, LookUp DEF Entry
      <4>. QED
        BY <1>3, <4>1, TidyParts
    <3>2. CASE name # "/"
      <4>1. GetDirEntry(m0, name) # NoEntry
        BY <2>1, NoEntryIs DEF CanEnter, NoEntryFacts
      <4>2. PICK i : Finds(m0, name, i) /\ GetDirEntry(m0, name) = m0.list[i]
        BY <1>2, <3>2, <4>1, LookUp
      <4>3. m0.cwd \in Ino /\ m0.list = View(disk).lists[m0.cwd] /\ i \in 1..Len(m0.list)
        BY <1>2, <1>3, <4>2, AtFacts DEF Finds
      <4>4. \A j \in 1..Len(View(disk).lists[m0.cwd]) : View(disk).lists[m0.cwd][j].ino \in Ino
        BY <1>3, <4>3, ListFacts
      <4>5. m0.list[i].ino \in Ino
        BY <4>3, <4>4
      <4>. QED
        BY <4>2, <4>5
    <3>. QED
      BY <3>1, <3>2
  <2>. HIDE DEF x
  <2>2. ASSUME CanEnter(m0, name) PROVE Len(View(m0.disk).lists[x]) >= 2
    <3>1. View(disk).lists[x] = ReadDirectoryList(disk, x)
      BY <1>3, <2>1, <2>2, ViewFacts
    <3>. QED
      BY <1>1, <1>3, <2>2, <3>1 DEF Whole, Listing
  <2>. QED
    BY <2>2
<1>. HIDE DEF n, b
<1>6. n = ChangeDir(m0, name) /\ (name = ".." => m0.cwd # ROOT)
  BY <1>1, <1>3 DEF n
<1>7. (\E v : At(b, n, r, v)) /\ Reads(n, m0)
  BY <1>2, <1>5, <1>6, CdHere
<1>8. Leaves(b, n)
  BY <1>7 DEF Leaves
<1>9. "cd" \notin CrashIn
  BY DEF CrashesKeep
<1>. QED
  BY <1>1, <1>4, <1>8, <1>9, RunsSettled DEF b

LEMMA RenameSettles ==
    ASSUME BlocksLeft, PlainNames, CrashesKeep, Intact, Intact', NEW r, InTree(r),
           NEW src \in Names, NEW new \in Names, Rename(src, new)
    PROVE  Settled'
<1>. DEFINE n == RenameEntry(m0, src, new)
            b == disk.blockBits
<1>1. up /\ Runs("rename", n)
  BY DEF Rename
<1>2. PICK w : At(b, m0, r, w)
  BY <1>1, MachineAt
<1>3. Sound(b, n)
  BY <1>2, AtFacts, RenameSound
<1>4. src \notin Dots \union {"/"} /\ new \notin Dots \union {"/"}
  BY DEF PlainNames
<1>. HIDE DEF n, b
<1>5. n = RenameEntry(m0, src, new)
  BY DEF n
<1>6. ~Off(n.disk.blockBits) => Leaves(b, n)
  BY <1>2, <1>4, <1>5, RenameHere
<1>7. "rename" \notin CrashIn
  BY DEF CrashesKeep
<1>. QED
  BY <1>1, <1>3, <1>6, <1>7, RunsSettled DEF b

LEMMA LsSettles ==
    ASSUME BlocksLeft, CrashesKeep, Intact, Intact', NEW r, InTree(r), Ls
    PROVE  Settled'
<1>. DEFINE s == ReadDirectoryList(disk, cwd)
            n == [m0 EXCEPT !.list = s]
            b == disk.blockBits
<1>1. up /\ Runs("ls", n)
  BY DEF Ls
<1>2. PICK w : At(b, m0, r, w)
  BY <1>1, MachineAt
<1>3. m0.disk = disk /\ m0.cwd = cwd
  BY <1>1, MachineAt
<1>4. m0.list = s /\ IsSeq(s)
  BY <1>2, <1>3, AtFacts
<1>. HIDE DEF s
<1>5. n = m0
  BY <1>4 DEF m0, Machine
<1>6. Sound(b, n) /\ Leaves(b, n)
  BY <1>2, <1>5, AtFacts DEF Leaves
<1>7. "ls" \notin CrashIn
  BY DEF CrashesKeep
<1>. HIDE DEF n
<1>. QED
  BY <1>1, <1>6, <1>7, RunsSettled

LEMMA CutSettles ==
    ASSUME Intact, Intact', NEW r, InTree(r), PowerCut
    PROVE  Settled'
<1>1. ~up' /\ disk' = disk
  BY DEF PowerCut, LosesPower, m0, Machine, ToSet
<1>2. InTree(r)'
  BY <1>1 DEF InTree
<1>. QED
  BY <1>2 DEF Settled

\* The directories that can be entered from here, but by "/" and ".".
LEMMA EntersDirs ==
    ASSUME NEW b, NEW m, NEW r, NEW w, At(b, m, r, w), NEW name, CanEnter(m, name),
           name \notin Dots \union {"/"} \/ (name = ".." /\ m.cwd # ROOT),
           NEW x, x = GetDirEntry(m, name).ino
    PROVE  x \in Ino /\ DirIn(View(m.disk), x)
<1>. DEFINE V == View(m.disk)
<1>1. Tidy(V, r) /\ Within(m, V, w) /\ Walk(V, m.path, w) /\ m.cwd = w[Len(m.path)] /\ m.list = V.lists[m.cwd]
      /\ Len(m.list) >= 2
  BY AtFacts DEF Within
<1>2. CASE name = ".." /\ m.cwd # ROOT
  <2>1. Len(m.path) \in Nat /\ Len(m.path) # 0
    BY <1>1, <1>2, WithinFacts
  <2>. DEFINE l == Len(m.path)
  <2>2. l \in 1..l /\ l - 1 \in 0..l
    BY <2>1
  <2>3. DirIn(V, w[l - 1]) /\ (Len(V.lists[w[l]]) >= 2 => V.lists[w[l]][2].ino = w[l - 1])
    <3>. HIDE DEF V
    <3>. QED
      BY <1>1, <2>2, WalkFacts
  <2>4. x = w[l - 1]
    BY <1>1, <1>2, <2>3, FindsDots
  <2>5. DirIn(V, x)
    BY <2>3, <2>4
  <2>. QED
    BY <1>1, <2>5, TidyParts DEF DirIn
<1>3. CASE name \notin Dots \union {"/"}
  <2>1. PICK i : Names3(m, r, name, i)
    <3>1. GetDirEntry(m, name) # NoEntry
      BY NoEntryIs DEF CanEnter, NoEntryFacts
    <3>. QED
      BY <1>3, <3>1, FindsPlain
  <2>2. m.list[i].type = "dir" /\ x = m.list[i].ino /\ Child(V, r, m.cwd, m.list[i]) /\ x \in V.bits
    BY <2>1 DEF Names3, CanEnter
  <2>3. x \in Ino
    BY <1>1, <2>2, TidyParts
  <2>. QED
    BY <2>2, <2>3 DEF Child, DirIn
<1>. QED
  BY <1>2, <1>3

LEMMA MvSettles ==
    ASSUME BlocksLeft, PlainNames, CrashesKeep, Intact, Intact', NEW r, InTree(r),
           NEW src \in Names, NEW dest \in Names \union {".."}, Mv(src, dest)
    PROVE  Settled'
<1>. DEFINE x == GetDirEntry(m0, dest).ino
            b == disk.blockBits
            V == View(disk)
<1>1. /\ up /\ GetDirEntry(m0, src).type # "dir"
      /\ CanEnter(m0, dest) => Whole(x) /\ RoomIn(x)
      /\ \/ dest = ".." /\ cwd # ROOT /\ Runs("mv", MoveUp(m0, src))
         \/ dest \in Names /\ Runs("mv", MoveDown(m0, src, dest))
  BY DEF Mv, Here
<1>2. PICK w : At(b, m0, r, w)
  BY <1>1, MachineAt
<1>3. m0.disk = disk /\ m0.cwd = cwd /\ Shape(disk)
  BY <1>1, MachineAt
<1>4. src \notin Dots \union {"/"} /\ (dest \in Names => dest \notin Dots \union {"/"})
  BY DEF PlainNames
<1>5. Sound(b, MoveUp(m0, src)) /\ Sound(b, MoveDown(m0, src, dest))
  BY <1>2, AtFacts, MoveSound
<1>6. CanEnter(m0, dest) => Len(V.lists[x]) >= 2 /\ Len(V.lists[x]) < NumPtrs * BlockUnits
  <2>. SUFFICES ASSUME CanEnter(m0, dest)
                PROVE  Len(V.lists[x]) >= 2 /\ Len(V.lists[x]) < NumPtrs * BlockUnits
    OBVIOUS
  <2>1. dest \notin Dots \union {"/"} \/ (dest = ".." /\ m0.cwd # ROOT)
    BY <1>1, <1>3, <1>4
  <2>. HIDE DEF x
  <2>2. x = GetDirEntry(m0, dest).ino
    BY DEF x
  <2>3. x \in Ino /\ DirIn(View(m0.disk), x)
    BY <1>2, <2>1, <2>2, EntersDirs
  <2>4. V.lists[x] = Listing(x)
    BY <1>3, <2>3, ViewFacts DEF Listing
  <2>5. Len(V.lists[x]) < NumPtrs * BlockUnits
    BY <1>1, <1>3, <2>3, RoomLeft
  <2>. QED
    BY <1>1, <2>4, <2>5 DEF Whole
<1>7. "mv" \notin CrashIn
  BY DEF CrashesKeep
<1>8. CASE dest = ".." /\ cwd # ROOT /\ Runs("mv", MoveUp(m0, src))
  <2>. DEFINE n == MoveUp(m0, src)
  <2>1. CanEnter(m0, "..")
    BY <1>2, FindsDots DEF CanEnter
  <2>2. Len(View(m0.disk).lists[GetDirEntry(m0, "..").ino]) < NumPtrs * BlockUnits
    BY <1>3, <1>6, <1>8, <2>1
  <2>3. Sound(b, n) /\ Runs("mv", n) /\ n = MoveUp(m0, src) /\ m0.cwd # ROOT
    BY <1>3, <1>5, <1>8
  <2>. HIDE DEF n, b
  <2>4. ~Off(n.disk.blockBits) => Leaves(b, n)
    BY <1>1, <1>2, <1>4, <2>2, <2>3, MoveUpHere
  <2>. QED
    BY <1>7, <2>3, <2>4, RunsSettled DEF b
<1>9. CASE dest \in Names /\ Runs("mv", MoveDown(m0, src, dest))
  <2>. DEFINE n == MoveDown(m0, src, dest)
  <2>2. CanEnter(m0, dest) => LET y == GetDirEntry(m0, dest).ino
                              IN  /\ Len(View(m0.disk).lists[y]) >= 2
                                  /\ Len(View(m0.disk).lists[y]) < NumPtrs * BlockUnits
    BY <1>3, <1>6
  <2>3. Sound(b, n) /\ Runs("mv", n) /\ n = MoveDown(m0, src, dest)
    BY <1>5, <1>9
  <2>. HIDE DEF n, b
  <2>5. dest \notin Dots \union {"/"}
    BY <1>4, <1>9
  <2>4. ~Off(n.disk.blockBits) => Leaves(b, n)
    <3>. HIDE DEF V, x
    <3>1. GetDirEntry(m0, src).type # "dir"
      BY <1>1
    <3>2. src \notin Dots \union {"/"}
      BY <1>4
    <3>3. n = MoveDown(m0, src, dest)
      BY <2>3
    <3>. QED
      BY <1>2, <2>2, <2>5, <3>1, <3>2, <3>3, MoveDownHere
  <2>. QED
    BY <1>7, <2>3, <2>4, RunsSettled DEF b
<1>. QED
  BY <1>1, <1>8, <1>9

---------------------------------------------------------------------------
(* createFS, up to the root.                                               *)

Adds(n, m, e) ==
    /\ n.disk.magic = m.disk.magic /\ n.cwd = m.cwd /\ n.path = m.path /\ n.list = Append(m.list, e)
    /\ Relisted(View(m.disk), View(n.disk), m.cwd, Append(m.list, e))

LEMMA AddRaw ==
    ASSUME NEW b, NEW m, Sound(b, m), m.cwd \in Ino, View(m.disk).types[m.cwd] = "dir",
           NEW e, ~Taken(m.list, e.name), Len(m.list) < NumPtrs * BlockUnits,
           NEW n, n = AddDirEntryToPath(m, e), ~Off(n.disk.blockBits)
    PROVE  Sound(b, n) /\ Adds(n, m, e)
<1>. DEFINE V == View(m.disk)
            s == Append(m.list, e)
            k == [m EXCEPT !.list = s]
<1>1. Shape(m.disk) /\ IsMachine(m) /\ IsSeq(m.list)
  BY SoundHere
<1>2. IsSeq(s) /\ Len(s) = Len(m.list) + 1 /\ Len(m.list) \in Nat
  BY <1>1, AppendIsSeq, SeqFacts
<1>3. n = WriteInode(k, s, m.cwd)
  BY DEF AddDirEntryToPath
<1>. HIDE DEF s
<1>4. Sound(b, k)
  BY <1>1, <1>2, WithList
<1>5. k.disk = m.disk /\ k.cwd = m.cwd /\ k.list = s /\ k.path = m.path /\ k.log = m.log
  BY <1>1 DEF IsMachine
<1>. HIDE DEF k
<1>6. Len(s) <= NumPtrs * BlockUnits
  <2>1. NumPtrs * BlockUnits \in Nat
    BY Constants
  <2>. QED
    BY <1>2, <2>1
<1>7. /\ Sound(b, n) /\ Stands(n, k) /\ n.disk.magic = k.disk.magic
      /\ Relisted(View(k.disk), View(n.disk), k.cwd, s)
  <2>1. View(k.disk).types[k.cwd] = "dir" /\ n = WriteInode(k, s, k.cwd) /\ k.cwd \in Ino
    BY <1>3, <1>5
  <2>. HIDE DEF V
  <2>. QED
    BY <1>2, <1>4, <1>6, <2>1, WriteDirLooks, Z3
<1>. QED
  BY <1>5, <1>7 DEF Adds, Stands, s

\* The father of the root, in use and empty, and nothing else.
Fathered(m) ==
    /\ m.disk.magic /\ m.cwd = FATHER /\ m.list = <<>>
    /\ View(m.disk).bits = {FATHER} /\ View(m.disk).types[FATHER] = "dir"
    /\ \A z \in Ino : View(m.disk).lists[z] = <<>>

\* The root and its father, and nothing else.
RootMade(V) ==
    /\ V.bits = {FATHER, ROOT} /\ V.types[FATHER] = "dir" /\ V.types[ROOT] = "dir"
    /\ V.lists[FATHER] = <<Entry("/", ROOT, "dir")>>
    /\ V.lists[ROOT] = Append(<<Entry(".", ROOT, "dir")>>, Entry("..", FATHER, "dir"))
    /\ \A z \in Ino \ {FATHER, ROOT} : V.lists[z] = <<>>

LEMMA FewInodes == FATHER \in Ino /\ ROOT \in Ino /\ FATHER # ROOT
BY Constants DEF FATHER, ROOT, Ino

LEMMA NextFree ==
    ASSUME NEW k \in Nat, k + 1 < NumInodes
    PROVE  1..k \subseteq Ino /\ 1..k # Ino /\ GetFreeInodeIdx(1..k) = k + 1 /\ 1..k \union {k + 1} = 1..(k + 1)
<1>1. 1..k \subseteq Ino /\ k + 1 \in Ino \ (1..k) /\ NumInodes \in Nat
  BY Constants DEF Ino
<1>2. 1..k # Ino
  BY <1>1
<1>. DEFINE x == GetFreeInodeIdx(1..k)
<1>3. x \in Ino \ (1..k) /\ \A y \in Ino \ (1..k) : x <= y
  BY <1>1, <1>2, FreeInodeIsFree
<1>. HIDE DEF x
<1>4. x \in Nat /\ x <= k + 1 /\ x >= 1 /\ ~(x <= k)
  BY <1>1, <1>3 DEF Ino
<1>5. x = k + 1
  BY <1>4
<1>6. 1..k \union {k + 1} = 1..(k + 1)
  OBVIOUS
<1>. QED
  BY <1>1, <1>2, <1>5, <1>6 DEF x

LEMMA NoneTaken ==
    ASSUME NEW s, IsSeq(s), ~(Len(s) >= 2), NEW name
    PROVE  ~Taken(s, name)
<1>1. Len(s) \in Nat
  BY SeqFacts
<1>2. \A i \in 2..Len(s) : FALSE
  BY <1>1
<1>. QED
  BY <1>2, Zenon DEF Taken

LEMMA SoundElsewhere ==
    ASSUME NEW b, NEW m, Sound(b, m), NEW s, IsSeq(s), NEW x, NEW n, Moved(n, m, s, x)
    PROVE  Sound(b, n) /\ n.disk = m.disk /\ n.list = s /\ n.cwd = x /\ n.path = m.path
<1>1. IsMachine(m)
  BY SoundHere
<1>2. n.list = s /\ n.cwd = x /\ n.path = m.path /\ n.disk = m.disk
  BY <1>1 DEF IsMachine, Moved
<1>3. Sound(b, n)
  BY WithList DEF Moved
<1>. QED
  BY <1>2, <1>3

LEMMA RootIsMade ==
    ASSUME NEW b, NEW m, Sound(b, m), Fathered(m), NumPtrs * BlockUnits >= 2,
           NEW n, n = CreateNewDirectory(m, "/"), ~Off(n.disk.blockBits)
    PROVE  Sound(b, n) /\ n.disk.magic /\ RootMade(View(n.disk))
<1>. DEFINE x == ROOT
            made == CreateDirEntry(m, "/", "dir")
            k == made.m
            e == Entry("/", x, "dir")
            named == AddDirEntryToPath(made.m, made.entry)
            inside == [named EXCEPT !.list = <<>>, !.cwd = x]
            dot == AddDirEntryToPath(inside, Entry(".", x, "dir"))
            dotDot == AddDirEntryToPath(dot, Entry("..", m.cwd, "dir"))
            V == View(m.disk)
            V1 == View(k.disk)
            V2 == View(named.disk)
            V3 == View(dot.disk)
            W == View(dotDot.disk)
<1>1. /\ m.cwd = FATHER /\ m.list = <<>> /\ V.bits = {FATHER} /\ V.types[FATHER] = "dir"
      /\ \A z \in Ino : V.lists[z] = <<>>
  BY DEF Fathered
<1>2. V.bits # Ino /\ x = GetFreeInodeIdx(V.bits)
  <2>1. 1 \in Nat /\ 1 + 1 < NumInodes /\ 1..1 = {1} /\ 1 + 1 = 2
    BY Constants
  <2>2. 1..1 # Ino /\ GetFreeInodeIdx(1..1) = 1 + 1
    BY <2>1, NextFree
  <2>. HIDE DEF V
  <2>. QED
    BY <1>1, <2>1, <2>2 DEF FATHER, ROOT
<1>3. Sound(b, k) /\ Creates(k, m, x, "/", "dir")
  BY <1>2, CreateEffect DEF Kinds
<1>4. made.entry = e /\ k.disk.magic = m.disk.magic /\ Stands(k, m) /\ Takes(V, V1, x, "dir")
  BY <1>3 DEF Creates
<1>5. named = AddDirEntryToPath(k, e)
  BY <1>4
<1>6. n = [dotDot EXCEPT !.list = named.list, !.cwd = m.cwd]
  <2>1. made.entry.ino = x
    BY <1>4 DEF Entry
  <2>. QED
    BY <2>1 DEF CreateNewDirectory
<1>. HIDE DEF made, k
<1>7. Sound(b, named)
  BY <1>3, <1>5, AddDirEntrySound
<1>. HIDE DEF named
<1>8. Sound(b, inside) /\ inside.disk = named.disk /\ inside.list = <<>> /\ inside.cwd = x
  BY <1>7, WithList, EmptyIsSeq DEF Sound, IsMachine
<1>. HIDE DEF inside
<1>9. Sound(b, dot)
  BY <1>8, AddDirEntrySound
<1>. HIDE DEF dot
<1>10. Sound(b, dotDot)
  BY <1>9, AddDirEntrySound
<1>. HIDE DEF dotDot, e
<1>11. n.disk = dotDot.disk /\ Sound(b, n)
  <2>1. IsSeq(named.list)
    BY <1>7, SoundHere
  <2>2. Moved(n, dotDot, named.list, m.cwd)
    BY <1>6 DEF Moved
  <2>. QED
    BY <1>10, <2>1, <2>2, SoundElsewhere
<1>12. ~Off(dotDot.disk.blockBits)
  BY <1>11
<1>13. ~Off(dot.disk.blockBits)
  BY <1>9, <1>12, AddOff DEF dotDot
<1>14. ~Off(named.disk.blockBits)
  <2>1. ~Off(inside.disk.blockBits)
    BY <1>8, <1>13, AddOff DEF dot
  <2>. QED
    BY <1>8, <2>1
<1>15. IsSeq(<<>>) /\ Len(<<>>) = 0 /\ NumPtrs * BlockUnits \in Nat
  BY EmptyIsSeq, Constants
<1>16. k.cwd = FATHER /\ k.list = <<>>
  BY <1>1, <1>4 DEF Stands
<1>17. /\ V1.bits = {FATHER, ROOT} /\ V1.types[FATHER] = "dir" /\ V1.types[ROOT] = "dir"
       /\ \A z \in Ino : V1.lists[z] = <<>>
  BY <1>1, <1>4, FewInodes DEF Takes
<1>18. Adds(named, k, e)
  <2>1. k.cwd \in Ino /\ View(k.disk).types[k.cwd] = "dir"
    BY <1>16, <1>17, FewInodes
  <2>2. ~Taken(k.list, e.name) /\ Len(k.list) < NumPtrs * BlockUnits
    BY <1>15, <1>16, NoneTaken
  <2>. QED
    BY <1>3, <1>5, <1>14, <2>1, <2>2, AddRaw
<1>19. Append(<<>>, e) = <<e>> /\ IsSeq(<<e>>) /\ Len(<<e>>) = 1
  BY SingleIsSeq
<1>. HIDE DEF V, V1, V2, V3, W
<1>20. Relisted(V1, V2, FATHER, <<e>>)
  BY <1>16, <1>18, <1>19 DEF Adds, V1, V2
<1>21. /\ V2.bits = {FATHER, ROOT} /\ V2.types[FATHER] = "dir" /\ V2.types[ROOT] = "dir"
       /\ V2.lists[FATHER] = <<e>> /\ \A z \in Ino \ {FATHER} : V2.lists[z] = <<>>
  BY <1>17, <1>20, FewInodes DEF Relisted
<1>. DEFINE f == Entry(".", x, "dir")
            g == Entry("..", FATHER, "dir")
<1>22. dot = AddDirEntryToPath(inside, f) /\ dotDot = AddDirEntryToPath(dot, g)
  BY <1>1 DEF dot, dotDot
<1>. HIDE DEF f, g
<1>23. Adds(dot, inside, f)
  <2>1. inside.cwd \in Ino /\ View(inside.disk).types[inside.cwd] = "dir"
    BY <1>8, <1>21, FewInodes DEF V2
  <2>2. ~Taken(inside.list, f.name) /\ Len(inside.list) < NumPtrs * BlockUnits
    BY <1>8, <1>15, NoneTaken
  <2>. QED
    BY <1>8, <1>13, <1>22, <2>1, <2>2, AddRaw
<1>24. Append(<<>>, f) = <<f>> /\ IsSeq(<<f>>) /\ Len(<<f>>) = 1
  BY SingleIsSeq
<1>25. Relisted(V2, V3, ROOT, <<f>>) /\ dot.cwd = ROOT /\ dot.list = <<f>>
  BY <1>8, <1>23, <1>24 DEF Adds, V2, V3
<1>26. /\ V3.bits = {FATHER, ROOT} /\ V3.types[FATHER] = "dir" /\ V3.types[ROOT] = "dir"
       /\ V3.lists[FATHER] = <<e>> /\ \A z \in Ino \ {FATHER, ROOT} : V3.lists[z] = <<>>
  BY <1>21, <1>25, FewInodes DEF Relisted
<1>27. Adds(dotDot, dot, g)
  <2>1. dot.cwd \in Ino /\ View(dot.disk).types[dot.cwd] = "dir"
    BY <1>25, <1>26, FewInodes DEF V3
  <2>2. ~Taken(dot.list, g.name) /\ Len(dot.list) < NumPtrs * BlockUnits
    <3>1. ~(Len(<<f>>) >= 2) /\ Len(<<f>>) < NumPtrs * BlockUnits
      BY <1>15, <1>24
    <3>. QED
      BY <1>24, <1>25, <3>1, NoneTaken
  <2>. QED
    BY <1>9, <1>12, <1>22, <2>1, <2>2, AddRaw
<1>28. Relisted(V3, W, ROOT, Append(<<f>>, g))
  BY <1>25, <1>27 DEF Adds, V3, W
<1>29. RootMade(W)
  <2>1. /\ W.bits = {FATHER, ROOT} /\ W.types[FATHER] = "dir" /\ W.types[ROOT] = "dir"
        /\ W.lists[FATHER] = <<e>> /\ W.lists[ROOT] = Append(<<f>>, g)
        /\ \A z \in Ino \ {FATHER, ROOT} : W.lists[z] = <<>>
    BY <1>26, <1>28, FewInodes DEF Relisted
  <2>. QED
    BY <2>1 DEF RootMade, e, f, g
<1>30. dotDot.disk.magic
  BY <1>4, <1>8, <1>18, <1>23, <1>27 DEF Adds, Fathered
<1>. QED
  BY <1>11, <1>29, <1>30 DEF W

LEMMA SuperblockFacts ==
    ASSUME NEW m, Shape(m.disk), IsMachine(m), IsSeq(m.log), NEW n, n = SetSuperblock(m)
    PROVE  /\ n.disk.magic /\ n.disk.inodeBits = m.disk.inodeBits
           /\ n.disk.inode = m.disk.inode /\ n.disk.data = m.disk.data
<1>. DEFINE d == [m.disk EXCEPT !.magic = TRUE]
<1>1. d.magic = TRUE /\ d.inodeBits = m.disk.inodeBits /\ d.inode = m.disk.inode /\ d.data = m.disk.data
  BY DEF Shape
<1>2. n = DiskWrite(m, d)
  BY DEF SetSuperblock
<1>. HIDE DEF d
<1>. QED
  BY <1>1, <1>2, DiskWriteFacts

LEMMA UnformattedLooks ==
    ASSUME NEW m, m.disk = UnformattedDisk, Shape(m.disk)
    PROVE  m.disk.inodeBits = {} /\ \A z \in Ino : View(m.disk).lists[z] = <<>>
<1>1. m.disk.inodeBits = {} /\ \A z \in Ino : m.disk.inode[z].type = "none"
  BY SlotsAre DEF UnformattedDisk, NewInode
<1>2. ASSUME NEW z \in Ino
      PROVE  View(m.disk).lists[z] = <<>>
  BY <1>1, ViewFacts
<1>. QED
  BY <1>1, <1>2

\* d is e but for the new inode x.
HasNew(d, e, x, type) ==
    /\ Shape(d) /\ Shape(e) /\ x \in Ino
    /\ d.inode = [e.inode EXCEPT ![x] = NewInode(type)] /\ d.data = e.data
LooksNew(V, W, x, type) ==
    /\ V.types[x] = type /\ V.lists[x] = <<>>
    /\ \A z \in Ino \ {x} : V.types[z] = W.types[z] /\ V.lists[z] = W.lists[z]

LEMMA NewLooks ==
    ASSUME NEW d, NEW e, NEW x, NEW type, HasNew(d, e, x, type)
    PROVE  LooksNew(View(d), View(e), x, type)
<1>1. /\ Shape(d) /\ Shape(e) /\ x \in Ino
      /\ d.inode = [e.inode EXCEPT ![x] = NewInode(type)] /\ d.data = e.data
  BY DEF HasNew
<1>. QED
  BY <1>1, NewInodeLooks DEF LooksNew

LEMMA FatherIsMade ==
    ASSUME NEW b, NEW m, Sound(b, m), m.disk = UnformattedDisk,
           NEW k, k = SetInode(SetSuperblock(m), FATHER, NewInode("dir")),
           NEW marked, marked = SetInodeBitmap(k, GetInodeBitmap(k.disk) \union {FATHER}),
           NEW n, n = [marked EXCEPT !.cwd = FATHER, !.list = <<>>]
    PROVE  Sound(b, n) /\ Fathered(n)
<1>. DEFINE h == SetSuperblock(m)
            bits == GetInodeBitmap(k.disk) \union {FATHER}
<1>1. Shape(m.disk) /\ IsMachine(m) /\ IsSeq(m.log)
  BY SoundHere
<1>2. m.disk.inodeBits = {} /\ \A z \in Ino : View(m.disk).lists[z] = <<>>
  BY <1>1, UnformattedLooks
<1>3. Sound(b, h)
  BY SuperblockSound
<1>4. h.disk.inodeBits = {} /\ h.disk.inode = m.disk.inode /\ h.disk.data = m.disk.data
  BY <1>1, <1>2, SuperblockFacts
<1>5. h.disk.magic
  BY <1>1, SuperblockFacts
<1>6. k = SetInode(h, FATHER, NewInode("dir"))
  OBVIOUS
<1>. HIDE DEF h
<1>7. Sound(b, k)
  BY <1>3, <1>6, CreateInodeSound DEF Kinds
<1>8. SetsInode(k, h, FATHER, NewInode("dir"))
  <2>1. Shape(h.disk) /\ IsMachine(h) /\ IsSeq(h.log)
    BY <1>3, SoundHere
  <2>. QED
    BY <1>6, <2>1, FewInodes, SetInodeFacts
<1>9. bits \ {NumInodes} = {FATHER} /\ {FATHER} \in SUBSET Ino
  <2>1. k.disk.inodeBits = {} /\ Shape(k.disk)
    BY <1>4, <1>7, <1>8, SoundHere DEF SetsInode
  <2>2. {FATHER} \subseteq Ino
    BY FewInodes
  <2>. QED
    BY <2>1, <2>2, NotStored
<1>10. marked = SetInodeBitmap(k, bits)
  OBVIOUS
<1>. HIDE DEF bits
<1>11. Sound(b, marked)
  BY <1>7, <1>9, <1>10, InodeBitmapSound
<1>12. MarksInodes(marked, k) /\ marked.disk.inodeBits = bits \ {NumInodes}
  <2>1. Shape(k.disk) /\ IsMachine(k) /\ IsSeq(k.log)
    BY <1>7, SoundHere
  <2>. QED
    BY <1>10, <2>1, MarkInodesFacts
<1>13. Sound(b, n) /\ n.disk = marked.disk /\ n.cwd = FATHER /\ n.list = <<>>
  BY <1>11, EmptyIsSeq DEF Sound, IsMachine
<1>14. Shape(n.disk) /\ Shape(h.disk) /\ Shape(k.disk)
  BY <1>3, <1>7, <1>13, SoundHere
<1>15. n.disk.magic
  BY <1>5, <1>8, <1>12, <1>13 DEF SetsInode, MarksInodes
<1>16. n.disk.inode = [m.disk.inode EXCEPT ![FATHER] = NewInode("dir")] /\ n.disk.data = m.disk.data
  BY <1>4, <1>8, <1>12, <1>13 DEF SetsInode, MarksInodes
<1>17. /\ View(n.disk).types[FATHER] = "dir" /\ View(n.disk).lists[FATHER] = <<>>
       /\ \A z \in Ino \ {FATHER} : View(n.disk).lists[z] = View(m.disk).lists[z]
  <2>1. HasNew(n.disk, m.disk, FATHER, "dir")
    BY <1>1, <1>14, <1>16, FewInodes DEF HasNew
  <2>2. LooksNew(View(n.disk), View(m.disk), FATHER, "dir")
    BY <2>1, NewLooks, Zenon
  <2>. QED
    BY <2>2 DEF LooksNew
<1>18. View(n.disk).bits = {FATHER}
  BY <1>9, <1>12, <1>13 DEF View
<1>. QED
  BY <1>2, <1>13, <1>15, <1>17, <1>18 DEF Fathered

\* The rank of the tree that has only the root and its father.
RootRank == [x \in Ino |-> IF x = FATHER THEN 0 ELSE 1]

LEMMA RootTidy ==
    ASSUME NEW V, RootMade(V), NumPtrs * BlockUnits >= 2
    PROVE  Tidy(V, RootRank) /\ Len(V.lists[ROOT]) = 2 /\ V.bits = 1..2
<1>. DEFINE s == V.lists[ROOT]
            f == V.lists[FATHER]
            one == <<Entry(".", ROOT, "dir")>>
            r == RootRank
<1>1. /\ V.bits = {FATHER, ROOT} /\ V.types[FATHER] = "dir" /\ V.types[ROOT] = "dir"
      /\ f = <<Entry("/", ROOT, "dir")>>
      /\ s = Append(one, Entry("..", FATHER, "dir"))
      /\ \A z \in Ino \ {FATHER, ROOT} : V.lists[z] = <<>>
  BY DEF RootMade
<1>2. IsSeq(f) /\ Len(f) = 1 /\ f[1] = Entry("/", ROOT, "dir")
  BY <1>1, SingleIsSeq
<1>3. IsSeq(s) /\ Len(s) = 2 /\ s[1] = Entry(".", ROOT, "dir") /\ s[2] = Entry("..", FATHER, "dir")
  <2>1. IsSeq(one) /\ Len(one) = 1 /\ one[1] = Entry(".", ROOT, "dir")
    BY SingleIsSeq
  <2>. DEFINE e == Entry("..", FATHER, "dir")
  <2>2. s = Append(one, e)
    BY <1>1
  <2>. HIDE DEF one, e, s
  <2>3. /\ IsSeq(Append(one, e)) /\ Len(Append(one, e)) = Len(one) + 1
        /\ Append(one, e)[Len(one) + 1] = e /\ \A i \in 1..Len(one) : Append(one, e)[i] = one[i]
    <3>1. IsSeq(one)
      BY <2>1
    <3>. QED
      BY <3>1, AppendIsSeq
  <2>. QED
    BY <2>1, <2>2, <2>3 DEF e
<1>4. NumPtrs * BlockUnits \in Nat
  BY Constants
<1>5. r \in [Ino -> Nat] /\ r[FATHER] = 0 /\ r[ROOT] = 1 /\ \A x \in Ino : r[x] <= 1
  BY FewInodes DEF RootRank
<1>. HIDE DEF s, f, r
<1>6. Ranked(r)
  BY <1>5 DEF Ranked
<1>7. Based(V)
  BY <1>1, <1>2, <1>3, FewInodes DEF Based, DirIn, s, f
<1>8. Listed(V)
  <2>1. IsSeq(<<>>) /\ Len(<<>>) = 0
    BY EmptyIsSeq
  <2>2. ASSUME NEW x \in Ino
        PROVE  /\ IsSeq(V.lists[x]) /\ Len(V.lists[x]) <= NumPtrs * BlockUnits
               /\ \A i \in 1..Len(V.lists[x]) : V.lists[x][i].ino \in Ino
    <3>1. CASE x = FATHER
      <4>1. \A i \in 1..1 : i = 1
        OBVIOUS
      <4>2. f[1].ino \in Ino
        BY <1>2, FewInodes DEF Entry
      <4>3. \A i \in 1..Len(f) : f[i].ino \in Ino
        BY <1>2, <4>1, <4>2
      <4>4. V.lists[x] = f
        BY <3>1 DEF f
      <4>5. IsSeq(f) /\ Len(f) <= NumPtrs * BlockUnits
        BY <1>2, <1>4
      <4>. QED
        BY <4>3, <4>4, <4>5
    <3>2. CASE x = ROOT
      <4>1. \A i \in 1..2 : i = 1 \/ i = 2
        OBVIOUS
      <4>2. s[1].ino \in Ino /\ s[2].ino \in Ino
        BY <1>3, FewInodes DEF Entry
      <4>3. \A i \in 1..Len(s) : s[i].ino \in Ino
        BY <1>3, <4>1, <4>2
      <4>4. V.lists[x] = s
        BY <3>2 DEF s
      <4>. QED
        BY <1>3, <1>4, <4>3, <4>4
    <3>3. CASE x \notin {FATHER, ROOT}
      BY <1>1, <1>4, <2>1, <3>3
    <3>. QED
      BY <3>1, <3>2, <3>3
  <2>. QED
    BY <2>2 DEF Listed
<1>9. HeadsTrue(V)
  <2>1. Headed(s, ROOT)
    <3>1. \A i \in 1..2 : i = 1 \/ i = 2
      OBVIOUS
    <3>2. s[1].name = "." /\ s[2].name = ".." /\ s[2].type = "dir"
      BY <1>3 DEF Entry
    <3>3. \A i, j \in 1..Len(s) : s[i].name = s[j].name => i = j
      BY <1>3, <3>1, <3>2
    <3>4. \A i \in 3..Len(s) : FALSE
      BY <1>3
    <3>. QED
      BY <1>3, <3>2, <3>3, <3>4 DEF Headed
  <2>. QED
    BY <1>1, <2>1 DEF HeadsTrue, s
<1>10. \A x \in V.bits : \A i \in 1..Len(V.lists[x]) : Kid(V, x, i) => x = FATHER /\ i = 1
  <2>1. \A i \in 1..1 : i = 1
    OBVIOUS
  <2>2. ASSUME NEW i \in 1..Len(s), Kid(V, ROOT, i)
        PROVE  FALSE
    BY <1>3, <2>2, FewInodes DEF Kid
  <2>3. ASSUME NEW i \in 1..Len(f)
        PROVE  i = 1
    BY <1>2, <2>1
  <2>. QED
    BY <1>1, <2>2, <2>3 DEF s, f
<1>11. KidsLive(V, r)
  <2>. DEFINE e == Entry("/", ROOT, "dir")
  <2>1. e = Entry(e.name, e.ino, e.type) /\ e.ino = ROOT /\ e.type = "dir"
    BY DEF Entry
  <2>2. s[2].ino = FATHER
    BY <1>3 DEF Entry
  <2>. HIDE DEF e
  <2>3. Child(V, r, FATHER, e)
    BY <1>1, <1>5, <2>1, <2>2, FewInodes DEF Child, s
  <2>4. V.lists[FATHER][1] = e
    BY <1>2 DEF e, f
  <2>. QED
    BY <1>10, <2>3, <2>4 DEF KidsLive
<1>12. NamedOnce(V)
  BY <1>10 DEF NamedOnce
<1>13. V.bits = 1..2
  BY <1>1 DEF FATHER, ROOT
<1>. QED
  BY <1>3, <1>6, <1>7, <1>8, <1>9, <1>11, <1>12, <1>13 DEF Tidy, r, s

---------------------------------------------------------------------------
(* createFS, from the root to the text in its first file.                  *)

\* What createFS makes has room.
RoomToFormat ==
    /\ NumInodes > Len(SubDirs) + 4
    /\ NumPtrs * BlockUnits >= 4 /\ NumPtrs * BlockUnits >= Len(SubDirs) + 2
\* No name that createFS gives is taken by another.
NewNames == HomeDir # Hello /\ <<"..", HomeDir>> \notin Begins

LEMMA Room ==
    ASSUME RoomToFormat
    PROVE  /\ Len(SubDirs) \in Nat /\ NumInodes \in Nat /\ NumPtrs * BlockUnits \in Nat
           /\ NumPtrs * BlockUnits >= 2 /\ 3 < NumInodes
<1>1. Len(SubDirs) \in Nat
  BY InputAssumption
<1>2. NumPtrs * BlockUnits \in Nat /\ NumInodes \in Nat
  BY Constants
<1>. QED
  BY <1>1, <1>2 DEF RoomToFormat

\* The machine is in the root of a tree that has nothing else.
AtNewRoot(b, m) ==
    /\ At(b, m, RootRank, Stay) /\ m.cwd = ROOT /\ m.path = <<>>
    /\ View(m.disk).bits = 1..2 /\ Len(m.list) = 2

LEMMA RootHere ==
    ASSUME RoomToFormat, NEW b, NEW m, Sound(b, m), Fathered(m),
           NEW n, n = AtRoot(CreateNewDirectory(m, "/")), ~Off(n.disk.blockBits)
    PROVE  AtNewRoot(b, n)
<1>. DEFINE k == CreateNewDirectory(m, "/")
            V == View(k.disk)
<1>1. k = CreateNewDirectory(m, "/") /\ n = AtRoot(k)
  OBVIOUS
<1>2. Sound(b, k)
  BY CreateNewDirectorySound
<1>. HIDE DEF k
<1>3. IsMachine(k)
  BY <1>2, SoundHere
<1>4. n.disk = k.disk
  BY <1>1, <1>3 DEF AtRoot, IsMachine
<1>5. Sound(b, k) /\ k.disk.magic /\ RootMade(V)
  BY <1>1, <1>4, Room, RootIsMade
<1>. HIDE DEF V
<1>6. Tidy(V, RootRank) /\ Len(V.lists[ROOT]) = 2 /\ V.bits = 1..2
  BY <1>5, Room, RootTidy
<1>7. Neat(b, k, RootRank)
  BY <1>5, <1>6 DEF Neat, V
<1>8. Goes(n, k, ROOT, <<>>)
  BY <1>1 DEF AtRoot, Goes
<1>9. At(b, n, RootRank, Stay) /\ n.cwd = ROOT /\ n.path = <<>>
  BY <1>7, <1>8, NeatGoesToRoot
<1>10. n.list = View(n.disk).lists[n.cwd]
  BY <1>9, AtFacts
<1>. QED
  BY <1>4, <1>6, <1>9, <1>10 DEF AtNewRoot, V

\* In the home directory, k directories of it are made; s are the root's entries.
InHome(b, m, k, s) ==
    /\ \E r, w : At(b, m, r, w)
    /\ m.cwd = 3 /\ Len(m.path) = 1
    /\ View(m.disk).bits = 1..(3 + k) /\ Len(m.list) <= 2 + k
    /\ View(m.disk).lists[ROOT] = s

\* The entries of the root when the home directory is made.
RootList(s) ==
    /\ IsSeq(s) /\ Len(s) = 3
    /\ s[1].name = "." /\ s[2].name = ".." /\ s[3] = Entry(HomeDir, 3, "dir")

LEMMA HomeMade ==
    ASSUME RoomToFormat, PlainNames, NewNames, NEW b, NEW m, AtNewRoot(b, m),
           NEW n, n = CreateNewDirectory(m, HomeDir), ~Off(n.disk.blockBits)
    PROVE  /\ \E q : At(b, n, q, Stay)
           /\ n.cwd = ROOT /\ n.path = <<>> /\ View(n.disk).bits = 1..3
           /\ Len(View(n.disk).lists[3]) = 2 /\ RootList(n.list)
<1>. DEFINE V == View(m.disk)
            x == GetFreeInodeIdx(V.bits)
<1>1. /\ At(b, m, RootRank, Stay) /\ m.cwd = ROOT /\ m.path = <<>>
      /\ V.bits = 1..2 /\ Len(m.list) = 2
  BY DEF AtNewRoot
<1>2. V.bits # Ino /\ x = 3 /\ V.bits \union {3} = 1..3
  <2>1. 2 \in Nat /\ 2 + 1 < NumInodes /\ 2 + 1 = 3
    BY Room
  <2>2. 1..2 # Ino /\ GetFreeInodeIdx(1..2) = 2 + 1 /\ 1..2 \union {2 + 1} = 1..(2 + 1)
    BY <2>1, NextFree
  <2>. HIDE DEF V
  <2>. QED
    BY <1>1, <2>1, <2>2
<1>3. Len(m.list) < NumPtrs * BlockUnits /\ NumPtrs * BlockUnits >= 2
  BY <1>1, Room DEF RoomToFormat
<1>4. HomeDir \notin Dots \union {"/"}
  BY DEF PlainNames
<1>5. m.list[1].name = "." /\ m.list[2].name = ".." /\ IsSeq(m.list)
  <2>1. Headed(m.list, m.cwd) /\ IsSeq(m.list)
    BY <1>1, AtFacts
  <2>. QED
    BY <1>1, <2>1 DEF Headed, Entry
<1>6. ~Taken(m.list, HomeDir)
  <2>1. \A i \in 2..2 : i = 2
    OBVIOUS
  <2>2. \A i \in 2..Len(m.list) : m.list[i].name = ".."
    BY <1>1, <1>5, <2>1
  <2>3. ".." # HomeDir /\ <<"..", HomeDir>> \notin Begins
    BY <1>4 DEF Dots, NewNames
  <2>4. \A i \in 2..Len(m.list) : m.list[i].name # HomeDir /\ <<m.list[i].name, HomeDir>> \notin Begins
    BY <2>2, <2>3
  <2>. QED
    BY <2>4, Zenon DEF Taken
<1>. HIDE DEF V, x
<1>7. V = View(m.disk) /\ x = GetFreeInodeIdx(View(m.disk).bits) /\ View(m.disk).bits # Ino
  BY <1>2 DEF V, x
<1>8. /\ \E q : At(b, n, q, Stay)
      /\ n.cwd = m.cwd /\ n.path = m.path /\ View(n.disk).bits = View(m.disk).bits \union {x}
      /\ n.list = Append(m.list, Entry(HomeDir, x, "dir")) /\ Len(View(n.disk).lists[x]) = 2
  <2>1. At(b, m, RootRank, Stay)
    BY <1>1
  <2>. QED
    BY <1>3, <1>4, <1>6, <1>7, <2>1, MkdirHere
<1>9. RootList(n.list)
  <2>. DEFINE e == Entry(HomeDir, 3, "dir")
              s == m.list
  <2>1. n.list = Append(s, e)
    BY <1>2, <1>8
  <2>2. IsSeq(s) /\ Len(s) = 2 /\ s[1].name = "." /\ s[2].name = ".."
    BY <1>1, <1>5
  <2>. HIDE DEF e, s
  <2>3. /\ IsSeq(Append(s, e)) /\ Len(Append(s, e)) = Len(s) + 1
        /\ Append(s, e)[Len(s) + 1] = e /\ \A i \in 1..Len(s) : Append(s, e)[i] = s[i]
    <3>1. IsSeq(s)
      BY <2>2
    <3>. QED
      BY <3>1, AppendIsSeq
  <2>. QED
    BY <2>1, <2>2, <2>3 DEF RootList, e
<1>. QED
  BY <1>1, <1>2, <1>7, <1>8, <1>9

LEMMA HomeHere ==
    ASSUME RoomToFormat, PlainNames, NewNames, NEW b, NEW m, AtNewRoot(b, m),
           NEW n, n = ChangeDir(CreateNewDirectory(m, HomeDir), HomeDir), ~Off(n.disk.blockBits)
    PROVE  \E s : RootList(s) /\ InHome(b, n, 0, s)
<1>. DEFINE k == CreateNewDirectory(m, HomeDir)
<1>1. k = CreateNewDirectory(m, HomeDir) /\ n = ChangeDir(k, HomeDir)
  OBVIOUS
<1>2. Sound(b, k)
  BY CreateNewDirectorySound, AtFacts DEF AtNewRoot
<1>. HIDE DEF k
<1>3. n.disk = k.disk
  BY <1>1, <1>2, ChangeDirDisk
<1>4. /\ \E q : At(b, k, q, Stay)
      /\ k.cwd = ROOT /\ k.path = <<>> /\ View(k.disk).bits = 1..3
      /\ Len(View(k.disk).lists[3]) = 2 /\ RootList(k.list)
  BY <1>1, <1>3, HomeMade
<1>5. PICK q : At(b, k, q, Stay)
  BY <1>4
<1>6. PICK v : Onto(v, Stay, Len(k.path), 3)
  <2>1. Len(k.path) \in Nat
    BY <1>4, EmptyIsSeq
  <2>. QED
    BY <2>1, OntoExists
<1>7. GoesDown(b, k, q, Stay, HomeDir, 3, n, v)
  <2>. DEFINE l == k.list
              e == Entry(HomeDir, 3, "dir")
  <2>1. Len(l) = 3 /\ l[3] = e /\ 3 \in 1..Len(l)
    BY <1>4 DEF RootList
  <2>2. e.name = HomeDir /\ e.ino = 3 /\ e.type = "dir"
    BY DEF Entry
  <2>. HIDE DEF e
  <2>3. Finds(k, HomeDir, 3) /\ k.list[3].ino = 3 /\ k.list[3].type = "dir"
    BY <2>1, <2>2 DEF Finds
  <2>4. Len(View(k.disk).lists[3]) >= 2
    BY <1>4
  <2>. QED
    BY <1>1, <1>5, <1>6, <2>3, <2>4 DEF GoesDown
<1>8. At(b, n, q, v) /\ n.path = Append(k.path, HomeDir) /\ n.cwd = 3
  <2>1. IsDown(b, k, q, HomeDir, 3, n, v)
    BY <1>7, CdDownIs
  <2>. QED
    BY <1>4, <2>1 DEF IsDown, RootList, Entry
<1>9. Len(n.path) = 1
  <2>1. IsSeq(<<>>) /\ Len(<<>>) = 0
    BY EmptyIsSeq
  <2>2. Len(Append(<<>>, HomeDir)) = Len(<<>>) + 1
    BY <2>1, AppendIsSeq
  <2>. QED
    BY <1>4, <1>8, <2>1, <2>2
<1>10. Len(n.list) = 2
  <2>1. n.list = View(n.disk).lists[n.cwd]
    BY <1>8, AtFacts
  <2>. QED
    BY <1>3, <1>4, <1>8, <2>1
<1>11. View(n.disk).lists[ROOT] = k.list
  <2>1. k.list = View(k.disk).lists[k.cwd]
    BY <1>5, AtFacts
  <2>. QED
    BY <1>3, <1>4, <2>1
<1>12. InHome(b, n, 0, k.list)
  BY <1>3, <1>4, <1>8, <1>9, <1>10, <1>11 DEF InHome
<1>. QED
  BY <1>4, <1>12

\* What mkdir does, in one word.
MakesDir(b, m, r, w, name, x, n) ==
    /\ At(b, m, r, w) /\ name \notin Dots \union {"/"}
    /\ View(m.disk).bits # Ino /\ Len(m.list) < NumPtrs * BlockUnits /\ NumPtrs * BlockUnits >= 2
    /\ x = GetFreeInodeIdx(View(m.disk).bits)
    /\ n = CreateNewDirectory(m, name) /\ ~Off(n.disk.blockBits)
DirMade(b, m, w, x, n) ==
    /\ \E q : At(b, n, q, w)
    /\ n.cwd = m.cwd /\ n.path = m.path /\ View(n.disk).bits = View(m.disk).bits \union {x}
    /\ Len(n.list) <= Len(m.list) + 1
    /\ \A z \in View(m.disk).bits \ {m.cwd} : View(n.disk).lists[z] = View(m.disk).lists[z]

LEMMA MkdirMakes ==
    ASSUME NEW b, NEW m, NEW r, NEW w, NEW name, NEW x, NEW n, MakesDir(b, m, r, w, name, x, n)
    PROVE  DirMade(b, m, w, x, n)
<1>1. /\ At(b, m, r, w) /\ name \notin Dots \union {"/"}
      /\ View(m.disk).bits # Ino /\ Len(m.list) < NumPtrs * BlockUnits /\ NumPtrs * BlockUnits >= 2
      /\ x = GetFreeInodeIdx(View(m.disk).bits)
      /\ n = CreateNewDirectory(m, name) /\ ~Off(n.disk.blockBits)
  BY DEF MakesDir
<1>2. \E q : At(b, n, q, w)
  BY <1>1, MkdirHere
<1>3. n.cwd = m.cwd /\ n.path = m.path
  BY <1>1, MkdirHere
<1>4. View(n.disk).bits = View(m.disk).bits \union {x}
  BY <1>1, MkdirHere
<1>5. Len(n.list) <= Len(m.list) + 1
  BY <1>1, MkdirHere
<1>6. \A z \in View(m.disk).bits \ {m.cwd} : View(n.disk).lists[z] = View(m.disk).lists[z]
  BY <1>1, MkdirHere
<1>. QED
  BY <1>2, <1>3, <1>4, <1>5, <1>6 DEF DirMade

LEMMA OneMoreMade ==
    ASSUME RoomToFormat, NEW b, NEW m, NEW s, NEW k \in 0..(Len(SubDirs) - 1), InHome(b, m, k, s),
           NEW name, name \notin Dots \union {"/"},
           NEW n, n = CreateNewDirectory(m, name), ~Off(n.disk.blockBits)
    PROVE  InHome(b, n, k + 1, s)
<1>. DEFINE V == View(m.disk)
            x == GetFreeInodeIdx(V.bits)
<1>1. /\ m.cwd = 3 /\ Len(m.path) = 1 /\ V.bits = 1..(3 + k) /\ Len(m.list) <= 2 + k
      /\ V.lists[ROOT] = s
  BY DEF InHome
<1>2. PICK r, w : At(b, m, r, w)
  BY DEF InHome
<1>3. V.bits # Ino /\ x = 4 + k /\ V.bits \union {x} = 1..(3 + (k + 1))
  <2>1. 3 + k \in Nat /\ (3 + k) + 1 < NumInodes /\ (3 + k) + 1 = 4 + k /\ 3 + (k + 1) = 4 + k
    BY Room DEF RoomToFormat
  <2>2. 1..(3 + k) # Ino /\ GetFreeInodeIdx(1..(3 + k)) = (3 + k) + 1
        /\ 1..(3 + k) \union {(3 + k) + 1} = 1..((3 + k) + 1)
    BY <2>1, NextFree
  <2>. HIDE DEF V
  <2>. QED
    BY <1>1, <2>1, <2>2
<1>4. Len(m.list) \in Nat
  BY <1>2, AtFacts
<1>5. Len(m.list) < NumPtrs * BlockUnits /\ NumPtrs * BlockUnits >= 2
  BY <1>1, <1>4, Room DEF RoomToFormat
<1>. HIDE DEF V, x
<1>6. x = GetFreeInodeIdx(View(m.disk).bits) /\ View(m.disk).bits # Ino
  BY <1>3 DEF V, x
<1>7. /\ \E q : At(b, n, q, w)
      /\ n.cwd = m.cwd /\ n.path = m.path /\ View(n.disk).bits = View(m.disk).bits \union {x}
      /\ Len(n.list) <= Len(m.list) + 1
      /\ \A z \in View(m.disk).bits \ {m.cwd} : View(n.disk).lists[z] = View(m.disk).lists[z]
  <2>1. Len(m.list) < NumPtrs * BlockUnits /\ NumPtrs * BlockUnits >= 2
    BY <1>5
  <2>2. MakesDir(b, m, r, w, name, x, n)
    BY <1>2, <1>6, <2>1 DEF MakesDir
  <2>3. DirMade(b, m, w, x, n)
    BY <2>2, MkdirMakes
  <2>. QED
    BY <2>3 DEF DirMade
<1>8. View(n.disk).lists[ROOT] = s
  <2>1. ROOT \in V.bits \ {m.cwd}
    BY <1>1 DEF ROOT
  <2>. QED
    BY <1>1, <1>7, <2>1 DEF V
<1>9. View(n.disk).bits = 1..(3 + (k + 1))
  BY <1>3, <1>7 DEF V
<1>10. Len(n.list) <= 2 + (k + 1)
  <2>1. Len(n.list) \in Nat
    BY <1>7, AtFacts
  <2>. QED
    BY <1>1, <1>4, <1>7, <2>1
<1>11. \E q, v : At(b, n, q, v)
  BY <1>7
<1>. QED
  BY <1>1, <1>7, <1>8, <1>9, <1>10, <1>11 DEF InHome

LEMMA AllMade ==
    ASSUME RoomToFormat, PlainNames, NEW b, NEW m, NEW s, InHome(b, m, 0, s), Sound(b, m),
           NEW f, IsMaking(f, m, Len(SubDirs)), NEW l \in 0..Len(SubDirs)
    PROVE  Off(f[l].disk.blockBits) \/ InHome(b, f[l], l, s)
<1>. DEFINE Reached(k) == Off(f[k].disk.blockBits) \/ InHome(b, f[k], k, s)
            Bad == {k \in 0..Len(SubDirs) : ~Reached(k)}
<1>1. Len(SubDirs) \in Nat
  BY Room
<1>2. CASE Bad = {}
  BY <1>2
<1>3. CASE Bad # {}
  <2>1. PICK k \in Bad : \A j \in Bad : k <= j
    <3>1. Bad \in SUBSET Nat
      OBVIOUS
    <3>. HIDE DEF Bad
    <3>. QED
      BY <1>3, <3>1, MinIsLeast
  <2>2. CASE k = 0
    <3>1. f[0] = m
      BY <1>1 DEF IsMaking
    <3>. QED
      BY <2>1, <2>2, <3>1
  <2>3. CASE k # 0
    <3>1. k - 1 \in 0..Len(SubDirs) /\ k - 1 \notin Bad /\ k \in 1..Len(SubDirs)
          /\ k - 1 \in 0..(Len(SubDirs) - 1) /\ (k - 1) + 1 = k
      BY <1>1, <2>1, <2>3
    <3>2. f[k] = CreateNewDirectory(f[k - 1], SubDirs[k])
      BY <1>1, <3>1 DEF IsMaking
    <3>3. Sound(b, f[k - 1])
      BY <1>1, <3>1, MakingGoesOn
    <3>4. CASE Off(f[k - 1].disk.blockBits)
      <4>. DEFINE a == f[k - 1].disk.blockBits
      <4>1. Sound(a, f[k - 1])
        BY <3>3, SoundHere
      <4>2. Sound(a, f[k])
        BY <3>2, <4>1, CreateNewDirectorySound
      <4>3. Off(f[k].disk.blockBits)
        BY <3>4, <4>2, OffStays
      <4>. QED
        BY <2>1, <4>3
    <3>5. CASE ~Off(f[k - 1].disk.blockBits)
      <4>1. InHome(b, f[k - 1], k - 1, s)
        BY <3>1, <3>5
      <4>2. SubDirs[k] \notin Dots \union {"/"}
        <5>1. SubDirs[k] \in ToSet(SubDirs)
          BY <3>1, SeqFacts, InputAssumption DEF IsSeq
        <5>. QED
          BY <5>1 DEF PlainNames
      <4>. DEFINE p == f[k - 1]
                  n == f[k]
                  name == SubDirs[k]
                  j == k - 1
      <4>3. n = CreateNewDirectory(p, name) /\ name \notin Dots \union {"/"} /\ InHome(b, p, j, s)
            /\ j \in 0..(Len(SubDirs) - 1) /\ j + 1 = k
        BY <3>1, <3>2, <4>1, <4>2
      <4>4. ~Off(n.disk.blockBits)
        BY <2>1
      <4>. HIDE DEF n, p, name, j
      <4>5. InHome(b, n, j + 1, s)
        BY <4>3, <4>4, OneMoreMade
      <4>. QED
        BY <2>1, <4>3, <4>5 DEF n
    <3>. QED
      BY <3>4, <3>5
  <2>. QED
    BY <2>2, <2>3
<1>. QED
  BY <1>2, <1>3

\* Back in the root, with its three entries.
BackInRoot(b, m) == /\ \E r, w : At(b, m, r, w)
                    /\ RootList(m.list) /\ View(m.disk).bits = 1..(3 + Len(SubDirs))

LEMMA BackHere ==
    ASSUME NEW b, NEW m, NEW s, RootList(s), InHome(b, m, Len(SubDirs), s),
           NEW n, n = ChangeDir(m, "..")
    PROVE  BackInRoot(b, n)
<1>1. PICK r, w : At(b, m, r, w)
  BY DEF InHome
<1>2. /\ m.cwd = 3 /\ Len(m.path) = 1 /\ View(m.disk).bits = 1..(3 + Len(SubDirs))
      /\ View(m.disk).lists[ROOT] = s
  BY DEF InHome
<1>3. GoesUp(b, m, r, w, n)
  BY <1>1, <1>2 DEF GoesUp, ROOT
<1>4. At(b, n, r, w) /\ n.disk = m.disk /\ n.cwd = w[0]
  <2>1. IsUp(b, m, r, w, n)
    BY <1>3, CdUpIs
  <2>. QED
    BY <1>2, <2>1 DEF IsUp, Reads
<1>5. w[0] = ROOT
  BY <1>1, AtFacts DEF Within, Walk
<1>6. n.list = s
  <2>1. n.list = View(n.disk).lists[n.cwd]
    BY <1>4, AtFacts
  <2>. QED
    BY <1>2, <1>4, <1>5, <2>1
<1>. QED
  BY <1>2, <1>4, <1>6 DEF BackInRoot

\* The first file, with its entry or, were its name taken, without.
LEMMA HelloHere ==
    ASSUME RoomToFormat, PlainNames, NewNames, NEW b, NEW m, BackInRoot(b, m),
           NEW made, made = CreateDirEntry(m, Hello, "file"),
           NEW n, n = AddDirEntryToPath(made.m, made.entry), ~Off(n.disk.blockBits)
    PROVE  \E q, w : At(b, n, q, w) /\ GetDirEntry(n, Hello).type # "dir"
<1>. DEFINE x == GetFreeInodeIdx(View(m.disk).bits)
            k == made.m
            e == Entry(Hello, x, "file")
<1>1. PICK r, w : At(b, m, r, w)
  BY DEF BackInRoot
<1>. DEFINE q == [r EXCEPT ![x] = r[m.cwd] + 1]
<1>2. RootList(m.list) /\ View(m.disk).bits = 1..(3 + Len(SubDirs))
  BY DEF BackInRoot
<1>3. View(m.disk).bits # Ino
  <2>. DEFINE j == 3 + Len(SubDirs)
  <2>1. j \in Nat /\ j + 1 < NumInodes
    BY Room DEF RoomToFormat
  <2>. HIDE DEF j
  <2>2. 1..j # Ino
    BY <2>1, NextFree
  <2>. QED
    BY <1>2, <2>2 DEF j
<1>4. CreatesBelow(m, r, Hello, "file", x, k, q)
  BY <1>3 DEF CreatesBelow, Deepens
<1>. HIDE DEF x, q, k
<1>5. /\ At(b, k, q, w) /\ Creates(k, m, x, Hello, "file")
      /\ Child(View(k.disk), q, m.cwd, Entry(Hello, x, "file")) /\ Unnamed(View(k.disk), x)
  BY <1>1, <1>4, CreateHere
<1>6. made.entry = e /\ Stands(k, m) /\ n = AddDirEntryToPath(k, made.entry)
  BY <1>5 DEF Creates, k
<1>7. e.name = Hello /\ e.ino = x /\ e.type = "file"
  BY DEF Entry
<1>8. k.cwd = m.cwd /\ k.list = m.list
  BY <1>6 DEF Stands
<1>9. Len(k.list) < NumPtrs * BlockUnits
  <2>1. Len(k.list) = 3
    BY <1>2, <1>8 DEF RootList
  <2>. QED
    BY <2>1, Room DEF RoomToFormat
<1>10. Hello \notin Dots \union {"/"}
  BY DEF PlainNames
<1>11. /\ Child(View(k.disk), q, k.cwd, e) /\ Unnamed(View(k.disk), e.ino) /\ e.name \notin Dots \union {"/"}
       /\ n = AddDirEntryToPath(k, e)
  BY <1>5, <1>6, <1>7, <1>8, <1>10
<1>. HIDE DEF e
<1>12. At(b, n, q, w) /\ (n = k \/ n.list = Append(k.list, e))
  BY <1>5, <1>9, <1>11, AddHere
<1>13. \A i \in 1..Len(k.list) : k.list[i].name # Hello
  <2>1. \A i \in 1..3 : i = 1 \/ i = 2 \/ i = 3
    OBVIOUS
  <2>2. Len(k.list) = 3 /\ k.list[1].name = "." /\ k.list[2].name = ".." /\ k.list[3].name = HomeDir
    BY <1>2, <1>8 DEF RootList, Entry
  <2>3. "." # Hello /\ ".." # Hello /\ HomeDir # Hello
    BY <1>10 DEF Dots, NewNames
  <2>. QED
    BY <2>1, <2>2, <2>3
<1>14. \A i : Finds(n, Hello, i) => n.list[i].type = "file"
  <2>1. CASE n = k
    BY <1>13, <2>1 DEF Finds
  <2>2. CASE n.list = Append(k.list, e)
    <3>. DEFINE s == k.list
    <3>1. IsSeq(s) /\ Len(s) = 3
      BY <1>2, <1>8 DEF RootList
    <3>2. n.list = Append(s, e) /\ \A i \in 1..Len(s) : s[i].name # Hello
      BY <1>13, <2>2
    <3>. HIDE DEF s
    <3>3. /\ Len(Append(s, e)) = Len(s) + 1 /\ Append(s, e)[Len(s) + 1] = e
          /\ \A i \in 1..Len(s) : Append(s, e)[i] = s[i]
      <4>1. IsSeq(s)
        BY <3>1
      <4>. QED
        BY <4>1, AppendIsSeq
    <3>4. ASSUME NEW i, Finds(n, Hello, i)
          PROVE  n.list[i].type = "file"
      <4>1. i \in 1..4 /\ n.list[i].name = Hello
        BY <3>1, <3>2, <3>3, <3>4 DEF Finds
      <4>2. CASE i = 4
        BY <1>7, <3>1, <3>2, <3>3, <4>2
      <4>3. CASE i # 4
        <5>1. i \in 1..Len(s)
          BY <3>1, <4>1, <4>3
        <5>2. n.list[i] = s[i] /\ s[i].name # Hello
          BY <3>2, <3>3, <5>1
        <5>. QED
          BY <4>1, <5>2
      <4>. QED
        BY <4>2, <4>3
    <3>. QED
      BY <3>4
  <2>. QED
    BY <1>12, <2>1, <2>2
<1>15. GetDirEntry(n, Hello).type # "dir"
  <2>1. \/ \E i : Finds(n, Hello, i) /\ GetDirEntry(n, Hello) = n.list[i]
        \/ GetDirEntry(n, Hello) = NoEntry
    BY <1>10, <1>12, LookUp
  <2>. QED
    BY <1>14, <2>1, NoEntryIs DEF NoEntryFacts
<1>. QED
  BY <1>12, <1>15

LEMMA WriteFileOff ==
    ASSUME NEW b, NEW m, Sound(b, m), NEW name, NEW units, IsSeq(units),
           ~Off(WriteToFile(m, name, units).disk.blockBits)
    PROVE  ~Off(m.disk.blockBits)
<1>. DEFINE a == m.disk.blockBits
<1>1. Sound(a, m)
  BY SoundHere
<1>2. Sound(a, WriteToFile(m, name, units))
  BY <1>1, WriteToFileSound
<1>. QED
  BY <1>2, OffStays

LEMMA MkdirOff ==
    ASSUME NEW b, NEW m, Sound(b, m), NEW name, ~Off(CreateNewDirectory(m, name).disk.blockBits)
    PROVE  ~Off(m.disk.blockBits)
<1>. DEFINE a == m.disk.blockBits
<1>1. Sound(a, m)
  BY SoundHere
<1>2. Sound(a, CreateNewDirectory(m, name))
  BY <1>1, CreateNewDirectorySound
<1>. QED
  BY <1>2, OffStays

LEMMA MakingOff ==
    ASSUME NEW b, NEW m, Sound(b, m), NEW k \in Nat, NEW f, IsMaking(f, m, k), ~Off(f[k].disk.blockBits)
    PROVE  ~Off(m.disk.blockBits)
<1>. DEFINE a == m.disk.blockBits
<1>1. Sound(a, m)
  BY SoundHere
<1>2. Sound(a, f[k])
  BY <1>1, MakingGoesOn
<1>. QED
  BY <1>2, OffStays

LEMMA CreateOff ==
    ASSUME NEW b, NEW m, Sound(b, m), NEW name, NEW type \in Kinds,
           ~Off(CreateDirEntry(m, name, type).m.disk.blockBits)
    PROVE  ~Off(m.disk.blockBits)
<1>. DEFINE a == m.disk.blockBits
<1>1. Sound(a, m)
  BY SoundHere
<1>2. Sound(a, CreateDirEntry(m, name, type).m)
  BY <1>1, CreateDirEntrySound
<1>. QED
  BY <1>2, OffStays

LEMMA AtRootDisk ==
    ASSUME NEW b, NEW m, Sound(b, m)
    PROVE  AtRoot(m).disk = m.disk
BY SoundHere DEF AtRoot, IsMachine

LEMMA CreateFSHere ==
    ASSUME RoomToFormat, PlainNames, NewNames, NEW b, NEW m, Sound(b, m), m.disk = UnformattedDisk,
           NEW n, n = CreateFS(m), ~Off(n.disk.blockBits)
    PROVE  Leaves(b, n)
<1>. DEFINE father == SetInode(SetSuperblock(m), FATHER, NewInode("dir"))
            bits == GetInodeBitmap(father.disk) \union {FATHER}
            marked == SetInodeBitmap(father, bits)
            within == [marked EXCEPT !.cwd = FATHER, !.list = <<>>]
            first == CreateNewDirectory(within, "/")
            root == AtRoot(first)
            named == CreateNewDirectory(root, HomeDir)
            home == ChangeDir(named, HomeDir)
            l == Len(SubDirs)
            made == CHOOSE f : IsMaking(f, home, l)
            filled == ChangeDir(made[l], "..")
            hello == CreateDirEntry(filled, Hello, "file")
            file == AddDirEntryToPath(hello.m, hello.entry)
<1>1. n = WriteToFile(file, Hello, HelloText)
  BY DEF CreateFS, IsMaking
<1>2. Sound(b, within) /\ Fathered(within)
  BY FatherIsMade
<1>. HIDE DEF within
<1>3. Sound(b, first)
  BY <1>2, CreateNewDirectorySound
<1>4. root = AtRoot(CreateNewDirectory(within, "/")) /\ root = AtRoot(first)
  OBVIOUS
<1>. HIDE DEF first
<1>5. Sound(b, root) /\ root.disk = first.disk
  BY <1>3, <1>4, AtRootSound, AtRootDisk
<1>. HIDE DEF root
<1>6. Sound(b, named)
  BY <1>5, CreateNewDirectorySound
<1>7. home = ChangeDir(CreateNewDirectory(root, HomeDir), HomeDir) /\ home = ChangeDir(named, HomeDir)
      /\ named = CreateNewDirectory(root, HomeDir)
  OBVIOUS
<1>. HIDE DEF named
<1>8. Sound(b, home) /\ home.disk = named.disk
  BY <1>6, <1>7, ChangeDirSound, ChangeDirDisk
<1>. HIDE DEF home
<1>9. l \in Nat /\ l \in 0..l
  BY Room
<1>. HIDE DEF l
<1>10. IsMaking(made, home, l)
  BY <1>9, MakingExists
<1>. HIDE DEF made
<1>11. Sound(b, made[l])
  BY <1>8, <1>9, <1>10, MakingGoesOn
<1>12. Sound(b, filled) /\ filled.disk = made[l].disk /\ filled = ChangeDir(made[l], "..")
  BY <1>11, ChangeDirSound, ChangeDirDisk
<1>. HIDE DEF filled
<1>13. Sound(b, hello.m) /\ hello = CreateDirEntry(filled, Hello, "file")
  BY <1>12, CreateDirEntrySound DEF Kinds
<1>. HIDE DEF hello
<1>14. Sound(b, file) /\ file = AddDirEntryToPath(hello.m, hello.entry)
  BY <1>13, AddDirEntrySound
<1>. HIDE DEF file
<1>15. IsSeq(HelloText)
  BY InputAssumption DEF IsSeq
<1>16. ~Off(file.disk.blockBits)
  BY <1>1, <1>14, <1>15, WriteFileOff
<1>17. ~Off(hello.m.disk.blockBits)
  BY <1>13, <1>14, <1>16, AddOff
<1>18. ~Off(filled.disk.blockBits)
  BY <1>12, <1>13, <1>17, CreateOff DEF Kinds
<1>19. ~Off(made[l].disk.blockBits)
  BY <1>12, <1>18
<1>20. ~Off(home.disk.blockBits)
  BY <1>8, <1>9, <1>10, <1>19, MakingOff
<1>21. ~Off(root.disk.blockBits)
  <2>1. ~Off(named.disk.blockBits)
    BY <1>8, <1>20
  <2>. QED
    BY <1>5, <1>7, <2>1, MkdirOff
<1>22. AtNewRoot(b, root)
  BY <1>2, <1>4, <1>21, RootHere
<1>23. PICK s : RootList(s) /\ InHome(b, home, 0, s)
  BY <1>7, <1>20, <1>22, HomeHere
<1>24. InHome(b, made[l], l, s)
  BY <1>8, <1>9, <1>10, <1>19, <1>23, AllMade DEF l
<1>25. BackInRoot(b, filled)
  BY <1>12, <1>23, <1>24, BackHere DEF l
<1>26. PICK q, w : At(b, file, q, w) /\ GetDirEntry(file, Hello).type # "dir"
  BY <1>13, <1>14, <1>16, <1>25, HelloHere
<1>27. Hello \notin Dots \union {"/"}
  BY DEF PlainNames
<1>28. At(b, n, q, w)
  BY <1>1, <1>15, <1>26, <1>27, WriteFileHere
<1>. QED
  BY <1>28 DEF Leaves

\* Where a command completes, the state is settled.
LEMMA CompletesSettled ==
    ASSUME Intact', NEW b, NEW n, Leaves(b, n), Completes(n)
    PROVE  Settled'
<1>1. PICK q, w : At(b, n, q, w)
  BY DEF Leaves
<1>2. n.disk.magic /\ Tidy(View(n.disk), q) /\ Within(n, View(n.disk), w)
  BY <1>1, AtFacts
<1>3. disk' = n.disk /\ m0'.cwd = n.cwd /\ m0'.list = n.list /\ m0'.path = n.path
  BY DEF Completes, m0, Machine
<1>4. Within(m0', View(disk'), w)
  BY <1>2, <1>3 DEF Within
<1>5. disk'.magic /\ Tidy(View(disk'), q)
  BY <1>2, <1>3
<1>6. InTree(q)'
  BY <1>4, <1>5 DEF InTree
<1>. QED
  BY <1>6 DEF Settled

LEMMA BootSettles ==
    ASSUME BlocksLeft, PlainNames, CrashesKeep, RoomToFormat, NewNames, Settled, Intact', Boot
    PROVE  Settled'
<1>. DEFINE m == Machine(disk, 0, <<>>, <<>>)
            n == InitFileSystem(m)
            b == disk.blockBits
<1>1. Runs("format", n) /\ ~up
  BY DEF Boot
<1>2. Completes(n) /\ Cardinality(n.disk.blockBits) <= MaxBlocks
  BY <1>1 DEF Runs, CrashesKeep
<1>3. Sound(b, m) /\ m.disk = disk
  <2>1. Good(disk)
    BY DEF Settled, Intact, Good, Fine
  <2>2. m.disk = disk
    BY DEF Machine
  <2>. QED
    BY <2>1, <2>2, MachineSound, EmptyIsSeq
<1>. HIDE DEF m, b
<1>4. n = IF m.disk.magic THEN AtRoot(m) ELSE CreateFS(m)
  BY DEF InitFileSystem
<1>5. Sound(b, n)
  BY <1>3, InitFileSystemSound
<1>. HIDE DEF n
<1>6. ~Off(n.disk.blockBits)
  <2>1. n.disk.blockBits \in SUBSET Blk
    BY <1>5 DEF Sound, Good, Shape
  <2>. QED
    BY <1>2, <2>1, NotOff
<1>7. CASE disk = UnformattedDisk
  <2>1. m.disk = UnformattedDisk /\ ~m.disk.magic
    BY <1>3, <1>7 DEF UnformattedDisk
  <2>2. n = CreateFS(m)
    BY <1>4, <2>1
  <2>3. Leaves(b, n)
    BY <1>3, <1>6, <2>1, <2>2, CreateFSHere
  <2>. QED
    BY <1>2, <2>3, CompletesSettled
<1>8. ASSUME NEW r, InTree(r)
      PROVE  Settled'
  <2>1. disk.magic /\ Tidy(View(disk), r)
    BY <1>8 DEF InTree
  <2>2. Neat(b, m, r)
    BY <1>3, <2>1 DEF Neat
  <2>3. n = AtRoot(m)
    BY <1>3, <1>4, <2>1
  <2>4. Goes(n, m, ROOT, <<>>)
    BY <2>3 DEF AtRoot, Goes
  <2>5. Leaves(b, n)
    BY <2>2, <2>4, NeatGoesToRoot DEF Leaves
  <2>. QED
    BY <1>2, <2>5, CompletesSettled
<1>. QED
  BY <1>7, <1>8 DEF Settled

\* What the theorems ask of the constants.
Usable == BlocksLeft /\ RoomToFormat /\ PlainNames /\ NewNames /\ CrashesKeep

LEMMA InitSettled == Init => Settled
BY InitIntact DEF Init, Settled

LEMMA NextSettled ==
    ASSUME Usable, Settled, Next
    PROVE  Settled'
<1>1. /\ BlocksLeft /\ RoomToFormat /\ PlainNames /\ NewNames /\ CrashesKeep
      /\ Intact /\ NumPtrs * BlockUnits >= 2
  BY Room DEF Usable, Settled
<1>2. Intact'
  BY <1>1, NextIntact DEF BlocksLeft
<1>3. CASE Boot
  BY <1>1, <1>2, <1>3, BootSettles
<1>4. ASSUME up PROVE \E r : InTree(r)
  BY <1>4 DEF Settled
<1>5. ASSUME NEW n \in Names, Touch(n) PROVE Settled'
  BY <1>1, <1>2, <1>4, <1>5, TouchSettles DEF Touch
<1>6. ASSUME NEW n \in Names, Mkdir(n) PROVE Settled'
  BY <1>1, <1>2, <1>4, <1>6, MkdirSettles DEF Mkdir
<1>7. ASSUME NEW n \in Names, Rm(n) PROVE Settled'
  BY <1>1, <1>2, <1>4, <1>7, RmSettles DEF Rm
<1>8. ASSUME NEW n \in Names, Rmdir(n) PROVE Settled'
  BY <1>1, <1>2, <1>4, <1>8, RmdirSettles DEF Rmdir
<1>9. ASSUME NEW n \in Names, NEW text \in Texts, Write(n, text) PROVE Settled'
  BY <1>1, <1>2, <1>4, <1>9, WriteSettles DEF Write
<1>10. ASSUME NEW n \in Names, NEW text \in Texts, AppendText(n, text) PROVE Settled'
  BY <1>1, <1>2, <1>4, <1>10, AppendSettles DEF AppendText
<1>11. ASSUME NEW n, Cd(n) PROVE Settled'
  BY <1>1, <1>2, <1>4, <1>11, CdSettles DEF Cd
<1>12. ASSUME NEW n \in Names, NEW new \in Names, Rename(n, new) PROVE Settled'
  BY <1>1, <1>2, <1>4, <1>12, RenameSettles DEF Rename
<1>13. ASSUME NEW n \in Names, NEW dest \in Names \union {".."}, Mv(n, dest) PROVE Settled'
  BY <1>1, <1>2, <1>4, <1>13, MvSettles DEF Mv
<1>14. CASE Ls
  BY <1>1, <1>2, <1>4, <1>14, LsSettles DEF Ls
<1>15. CASE PowerCut
  BY <1>1, <1>2, <1>4, <1>15, CutSettles DEF PowerCut
<1>. QED
  BY <1>3, <1>5, <1>6, <1>7, <1>8, <1>9, <1>10, <1>11, <1>12, <1>13, <1>14, <1>15 DEF Next

\* A step that changes nothing leaves the machine where it is.
LEMMA StutterSettled ==
    ASSUME Settled, UNCHANGED vars
    PROVE  Settled'
<1>1. disk' = disk /\ up' = up /\ m0' = m0 /\ list' = list
  BY DEF vars, m0, Machine
<1>2. Intact'
  BY <1>1 DEF Intact, Settled
<1>3. ASSUME NEW r, InTree(r) PROVE InTree(r)'
  BY <1>1, <1>3 DEF InTree
<1>. QED
  BY <1>1, <1>2, <1>3 DEF Settled

LEMMA AlwaysSettled ==
    ASSUME Usable
    PROVE  Spec => []Settled
<1>1. Settled /\ [Next]_vars => Settled'
  BY NextSettled, StutterSettled
<1>. QED
  BY <1>1, InitSettled, PTL DEF Spec

\* Every name in a directory leads to an inode that is in use and of its kind,
\* no directory holds a name twice and no inode has two names, whatever the tree
\* and wherever touch, mkdir, write or append lose the power (createDirEntry,
\* addDirEntryToPath, deleteInode).
THEOREM LiveEntries ==
    ASSUME Usable
    PROVE  Spec => []EntriesLive
BY AlwaysSettled, SettledIsFine, PTL

\* "." and ".." of every finished directory lead to itself and to the directory
\* that names it (createNewDirectory, deleteDir, moveDirEntry).
THEOREM TrueDots ==
    ASSUME Usable
    PROVE  Spec => []DotsTrue
BY AlwaysSettled, SettledIsFine, PTL

\* The list of the current directory in memory is the one on the disk, through the
\* cds inside rmdir and mv as well (addDirEntryToPath, removeDirEntryFromPath).
THEOREM ListStaysDisk ==
    ASSUME Usable
    PROVE  Spec => []ListIsDisk
BY AlwaysSettled, SettledIsFine, PTL

\* The path of the prompt leads from the root to the current directory, as deep as
\* the tree may be (changeDir).
THEOREM PathStays ==
    ASSUME Usable
    PROVE  Spec => []PathLeads
BY AlwaysSettled, SettledIsFine, PTL

---------------------------------------------------------------------------
(* What cat shows of what write and append wrote.                          *)

\* A text has room in a file and holds no terminator.
TextsFit ==
    \A text \in Texts : Zero \notin ToSet(text) /\ Len(text) + 1 <= NumPtrs * BlockUnits

LEMMA TextStops ==
    ASSUME NEW s, IsSeq(s), NEW k \in 1..Len(s), s[k] = Zero, \A i \in 1..(k - 1) : s[i] # Zero
    PROVE  Text(s) = SubSeq(s, 1, k - 1)
<1>. DEFINE ends == {i \in DOMAIN s : s[i] = Zero}
<1>1. DOMAIN s = 1..Len(s) /\ Len(s) \in Nat
  BY SeqFacts
<1>2. k \in ends /\ ends \in SUBSET Nat
  BY <1>1
<1>3. \A i \in ends : k <= i
  BY <1>1
<1>. HIDE DEF ends
<1>4. Min(ends) \in ends /\ \A y \in ends : Min(ends) <= y
  BY <1>2, MinIsLeast
<1>. DEFINE first == Min(ends)
<1>5. first \in Nat /\ first <= k /\ k <= first /\ k \in Nat
  BY <1>1, <1>2, <1>3, <1>4
<1>6. ends # {}
  BY <1>2
<1>7. Text(s) = SubSeq(s, 1, first - 1)
  BY <1>6 DEF Text, ends
<1>. HIDE DEF first
<1>8. first = k
  BY <1>5
<1>. QED
  BY <1>7, <1>8

\* The terminator is the last unit.
EndsThere(s) ==
    /\ Len(s) \in Nat /\ Len(s) >= 1
    /\ \A i \in 1..(Len(s) - 1) : s[i] # Zero
    /\ Text(s) = Front(s)

LEMMA TextFound ==
    ASSUME NEW s, IsSeq(s), Len(s) = Len(Text(s)) + 1
    PROVE  EndsThere(s)
<1>. DEFINE ends == {i \in DOMAIN s : s[i] = Zero}
            k == Min(ends)
<1>1. DOMAIN s = 1..Len(s) /\ Len(s) \in Nat
  BY SeqFacts
<1>2. Text(s) = IF ends = {} THEN s ELSE SubSeq(s, 1, k - 1)
  BY DEF Text
<1>3. ends # {}
  <2>. HIDE DEF ends, k
  <2>1. SUFFICES ASSUME ends = {} PROVE FALSE
    OBVIOUS
  <2>2. Text(s) = s
    BY <1>2, <2>1
  <2>3. Len(s) = Len(s) + 1
    BY <2>2
  <2>. QED
    BY <1>1, <2>3
<1>4. ends \in SUBSET Nat
  BY <1>1
<1>5. k \in ends /\ \A y \in ends : k <= y
  <2>. HIDE DEF ends
  <2>. QED
    BY <1>3, <1>4, MinIsLeast
<1>. HIDE DEF k
<1>6. k \in 1..Len(s) /\ \A i \in 1..(k - 1) : s[i] # Zero
  BY <1>1, <1>5
<1>. HIDE DEF ends
<1>7. Len(Text(s)) = k - 1
  <2>1. Len(SubSeq(s, 1, k - 1)) = IF 1 <= k - 1 THEN (k - 1) - 1 + 1 ELSE 0
    BY <1>6, SubSeqIsSeq
  <2>. QED
    BY <1>2, <1>3, <1>6, <2>1
<1>8. k = Len(s)
  BY <1>1, <1>6, <1>7
<1>. QED
  BY <1>1, <1>2, <1>3, <1>6, <1>8 DEF EndsThere, Front

LEMMA SameEntry ==
    ASSUME NEW m, NEW k, NEW name, name # "/",
           ReadDirectoryList(m.disk, m.cwd) = ReadDirectoryList(k.disk, k.cwd)
    PROVE  GetDirEntry(m, name) = GetDirEntry(k, name)
BY DEF GetDirEntry

\* A command that writes the units to a file, and is not cut off, leaves them there.
WritesFile(name, units, n, command) ==
    /\ up /\ up' /\ Here(name).type = "file" /\ name # "/"
    /\ IsSeq(units) /\ Len(units) <= NumPtrs * BlockUnits
    /\ n = WriteToFile(m0, name, units) /\ Runs(command, n)

LEMMA WrittenIsRead ==
    ASSUME BlocksLeft, Intact, NEW r, InTree(r), NEW name, NEW units, NEW n, NEW command,
           WritesFile(name, units, n, command)
    PROVE  ReadFromFile(disk', cwd, name) = units
<1>. DEFINE b == disk.blockBits
            x == GetDirEntry(m0, name).ino
            V == View(disk)
<1>1. /\ up /\ up' /\ GetDirEntry(m0, name).type = "file" /\ name # "/"
      /\ IsSeq(units) /\ Len(units) <= NumPtrs * BlockUnits
      /\ n = WriteToFile(m0, name, units) /\ Runs(command, n)
  BY DEF WritesFile, Here
<1>2. disk' = n.disk /\ Cardinality(n.disk.blockBits) <= MaxBlocks
  BY <1>1 DEF Runs, Completes, LosesPower
<1>3. PICK w : At(b, m0, r, w)
  BY <1>1, MachineAt
<1>4. m0.disk = disk /\ m0.cwd = cwd /\ Shape(disk)
  BY <1>1, MachineAt
<1>5. Sound(b, m0) /\ cwd \in Ino
  BY <1>3, <1>4, AtFacts
<1>6. x \in Ino /\ x # 0 /\ V.types[x] # "dir"
  <2>1. GetDirEntry(m0, name) # NoEntry
    BY <1>1, NoEntryIs DEF NoEntryFacts
  <2>2. PICK i : Names3(m0, r, name, i)
    BY <1>1, <1>3, <2>1, FindsPlain
  <2>. QED
    BY <1>1, <1>4, <2>2 DEF Names3, Child, Ino
<1>7. n = WriteInode(m0, units, x)
  BY <1>1, <1>6 DEF WriteToFile
<1>. HIDE DEF x
<1>8. Sound(b, n)
  BY <1>1, <1>5, <1>7, WriteInodeSound
<1>9. ~Off(n.disk.blockBits)
  <2>1. n.disk.blockBits \in SUBSET Blk
    BY <1>8 DEF Sound, Good, Shape
  <2>. QED
    BY <1>2, <2>1, NotOff
<1>10. GetInodeData(n.disk, x) = units
  <2>1. WritesOut(n, m0, units, x)
    <3>1. ~Off(WriteInode(m0, units, x).disk.blockBits)
      BY <1>7, <1>9
    <3>2. WritesOut(WriteInode(m0, units, x), m0, units, x)
      BY <1>1, <1>5, <1>6, <3>1, WriteInodeWrites
    <3>. QED
      BY <1>7, <3>2
  <2>. QED
    BY <1>1, <2>1 DEF WritesOut
<1>11. View(n.disk) = View(m0.disk)
  <2>1. View(m0.disk).types[x] # "dir"
    BY <1>4, <1>6
  <2>2. IsSeq(units)
    BY <1>1
  <2>. QED
    BY <1>5, <1>6, <1>7, <1>9, <2>1, <2>2, WriteFileLooks
<1>12. ReadDirectoryList(disk', cwd) = ReadDirectoryList(disk, cwd)
  <2>1. Shape(n.disk)
    BY <1>8, SoundHere
  <2>2. ReadDirectoryList(n.disk, cwd) = View(n.disk).lists[cwd]
    BY <1>5, <2>1, ViewFacts
  <2>3. ReadDirectoryList(disk, cwd) = View(disk).lists[cwd]
    BY <1>4, <1>5, ViewFacts
  <2>. QED
    BY <1>2, <1>4, <1>11, <2>2, <2>3
<1>. DEFINE k == [disk |-> disk', cwd |-> cwd]
<1>13. GetDirEntry(k, name) = GetDirEntry(m0, name)
  <2>1. ReadDirectoryList(k.disk, k.cwd) = ReadDirectoryList(m0.disk, m0.cwd)
    BY <1>4, <1>12
  <2>. HIDE DEF k
  <2>. QED
    BY <1>1, <2>1, SameEntry
<1>. QED
  BY <1>2, <1>10, <1>13 DEF ReadFromFile, x

LEMMA TextIs ==
    ASSUME NEW s, IsSeq(s), \A i \in 1..Len(s) : s[i] # Zero,
           NEW a, IsSeq(a), Len(a) >= Len(s) + 1, a[Len(s) + 1] = Zero, \A i \in 1..Len(s) : a[i] = s[i]
    PROVE  Text(a) = s
<1>. DEFINE k == Len(s) + 1
            t == SubSeq(a, 1, Len(s))
<1>1. Len(s) \in Nat /\ Len(a) \in Nat
  BY SeqFacts
<1>2. k \in 1..Len(a) /\ a[k] = Zero /\ k - 1 = Len(s) /\ \A i \in 1..(k - 1) : a[i] # Zero
  BY <1>1
<1>. HIDE DEF k
<1>3. Text(a) = SubSeq(a, 1, k - 1)
  BY <1>2, TextStops
<1>4. /\ IsSeq(t) /\ Len(t) = IF 1 <= Len(s) THEN Len(s) - 1 + 1 ELSE 0
      /\ \A i \in 1..Len(s) - 1 + 1 : t[i] = a[1 + i - 1]
  BY <1>1, SubSeqIsSeq
<1>. HIDE DEF t
<1>5. Len(t) = Len(s) /\ \A i \in 1..Len(t) : t[i] = s[i]
  BY <1>1, <1>4
<1>6. t = s
  BY <1>4, <1>5, SameSeq
<1>. QED
  BY <1>2, <1>3, <1>6 DEF t

LEMMA TextUnits ==
    ASSUME TextsFit, NEW text \in Texts
    PROVE  /\ IsSeq(text) /\ Len(text) \in Nat /\ Len(text) + 1 <= NumPtrs * BlockUnits
           /\ \A i \in 1..Len(text) : text[i] # Zero
           /\ IsSeq(text \o <<Zero>>) /\ Len(text \o <<Zero>>) = Len(text) + 1
           /\ \A i \in 1..Len(text) : (text \o <<Zero>>)[i] = text[i]
           /\ (text \o <<Zero>>)[Len(text) + 1] = Zero
<1>. DEFINE z == <<Zero>>
            u == text \o z
<1>1. IsSeq(text)
  BY InputAssumption DEF IsSeq
<1>2. Len(text) \in Nat /\ \A i \in 1..Len(text) : text[i] \in ToSet(text)
  BY <1>1, SeqFacts
<1>3. Zero \notin ToSet(text) /\ Len(text) + 1 <= NumPtrs * BlockUnits
  BY DEF TextsFit
<1>4. IsSeq(z) /\ Len(z) = 1 /\ z[1] = Zero
  BY SingleIsSeq
<1>. HIDE DEF z
<1>5. /\ IsSeq(u) /\ Len(u) = Len(text) + Len(z)
      /\ \A i \in 1..Len(text) + Len(z) : u[i] = IF i <= Len(text) THEN text[i] ELSE z[i - Len(text)]
  BY <1>1, <1>4, ConcatIsSeq
<1>. HIDE DEF u
<1>6. /\ Len(u) = Len(text) + 1 /\ u[Len(text) + 1] = Zero
      /\ \A i \in 1..Len(text) : u[i] = text[i]
  BY <1>2, <1>4, <1>5
<1>. QED
  BY <1>1, <1>2, <1>3, <1>5, <1>6 DEF u, z

LEMMA WriteArrives ==
    ASSUME BlocksLeft, PlainNames, TextsFit, Intact, NEW r, InTree(r), up, up',
           NEW name \in Names, NEW text \in Texts, Here(name).type = "file", Write(name, text)
    PROVE  Shown(disk', name) = text
<1>. DEFINE units == text \o <<Zero>>
            n == WriteToFile(m0, name, units)
<1>1. /\ IsSeq(text) /\ Len(text) \in Nat /\ Len(text) + 1 <= NumPtrs * BlockUnits
      /\ \A i \in 1..Len(text) : text[i] # Zero
      /\ IsSeq(units) /\ Len(units) = Len(text) + 1
      /\ \A i \in 1..Len(text) : units[i] = text[i]
      /\ units[Len(text) + 1] = Zero
  BY TextUnits
<1>2. Runs("write", n)
  BY DEF Write
<1>3. name # "/"
  BY DEF PlainNames
<1>. HIDE DEF units
<1>4. n = WriteToFile(m0, name, units)
  OBVIOUS
<1>. HIDE DEF n
<1>5. WritesFile(name, units, n, "write")
  BY <1>1, <1>2, <1>3, <1>4 DEF WritesFile
<1>6. ReadFromFile(disk', cwd, name) = units
  BY <1>5, WrittenIsRead
<1>7. Text(units) = text
  BY <1>1, TextIs
<1>. QED
  BY <1>6, <1>7 DEF Shown

LEMMA AppendArrives ==
    ASSUME BlocksLeft, PlainNames, TextsFit, Intact, NEW r, InTree(r), up, up',
           NEW name \in Names, NEW text \in Texts, Here(name).type = "file", AppendText(name, text),
           Len(ReadFromFile(disk, cwd, name)) = Len(Shown(disk, name)) + 1
    PROVE  Shown(disk', name) = Shown(disk, name) \o text
<1>. DEFINE old == ReadFromFile(disk, cwd, name)
            z == <<Zero>>
            g == text \o z
            f == Front(old)
            h == f \o g
            units == h \o z
            s == f \o text
            n == AppendToFile(m0, name, g)
            x == GetDirEntry(m0, name).ino
<1>1. PICK w : At(disk.blockBits, m0, r, w)
  BY MachineAt
<1>2. m0.disk = disk /\ m0.cwd = cwd /\ Shape(disk)
  BY MachineAt
<1>3. x \in Ino
  <2>1. Here(name).type = "file"
    OBVIOUS
  <2>2. GetDirEntry(m0, name) # NoEntry
    BY <2>1, NoEntryIs DEF NoEntryFacts, Here
  <2>3. name # "/"
    BY DEF PlainNames
  <2>4. GetDirEntry(m0, name).type = "file"
    BY <2>1 DEF Here
  <2>5. PICK i : Names3(m0, r, name, i)
    BY <1>1, <2>2, <2>4, FindsPlain
  <2>. QED
    BY <2>5 DEF Names3, Child, Ino
<1>4. old = GetInodeData(disk, x)
  <2>. DEFINE k == [disk |-> disk, cwd |-> cwd]
  <2>1. ReadDirectoryList(k.disk, k.cwd) = ReadDirectoryList(m0.disk, m0.cwd)
    BY <1>2
  <2>2. name # "/"
    BY DEF PlainNames
  <2>. HIDE DEF k
  <2>3. GetDirEntry(k, name) = GetDirEntry(m0, name)
    BY <2>1, <2>2, SameEntry
  <2>. QED
    BY <2>3 DEF ReadFromFile, k
<1>5. IsSeq(old) /\ Len(old) = GetInode(disk, x).size /\ Len(old) \in Nat
  BY <1>2, <1>3, <1>4, DataLen, GetInodeIsNode
<1>6. Len(old) + Len(text) + 1 <= NumPtrs * BlockUnits
  BY <1>5 DEF AppendText, Here
<1>7. EndsThere(old)
  <2>1. Len(old) = Len(Text(old)) + 1
    BY DEF Shown
  <2>. HIDE DEF old
  <2>. QED
    BY <1>5, <2>1, TextFound
<1>8. Runs("append", n) /\ n = WriteToFile(m0, name, units)
  <2>1. Runs("append", n)
    BY DEF AppendText
  <2>2. ReadFromFile(m0.disk, m0.cwd, name) = old
    BY <1>2
  <2>. QED
    BY <2>1, <2>2 DEF AppendToFile
<1>. HIDE DEF x, n
<1>9. Shown(disk, name) = f
  BY <1>7 DEF Shown, EndsThere
<1>10. /\ Len(old) >= 1 /\ \A i \in 1..(Len(old) - 1) : old[i] # Zero
  BY <1>7 DEF EndsThere
<1>. HIDE DEF old
<1>11. IsSeq(f) /\ Len(f) = Len(old) - 1 /\ \A i \in 1..Len(f) : f[i] = old[i]
  <2>1. f = SubSeq(old, 1, Len(old) - 1)
    BY DEF Front
  <2>2. /\ IsSeq(SubSeq(old, 1, Len(old) - 1))
        /\ Len(SubSeq(old, 1, Len(old) - 1)) = IF 1 <= Len(old) - 1 THEN Len(old) - 1 - 1 + 1 ELSE 0
        /\ \A i \in 1..Len(old) - 1 - 1 + 1 : SubSeq(old, 1, Len(old) - 1)[i] = old[1 + i - 1]
    BY <1>5, SubSeqIsSeq
  <2>. HIDE DEF f
  <2>3. /\ IsSeq(f) /\ Len(f) = IF 1 <= Len(old) - 1 THEN Len(old) - 1 - 1 + 1 ELSE 0
        /\ \A i \in 1..Len(old) - 1 - 1 + 1 : f[i] = old[1 + i - 1]
    BY <2>1, <2>2
  <2>. QED
    BY <1>5, <1>10, <2>3
<1>. HIDE DEF f
<1>12. Len(f) \in Nat /\ \A i \in 1..Len(f) : f[i] # Zero
  <2>1. Len(f) \in Nat
    BY <1>5, <1>10, <1>11
  <2>2. \A i \in 1..(Len(old) - 1) : f[i] = old[i] /\ old[i] # Zero
    BY <1>10, <1>11
  <2>. QED
    BY <1>11, <2>1, <2>2
<1>13. /\ IsSeq(text) /\ Len(text) \in Nat /\ \A i \in 1..Len(text) : text[i] # Zero
       /\ IsSeq(g) /\ Len(g) = Len(text) + 1 /\ g[Len(text) + 1] = Zero
       /\ \A i \in 1..Len(text) : g[i] = text[i]
  BY TextUnits
<1>14. IsSeq(z) /\ Len(z) = 1
  BY SingleIsSeq
<1>. HIDE DEF g, z
<1>15. /\ IsSeq(s) /\ Len(s) = Len(f) + Len(text)
       /\ \A i \in 1..Len(f) + Len(text) : s[i] = IF i <= Len(f) THEN f[i] ELSE text[i - Len(f)]
  BY <1>11, <1>13, ConcatIsSeq
<1>16. /\ IsSeq(h) /\ Len(h) = Len(f) + Len(g)
       /\ \A i \in 1..Len(f) + Len(g) : h[i] = IF i <= Len(f) THEN f[i] ELSE g[i - Len(f)]
  BY <1>11, <1>13, ConcatIsSeq
<1>. HIDE DEF s, h
<1>17. /\ IsSeq(units) /\ Len(units) = Len(h) + Len(z)
       /\ \A i \in 1..Len(h) + Len(z) : units[i] = IF i <= Len(h) THEN h[i] ELSE z[i - Len(h)]
  BY <1>14, <1>16, ConcatIsSeq
<1>. HIDE DEF units
<1>18. \A i \in 1..Len(s) : s[i] # Zero
  BY <1>12, <1>13, <1>15
<1>19. Len(units) = Len(s) + 2
  BY <1>12, <1>13, <1>14, <1>15, <1>16, <1>17
<1>20. \A i \in 1..Len(s) + 1 : units[i] = h[i]
  BY <1>12, <1>13, <1>14, <1>15, <1>16, <1>17
<1>21. h[Len(s) + 1] = Zero
  <2>1. h[Len(s) + 1] = g[Len(s) + 1 - Len(f)]
    BY <1>12, <1>13, <1>15, <1>16
  <2>2. Len(s) + 1 - Len(f) = Len(text) + 1
    BY <1>12, <1>13, <1>15
  <2>. QED
    BY <1>13, <2>1, <2>2
<1>22. ASSUME NEW i \in 1..Len(s) PROVE h[i] = s[i]
  <2>1. i \in 1..Len(f) + Len(text) /\ i \in 1..Len(f) + Len(g)
    BY <1>12, <1>13, <1>15
  <2>2. CASE i <= Len(f)
    BY <1>15, <1>16, <2>1, <2>2
  <2>3. CASE ~(i <= Len(f))
    <3>1. i - Len(f) \in 1..Len(text)
      BY <1>12, <1>13, <2>1, <2>3
    <3>2. s[i] = text[i - Len(f)] /\ h[i] = g[i - Len(f)]
      BY <1>15, <1>16, <2>1, <2>3
    <3>. QED
      BY <1>13, <3>1, <3>2
  <2>. QED
    BY <2>2, <2>3
<1>23. Text(units) = s
  <2>1. Len(s) \in Nat
    BY <1>15, SeqFacts
  <2>2. /\ Len(units) >= Len(s) + 1 /\ units[Len(s) + 1] = Zero
        /\ \A i \in 1..Len(s) : units[i] = s[i]
    BY <1>19, <1>20, <1>21, <1>22, <2>1
  <2>. QED
    BY <1>15, <1>17, <1>18, <2>2, TextIs
<1>24. WritesFile(name, units, n, "append")
  <2>1. Len(units) <= NumPtrs * BlockUnits
    <3>. DEFINE room == NumPtrs * BlockUnits
    <3>1. room \in Nat /\ Len(old) + Len(text) + 1 <= room
      BY <1>6, Constants
    <3>. HIDE DEF room
    <3>2. Len(units) = (Len(old) - 1) + Len(text) + 2
      BY <1>11, <1>15, <1>19
    <3>3. Len(text) \in Nat /\ Len(old) \in Nat
      BY <1>5, <1>13
    <3>4. Len(units) <= room
      BY <3>1, <3>2, <3>3
    <3>. QED
      BY <3>4 DEF room
  <2>2. name # "/"
    BY DEF PlainNames
  <2>. QED
    BY <1>8, <1>17, <2>1, <2>2 DEF WritesFile
<1>25. ReadFromFile(disk', cwd, name) = units
  BY <1>24, WrittenIsRead
<1>. QED
  BY <1>9, <1>23, <1>25 DEF Shown, s

\* A write or an append that is not cut off arrives: cat shows what write put
\* there, or the old text with the new one behind it when the old terminator
\* was the last unit of the content (cmd_write, writeToFile, appendToFile).
THEOREM TextAlwaysArrives ==
    ASSUME Usable, TextsFit
    PROVE  Spec => TextArrives
<1>. DEFINE Arrives ==
       \A n \in Names, text \in Texts :
          up /\ up' /\ Here(n).type = "file" =>
            /\ Write(n, text) => Shown(disk', n) = text
            /\ AppendText(n, text)
               /\ Len(ReadFromFile(disk, cwd, n)) = Len(Shown(disk, n)) + 1
               => Shown(disk', n) = Shown(disk, n) \o text
<1>1. Settled => Arrives
  <2>. SUFFICES ASSUME Settled, NEW n \in Names, NEW text \in Texts, up, up', Here(n).type = "file"
       PROVE  /\ Write(n, text) => Shown(disk', n) = text
              /\ AppendText(n, text)
                 /\ Len(ReadFromFile(disk, cwd, n)) = Len(Shown(disk, n)) + 1
                 => Shown(disk', n) = Shown(disk, n) \o text
    OBVIOUS
  <2>1. PICK r : InTree(r)
    BY DEF Settled
  <2>2. Intact /\ BlocksLeft /\ PlainNames
    BY DEF Settled, Usable
  <2>3. ASSUME Write(n, text) PROVE Shown(disk', n) = text
    BY <2>1, <2>2, <2>3, WriteArrives
  <2>4. ASSUME AppendText(n, text), Len(ReadFromFile(disk, cwd, n)) = Len(Shown(disk, n)) + 1
        PROVE  Shown(disk', n) = Shown(disk, n) \o text
    BY <2>1, <2>2, <2>4, AppendArrives
  <2>. QED
    BY <2>3, <2>4
<1>. QED
  BY <1>1, AlwaysSettled, PTL DEF TextArrives

=============================================================================
