---------------------------- MODULE Heap_proofs ----------------------------
(***************************************************************************)
(* For a pool of any length, any sizes and any alignments: the blocks tile *)
(* the pool, their tags and the three counters are true, no bookkeeping    *)
(* reaches a caller's words and free neighbours are merged, as long as     *)
(* callers keep from the two frees that BehindCut and TooShort describe.   *)
(*                                                                         *)
(* The invariant describes the pool by a layout: the kind of block that    *)
(* starts at each word, if one does, and where it ends.  A malloc, a cut   *)
(* and the merges of free split and join blocks of the layout.  What makes *)
(* a free after a cut safe is that a malloc never gives out the end of a   *)
(* free block: the words a cut lost have no used block before them.        *)
(***************************************************************************)
EXTENDS Heap, FunctionTheorems, FiniteSetTheorems, SequenceTheorems, WellFoundedInduction, TLAPS

Pool == 0..(Words - 1)
Kinds == {"none", "used", "free", "lost"}
TagSet == [size : 0..(SizeLimit - 1), inUse : BOOLEAN]

\* The block that starts at x is of kind[x] and ends before end[x].
Layout(kind, end) ==
    /\ kind \in [Pool -> Kinds]
    /\ end \in [Pool -> 1..Words]
    /\ \A x \in Pool : kind[x] # "none" => x < end[x]
    /\ \A x, y \in Pool : kind[x] # "none" /\ kind[y] # "none" /\ x < y => end[x] <= y
    /\ \A a \in Pool : \E x \in Pool : kind[x] # "none" /\ x <= a /\ a < end[x]

\* Block b of the first layout is two in the second, which starts again at m.
Splits(kind, end, kind2, end2, b, m) ==
    /\ b \in Pool /\ m \in Pool
    /\ b < m /\ m < end[b]
    /\ kind[b] # "none" /\ kind[m] = "none"
    /\ kind2[b] # "none" /\ kind2[m] # "none"
    /\ end2[b] = m /\ end2[m] = end[b]
    /\ \A x \in Pool : x # b /\ x # m => kind2[x] = kind[x] /\ end2[x] = end[x]

\* Block b of the first layout is of another kind in the second.
Retags(kind, kind2, b, kd) ==
    /\ b \in Pool /\ kind[b] # "none"
    /\ kd \in Kinds \ {"none"}
    /\ kind2 = [kind EXCEPT ![b] = kd]

LayoutOf(k, e) == k \in [Pool -> Kinds] /\ e \in [Pool -> 1..Words]

----------------------------------------------------------------------------
\* Layouts.

LEMMA PoolSize == Words \in Nat /\ Words > 4 /\ 0 \in Pool /\ SizeLimit \in Nat /\ Words <= SizeLimit
  BY HeapAssumption DEF Pool, FREE_BLOCK_HEADER_SIZE, FOOTER_SIZE, SizeLimit

\* What a layout says of a block, and of two.
LEMMA BlockIn ==
    ASSUME NEW k, NEW e, Layout(k, e), NEW x \in Pool
    PROVE  k[x] \in Kinds /\ e[x] \in 1..Words /\ (k[x] # "none" => x < e[x])
  BY DEF Layout

LEMMA BlocksApart ==
    ASSUME NEW k, NEW e, Layout(k, e), NEW x \in Pool, NEW y \in Pool,
           k[x] # "none", k[y] # "none"
    PROVE  x = y \/ e[x] <= y \/ e[y] <= x
<1>1. x < y => e[x] <= y  BY DEF Layout
<1>2. y < x => e[y] <= x  BY DEF Layout
<1> QED  BY <1>1, <1>2, PoolSize DEF Pool

\* No block starts inside another.
LEMMA InsideNone ==
    ASSUME NEW k, NEW e, Layout(k, e), NEW b \in Pool, k[b] # "none",
           NEW m \in Pool, b < m, m < e[b]
    PROVE  k[m] = "none"
  BY BlockIn, BlocksApart, PoolSize DEF Pool

\* Behind a block that does not end the pool starts another.
LEMMA NextBlock ==
    ASSUME NEW k, NEW e, Layout(k, e), NEW b \in Pool, k[b] # "none", e[b] # Words
    PROVE  e[b] \in Pool /\ k[e[b]] # "none"
<1>1. e[b] \in Pool  BY BlockIn, PoolSize DEF Pool
<1>2. PICK x \in Pool : k[x] # "none" /\ x <= e[b] /\ e[b] < e[x]
  BY <1>1 DEF Layout
<1>3. x = e[b]
  BY <1>1, <1>2, BlockIn, BlocksApart, PoolSize DEF Pool
<1> QED  BY <1>1, <1>2, <1>3

\* Before a block that does not start the pool ends another.
LEMMA BlockBefore ==
    ASSUME NEW k, NEW e, Layout(k, e), NEW b \in Pool, k[b] # "none", b # 0
    PROVE  \E x \in Pool : k[x] # "none" /\ e[x] = b /\ x < b
<1>1. b - 1 \in Pool  BY PoolSize DEF Pool
<1>2. PICK x \in Pool : k[x] # "none" /\ x <= b - 1 /\ b - 1 < e[x]
  BY <1>1 DEF Layout
<1>3. e[x] = b
  BY <1>1, <1>2, BlockIn, BlocksApart, PoolSize DEF Pool
<1>4. x < b
  BY <1>2, PoolSize DEF Pool
<1> QED  BY <1>2, <1>3, <1>4

\* A block of the split layout is a part of one of the other.
LEMMA PartOf ==
    ASSUME NEW k, NEW e, NEW k2, NEW e2, LayoutOf(k, e), LayoutOf(k2, e2),
           NEW b, NEW m, Splits(k, e, k2, e2, b, m),
           NEW x \in Pool
    PROVE  /\ b \in Pool /\ m \in Pool /\ b < m /\ m < e[b] /\ e[b] \in 1..Words
           /\ k[b] # "none" /\ k[m] = "none" /\ k2[b] # "none" /\ k2[m] # "none"
           /\ e2[b] = m /\ e2[m] = e[b]
           /\ e[x] \in 1..Words /\ e2[x] \in 1..Words
           /\ x = b \/ x = m \/ (x # b /\ x # m /\ k2[x] = k[x] /\ e2[x] = e[x])
<1>1. e[x] \in 1..Words /\ e2[x] \in 1..Words  BY DEF LayoutOf
<1>2. b \in Pool /\ m \in Pool  BY DEF Splits
<1>3. e[b] \in 1..Words  BY <1>2 DEF LayoutOf
<1> QED  BY <1>1, <1>2, <1>3 DEF Splits

LEMMA SplitTiles ==
    ASSUME NEW k, NEW e, NEW k2, NEW e2, LayoutOf(k2, e2), Layout(k, e),
           NEW b, NEW m, Splits(k, e, k2, e2, b, m)
    PROVE  Layout(k2, e2)
<1>0. LayoutOf(k, e)  BY DEF Layout, LayoutOf
<1>1. ASSUME NEW x \in Pool, k2[x] # "none" PROVE x < e2[x]
  BY <1>0, <1>1, PartOf, BlockIn, PoolSize DEF Pool
<1>2. ASSUME NEW x \in Pool, NEW y \in Pool, k2[x] # "none", k2[y] # "none", x < y
      PROVE  e2[x] <= y
  <2> DEFINE u == IF x = m THEN b ELSE x
             v == IF y = m THEN b ELSE y
  <2>1. /\ u \in Pool /\ v \in Pool /\ k[u] # "none" /\ k[v] # "none"
    BY <1>0, <1>2, PartOf
  <2>2. u = v \/ e[u] <= v \/ e[v] <= u  BY <2>1, BlocksApart
  <2>3. /\ x \in Int /\ y \in Int /\ u \in Int /\ v \in Int /\ b \in Int /\ m \in Int
        /\ e[u] \in Int /\ e[v] \in Int /\ u < e[u] /\ v < e[v]
    BY <1>0, <2>1, <1>2, BlockIn, PartOf, PoolSize DEF Pool
  <2>4. CASE x = m
    <3>1. CASE y = m  BY <1>2, <2>4, <3>1, <2>3
    <3>2. CASE y # m  BY <1>0, <1>2, <2>4, <3>2, <2>2, <2>3, PartOf
    <3> QED  BY <3>1, <3>2
  <2>5. CASE x # m
    <3>1. CASE y = m  BY <1>0, <1>2, <2>5, <3>1, <2>2, <2>3, PartOf
    <3>2. CASE y # m  BY <1>0, <1>2, <2>5, <3>2, <2>2, <2>3, PartOf
    <3> QED  BY <3>1, <3>2
  <2> QED  BY <2>4, <2>5
<1>3. ASSUME NEW a \in Pool PROVE \E x \in Pool : k2[x] # "none" /\ x <= a /\ a < e2[x]
  <2>1. PICK x \in Pool : k[x] # "none" /\ x <= a /\ a < e[x]
    BY DEF Layout
  <2>2. CASE x # b
    BY <1>0, <2>1, <2>2, PartOf
  <2>3. CASE x = b /\ a < m  BY <1>0, <2>1, <2>3, PartOf
  <2>4. CASE x = b /\ a >= m  BY <1>0, <2>1, <2>4, PartOf
  <2>5. a < m \/ a >= m  BY <1>0, PartOf, PoolSize DEF Pool
  <2> QED  BY <2>2, <2>3, <2>4, <2>5
<1> QED  BY <1>1, <1>2, <1>3 DEF Layout, LayoutOf

LEMMA MergeTiles ==
    ASSUME NEW k, NEW e, NEW k2, NEW e2, LayoutOf(k, e), Layout(k2, e2),
           NEW b, NEW m, Splits(k, e, k2, e2, b, m)
    PROVE  Layout(k, e)
<1>0. LayoutOf(k2, e2)  BY DEF Layout, LayoutOf
<1>1. ASSUME NEW x \in Pool, k[x] # "none" PROVE x < e[x]
  BY <1>0, <1>1, PartOf, BlockIn, PoolSize DEF Pool
<1>2. ASSUME NEW x \in Pool, NEW y \in Pool, k[x] # "none", k[y] # "none", x < y
      PROVE  e[x] <= y
  <2>1. /\ x # m /\ y # m /\ k2[x] # "none" /\ k2[y] # "none"
        /\ b \in Pool /\ m \in Pool /\ k2[b] # "none" /\ k2[m] # "none"
        /\ e2[b] = m /\ e2[m] = e[b] /\ b < m /\ m < e[b]
        /\ x # b => e2[x] = e[x]
    BY <1>0, <1>2, PartOf
  <2>2. e2[x] <= y \/ e2[y] <= x
    BY <1>2, <2>1, BlocksApart, PoolSize DEF Pool
  <2>3. (y < e2[y] /\ m = y) \/ e2[m] <= y \/ e2[y] <= m  BY <1>2, <2>1, BlocksApart, BlockIn
  <2>4. /\ x \in Int /\ y \in Int /\ b \in Int /\ m \in Int
        /\ e2[y] \in Int /\ e[b] \in Int /\ y < e2[y]
    BY <1>0, <1>2, <2>1, BlockIn, PartOf, PoolSize DEF Pool
  <2>5. CASE x = b  BY <1>2, <2>1, <2>2, <2>3, <2>4, <2>5
  <2>6. CASE x # b  BY <1>2, <2>1, <2>2, <2>4, <2>6
  <2> QED  BY <2>5, <2>6
<1>3. ASSUME NEW a \in Pool PROVE \E x \in Pool : k[x] # "none" /\ x <= a /\ a < e[x]
  <2>1. PICK x \in Pool : k2[x] # "none" /\ x <= a /\ a < e2[x]
    BY DEF Layout
  <2>2. CASE x # b /\ x # m  BY <1>0, <2>1, <2>2, PartOf
  <2>3. CASE x = b \/ x = m
    <3>1. b <= a /\ a < e[b]
      BY <1>0, <2>1, <2>3, PartOf, PoolSize DEF Pool
    <3> QED  BY <1>0, <3>1, PartOf
  <2> QED  BY <2>2, <2>3
<1> QED  BY <1>1, <1>2, <1>3 DEF Layout, LayoutOf

LEMMA RetagTiles ==
    ASSUME NEW k, NEW e, Layout(k, e), NEW b, NEW kd, NEW k2, Retags(k, k2, b, kd)
    PROVE  Layout(k2, e)
  BY DEF Layout, Retags

----------------------------------------------------------------------------
\* Counting the words of a layout.

FreeIn(kd, x, y) == IF kd = "free" THEN y - x - 4 ELSE IF kd = "lost" THEN y - x ELSE 0
UsedIn(kd, x, y) == IF kd = "used" THEN y - x - 2 ELSE 0

\* The words of a block from x to y that count as free, and as used.
FreePart(kd, x, y) == IF kd = "free" THEN (x + 3)..(y - 2)
                      ELSE IF kd = "lost" THEN x..(y - 1) ELSE {}
UsedPart(kd, x, y) == IF kd = "used" THEN (x + 1)..(y - 2) ELSE {}

FreeOf(k, e) == {a \in Pool : \E x \in Pool : a \in FreePart(k[x], x, e[x])}
UsedOf(k, e) == {a \in Pool : \E x \in Pool : a \in UsedPart(k[x], x, e[x])}

\* A block is as long as its tags.
Long(kd, x, y) == (kd = "free" => y - x >= 4) /\ (kd = "used" => y - x >= 3)

AllLong(k, e) == \A x \in Pool : Long(k[x], x, e[x])

\* Two sets that differ in B only.
SameOutside(F, G, B) == F \ B = G \ B

LEMMA IntervalCount ==
    ASSUME NEW a \in Int, NEW b \in Int, a <= b + 1
    PROVE  IsFiniteSet(a..b) /\ Cardinality(a..b) = b - a + 1
<1>1. IsFiniteSet(a..b) /\ Cardinality(a..b) = IF a > b THEN 0 ELSE b - a + 1
  BY FS_Interval, Zenon
<1> QED  BY <1>1

LEMMA PartCount ==
    ASSUME NEW kd \in Kinds, NEW x \in Pool, NEW y \in 1..Words, x < y, Long(kd, x, y)
    PROVE  /\ FreePart(kd, x, y) \subseteq x..(y - 1)
           /\ UsedPart(kd, x, y) \subseteq x..(y - 1)
           /\ IsFiniteSet(FreePart(kd, x, y)) /\ IsFiniteSet(UsedPart(kd, x, y))
           /\ Cardinality(FreePart(kd, x, y)) = FreeIn(kd, x, y)
           /\ Cardinality(UsedPart(kd, x, y)) = UsedIn(kd, x, y)
<1>0. x \in Int /\ y \in Int  BY PoolSize DEF Pool
<1>1. CASE kd = "free"
  <2>1. PICK a \in Int, c \in Int : a = x + 3 /\ c = y - 2  BY <1>0
  <2>2. y - x >= 4  BY <1>1 DEF Long
  <2>3. a <= c + 1 /\ c - a + 1 = y - x - 4 BY <1>0, <2>1, <2>2
  <2>4. IsFiniteSet(a..c) /\ Cardinality(a..c) = y - x - 4
    BY <2>3, IntervalCount
  <2>5. FreePart(kd, x, y) = a..c /\ UsedPart(kd, x, y) = {}
    BY <1>1, <2>1 DEF FreePart, UsedPart
  <2>6. FreeIn(kd, x, y) = y - x - 4 /\ UsedIn(kd, x, y) = 0
    BY <1>1 DEF FreeIn, UsedIn
  <2> QED  BY <1>0, <2>1, <2>4, <2>5, <2>6, FS_EmptySet
<1>2. CASE kd = "lost"
  <2>1. PICK c \in Int : c = y - 1  BY <1>0
  <2>3. x <= c + 1 /\ c - x + 1 = y - x BY <1>0, <2>1
  <2>4. IsFiniteSet(x..c) /\ Cardinality(x..c) = y - x
    BY <1>0, <2>3, IntervalCount
  <2>5. FreePart(kd, x, y) = x..c /\ UsedPart(kd, x, y) = {}
    BY <1>2, <2>1 DEF FreePart, UsedPart
  <2>6. FreeIn(kd, x, y) = y - x /\ UsedIn(kd, x, y) = 0
    BY <1>2 DEF FreeIn, UsedIn
  <2> QED  BY <1>0, <2>1, <2>4, <2>5, <2>6, FS_EmptySet
<1>3. CASE kd = "used"
  <2>1. PICK a \in Int, c \in Int : a = x + 1 /\ c = y - 2  BY <1>0
  <2>2. y - x >= 3  BY <1>3 DEF Long
  <2>3. a <= c + 1 /\ c - a + 1 = y - x - 2 BY <1>0, <2>1, <2>2
  <2>4. IsFiniteSet(a..c) /\ Cardinality(a..c) = y - x - 2
    BY <2>3, IntervalCount
  <2>5. UsedPart(kd, x, y) = a..c /\ FreePart(kd, x, y) = {}
    BY <1>3, <2>1 DEF FreePart, UsedPart
  <2>6. UsedIn(kd, x, y) = y - x - 2 /\ FreeIn(kd, x, y) = 0
    BY <1>3 DEF FreeIn, UsedIn
  <2> QED  BY <1>0, <2>1, <2>4, <2>5, <2>6, FS_EmptySet
<1>4. CASE kd = "none"
  BY <1>4, FS_EmptySet DEF FreePart, UsedPart, FreeIn, UsedIn
<1> QED  BY <1>1, <1>2, <1>3, <1>4 DEF Kinds

\* The words of two disjoint stretches.
LEMMA CountTwo ==
    ASSUME NEW S, NEW T, IsFiniteSet(S), IsFiniteSet(T), S \cap T = {}
    PROVE  IsFiniteSet(S \cup T) /\ Cardinality(S \cup T) = Cardinality(S) + Cardinality(T)
<1>1. IsFiniteSet(S \cup T)
      /\ Cardinality(S \cup T) = Cardinality(S) + Cardinality(T) - Cardinality(S \cap T)
  BY FS_Union
<1>2. Cardinality(S \cap T) = 0  BY FS_EmptySet
<1>3. Cardinality(S) \in Nat /\ Cardinality(T) \in Nat  BY FS_CardinalityType
<1> QED  BY <1>1, <1>2, <1>3

\* Sets that differ in a part only.
LEMMA CountChange ==
    ASSUME NEW F, NEW G, NEW B, IsFiniteSet(F), IsFiniteSet(G), SameOutside(F, G, B)
    PROVE  Cardinality(G) = Cardinality(F) - Cardinality(F \cap B) + Cardinality(G \cap B)
<1>1. /\ IsFiniteSet(F \ B) /\ IsFiniteSet(F \cap B) /\ IsFiniteSet(G \cap B)
  BY FS_Difference, FS_Intersection
<1>2. Cardinality(F \ B) \in Nat /\ Cardinality(F \cap B) \in Nat /\ Cardinality(G \cap B) \in Nat
  BY <1>1, FS_CardinalityType
<1>3. F = (F \ B) \cup (F \cap B) /\ (F \ B) \cap (F \cap B) = {}
      /\ G = (F \ B) \cup (G \cap B) /\ (F \ B) \cap (G \cap B) = {}
  BY DEF SameOutside
<1>4. Cardinality((F \ B) \cup (F \cap B)) = Cardinality(F \ B) + Cardinality(F \cap B)
  BY <1>1, <1>3, CountTwo
<1>5. Cardinality((F \ B) \cup (G \cap B)) = Cardinality(F \ B) + Cardinality(G \cap B)
  BY <1>1, <1>3, CountTwo
<1>6. /\ Cardinality(F) = Cardinality(F \ B) + Cardinality(F \cap B)
      /\ Cardinality(G) = Cardinality(F \ B) + Cardinality(G \cap B)
  BY <1>3, <1>4, <1>5
<1> QED  BY <1>2, <1>6

LEMMA PartsFinite ==
    ASSUME NEW k, NEW e
    PROVE  /\ IsFiniteSet(FreeOf(k, e)) /\ IsFiniteSet(UsedOf(k, e))
           /\ Cardinality(FreeOf(k, e)) \in Nat /\ Cardinality(UsedOf(k, e)) \in Nat
<1>1. IsFiniteSet(Pool)  BY FS_Interval, PoolSize DEF Pool
<1>2. FreeOf(k, e) \in SUBSET Pool /\ UsedOf(k, e) \in SUBSET Pool  BY DEF FreeOf, UsedOf
<1> QED  BY <1>1, <1>2, FS_Subset, FS_CardinalityType

\* The words of a block.
LEMMA OwnWords ==
    ASSUME NEW k, NEW e, Layout(k, e), AllLong(k, e),
           NEW b \in Pool, k[b] # "none"
    PROVE  /\ FreeOf(k, e) \cap (b..(e[b] - 1)) = FreePart(k[b], b, e[b])
           /\ UsedOf(k, e) \cap (b..(e[b] - 1)) = UsedPart(k[b], b, e[b])
<1>1. ASSUME NEW x \in Pool, NEW a \in b..(e[b] - 1),
             a \in FreePart(k[x], x, e[x]) \/ a \in UsedPart(k[x], x, e[x])
      PROVE  x = b
  <2>1. k[x] # "none"  BY <1>1 DEF FreePart, UsedPart
  <2>2. x < e[x]  BY <2>1, BlockIn
  <2>3. a \in x..(e[x] - 1)  BY <1>1, <2>2, PartCount, BlockIn DEF AllLong
  <2> QED  BY <1>1, <2>1, <2>3, BlocksApart, BlockIn, PoolSize DEF Pool
<1>2. /\ FreePart(k[b], b, e[b]) \subseteq b..(e[b] - 1)
      /\ UsedPart(k[b], b, e[b]) \subseteq b..(e[b] - 1)
  BY PartCount, BlockIn DEF AllLong
<1>3. b..(e[b] - 1) \subseteq Pool  BY BlockIn, PoolSize DEF Pool
<1> QED  BY <1>1, <1>2, <1>3 DEF FreeOf, UsedOf

LEMMA OwnCount ==
    ASSUME NEW k, NEW e, Layout(k, e), AllLong(k, e),
           NEW b \in Pool, k[b] # "none", NEW y, y = e[b]
    PROVE  /\ IsFiniteSet(FreeOf(k, e) \cap (b..(y - 1)))
           /\ IsFiniteSet(UsedOf(k, e) \cap (b..(y - 1)))
           /\ Cardinality(FreeOf(k, e) \cap (b..(y - 1))) = FreeIn(k[b], b, y)
           /\ Cardinality(UsedOf(k, e) \cap (b..(y - 1))) = UsedIn(k[b], b, y)
           /\ FreeIn(k[b], b, y) \in Int /\ UsedIn(k[b], b, y) \in Int
<1>1. k[b] \in Kinds /\ y \in 1..Words /\ b < y /\ Long(k[b], b, y)
  BY BlockIn DEF AllLong
<1>2. FreeIn(k[b], b, y) \in Int /\ UsedIn(k[b], b, y) \in Int
  BY <1>1, PoolSize DEF Pool, FreeIn, UsedIn
<1>3. /\ FreeOf(k, e) \cap (b..(y - 1)) = FreePart(k[b], b, y)
      /\ UsedOf(k, e) \cap (b..(y - 1)) = UsedPart(k[b], b, y)
  BY OwnWords
<1> QED  BY <1>1, <1>2, <1>3, PartCount

\* Splitting a block, or joining two, changes the count by its words only.
LEMMA SplitCounts ==
    ASSUME NEW k, NEW e, NEW k2, NEW e2, Layout(k, e), Layout(k2, e2),
           NEW b, NEW m, Splits(k, e, k2, e2, b, m),
           AllLong(k, e), AllLong(k2, e2)
    PROVE  /\ Cardinality(FreeOf(k2, e2)) = Cardinality(FreeOf(k, e)) - FreeIn(k[b], b, e[b])
                 + FreeIn(k2[b], b, m) + FreeIn(k2[m], m, e[b])
           /\ Cardinality(UsedOf(k2, e2)) = Cardinality(UsedOf(k, e)) - UsedIn(k[b], b, e[b])
                 + UsedIn(k2[b], b, m) + UsedIn(k2[m], m, e[b])
<1> DEFINE B == b..(e[b] - 1)
           B1 == b..(m - 1)
           B2 == m..(e[b] - 1)
           F == FreeOf(k, e)
           G == FreeOf(k2, e2)
           U == UsedOf(k, e)
           V == UsedOf(k2, e2)
<1>0. LayoutOf(k, e) /\ LayoutOf(k2, e2)  BY DEF Layout, LayoutOf
<1>1. /\ b \in Pool /\ m \in Pool /\ b < m /\ m < e[b] /\ e[b] \in 1..Words
      /\ k[b] # "none" /\ k[m] = "none" /\ k2[b] # "none" /\ k2[m] # "none"
      /\ e2[b] = m /\ e2[m] = e[b] /\ m \in 1..Words
  BY <1>0, PartOf, PoolSize DEF Pool
<1>2. k[b] \in Kinds /\ k2[b] \in Kinds /\ k2[m] \in Kinds
  BY <1>0, <1>1 DEF LayoutOf
<1>4. B1 \cup B2 = B /\ B1 \cap B2 = {}
  BY <1>1, PoolSize DEF Pool
<1>5. /\ F \cap B = FreePart(k[b], b, e[b]) /\ U \cap B = UsedPart(k[b], b, e[b])
      /\ G \cap B1 = FreePart(k2[b], b, m) /\ V \cap B1 = UsedPart(k2[b], b, m)
      /\ G \cap B2 = FreePart(k2[m], m, e[b]) /\ V \cap B2 = UsedPart(k2[m], m, e[b])
  BY <1>1, OwnWords
<1>6. ASSUME NEW x \in Pool, NEW a \in Pool \ B
      PROVE  /\ a \in FreePart(k[x], x, e[x]) <=> a \in FreePart(k2[x], x, e2[x])
             /\ a \in UsedPart(k[x], x, e[x]) <=> a \in UsedPart(k2[x], x, e2[x])
  <2>1. CASE x = b
    <3>1. /\ FreePart(k[b], b, e[b]) \subseteq B /\ UsedPart(k[b], b, e[b]) \subseteq B
          /\ FreePart(k2[b], b, m) \subseteq B /\ UsedPart(k2[b], b, m) \subseteq B
      BY <1>4, <1>5
    <3> QED  BY <1>1, <2>1, <3>1
  <2>2. CASE x = m
    <3>1. FreePart(k[m], m, e[m]) = {} /\ UsedPart(k[m], m, e[m]) = {}
      BY <1>1 DEF FreePart, UsedPart
    <3>2. FreePart(k2[m], m, e[b]) \subseteq B /\ UsedPart(k2[m], m, e[b]) \subseteq B
      BY <1>4, <1>5
    <3> QED  BY <1>1, <2>2, <3>1, <3>2
  <2>3. CASE x # b /\ x # m
    <3>1. k2[x] = k[x] /\ e2[x] = e[x]  BY <2>3 DEF Splits
    <3> QED  BY <3>1
  <2> QED  BY <2>1, <2>2, <2>3
<1>7. SameOutside(F, G, B) /\ SameOutside(U, V, B)
  BY <1>6 DEF FreeOf, UsedOf, SameOutside
<1>8. /\ IsFiniteSet(F) /\ IsFiniteSet(G) /\ IsFiniteSet(U) /\ IsFiniteSet(V)
      /\ Cardinality(F) \in Nat /\ Cardinality(U) \in Nat
  BY PartsFinite
<1> HIDE DEF F, G, U, V, B
<1>9. /\ Cardinality(G) = Cardinality(F) - Cardinality(F \cap B) + Cardinality(G \cap B)
      /\ Cardinality(V) = Cardinality(U) - Cardinality(U \cap B) + Cardinality(V \cap B)
  BY <1>7, <1>8, CountChange
<1> USE DEF F, G, U, V, B
<1>10. /\ G \cap B = (G \cap B1) \cup (G \cap B2) /\ (G \cap B1) \cap (G \cap B2) = {}
       /\ V \cap B = (V \cap B1) \cup (V \cap B2) /\ (V \cap B1) \cap (V \cap B2) = {}
  BY <1>4
<1>11. /\ Cardinality(F \cap B) = FreeIn(k[b], b, e[b])
       /\ Cardinality(U \cap B) = UsedIn(k[b], b, e[b])
       /\ FreeIn(k[b], b, e[b]) \in Int /\ UsedIn(k[b], b, e[b]) \in Int
  <2>1. PICK y : y = e[b]  OBVIOUS
  <2>2. /\ Cardinality(F \cap (b..(y - 1))) = FreeIn(k[b], b, y)
        /\ Cardinality(U \cap (b..(y - 1))) = UsedIn(k[b], b, y)
        /\ FreeIn(k[b], b, y) \in Int /\ UsedIn(k[b], b, y) \in Int
    BY <1>1, <2>1, OwnCount
  <2> QED  BY <2>1, <2>2
<1>12. /\ IsFiniteSet(G \cap B1) /\ Cardinality(G \cap B1) = FreeIn(k2[b], b, m)
       /\ IsFiniteSet(V \cap B1) /\ Cardinality(V \cap B1) = UsedIn(k2[b], b, m)
       /\ FreeIn(k2[b], b, m) \in Int /\ UsedIn(k2[b], b, m) \in Int
  BY <1>1, OwnCount
<1>13. /\ IsFiniteSet(G \cap B2) /\ Cardinality(G \cap B2) = FreeIn(k2[m], m, e[b])
       /\ IsFiniteSet(V \cap B2) /\ Cardinality(V \cap B2) = UsedIn(k2[m], m, e[b])
       /\ FreeIn(k2[m], m, e[b]) \in Int /\ UsedIn(k2[m], m, e[b]) \in Int
  BY <1>1, OwnCount
<1>14. /\ Cardinality(G \cap B) = FreeIn(k2[b], b, m) + FreeIn(k2[m], m, e[b])
       /\ Cardinality(V \cap B) = UsedIn(k2[b], b, m) + UsedIn(k2[m], m, e[b])
  <2>1. /\ Cardinality((G \cap B1) \cup (G \cap B2)) = Cardinality(G \cap B1) + Cardinality(G \cap B2)
        /\ Cardinality((V \cap B1) \cup (V \cap B2)) = Cardinality(V \cap B1) + Cardinality(V \cap B2)
    BY <1>10, <1>12, <1>13, CountTwo
  <2> QED  BY <1>10, <1>12, <1>13, <2>1
<1> HIDE DEF F, G, U, V, B, B1, B2
<1>16. /\ Cardinality(G) = Cardinality(F) - FreeIn(k[b], b, e[b])
                 + FreeIn(k2[b], b, m) + FreeIn(k2[m], m, e[b])
       /\ Cardinality(V) = Cardinality(U) - UsedIn(k[b], b, e[b])
                 + UsedIn(k2[b], b, m) + UsedIn(k2[m], m, e[b])
  BY <1>8, <1>9, <1>11, <1>12, <1>13, <1>14
<1> QED  BY <1>16 DEF F, G, U, V

LEMMA RetagCounts ==
    ASSUME NEW k, NEW e, Layout(k, e), NEW b, NEW kd, NEW k2, Retags(k, k2, b, kd),
           AllLong(k, e), Long(kd, b, e[b])
    PROVE  /\ Cardinality(FreeOf(k2, e)) = Cardinality(FreeOf(k, e))
                 - FreeIn(k[b], b, e[b]) + FreeIn(kd, b, e[b])
           /\ Cardinality(UsedOf(k2, e)) = Cardinality(UsedOf(k, e))
                 - UsedIn(k[b], b, e[b]) + UsedIn(kd, b, e[b])
<1> DEFINE B == b..(e[b] - 1)
<1>1. /\ b \in Pool /\ k[b] # "none"
      /\ k \in [Pool -> Kinds] /\ e \in [Pool -> 1..Words] /\ b < e[b]
  BY DEF Layout, Retags
<1>2. /\ k2 \in [Pool -> Kinds] /\ k2[b] = kd /\ \A x \in Pool : x # b => k2[x] = k[x]
  BY <1>1 DEF Retags
<1>3. Layout(k2, e)  BY RetagTiles
<1>4. AllLong(k2, e)  BY <1>2 DEF AllLong
<1>5. /\ FreeOf(k, e) \cap B = FreePart(k[b], b, e[b]) /\ UsedOf(k, e) \cap B = UsedPart(k[b], b, e[b])
  BY <1>1, OwnWords
<1>6. /\ FreeOf(k2, e) \cap B = FreePart(kd, b, e[b]) /\ UsedOf(k2, e) \cap B = UsedPart(kd, b, e[b])
  <2>1. FreeOf(k2, e) \cap (b..(e[b] - 1)) = FreePart(k2[b], b, e[b])
        /\ UsedOf(k2, e) \cap (b..(e[b] - 1)) = UsedPart(k2[b], b, e[b])
    <3>1. k2[b] # "none"  BY <1>1, <1>2 DEF Retags
    <3> QED  BY <1>1, <1>3, <1>4, <3>1, OwnWords
  <2> QED  BY <1>2, <2>1
<1>7. SameOutside(FreeOf(k, e), FreeOf(k2, e), B) /\ SameOutside(UsedOf(k, e), UsedOf(k2, e), B)
  <2>1. ASSUME NEW x \in Pool, NEW a \in Pool \ B
        PROVE  /\ a \in FreePart(k[x], x, e[x]) <=> a \in FreePart(k2[x], x, e[x])
               /\ a \in UsedPart(k[x], x, e[x]) <=> a \in UsedPart(k2[x], x, e[x])
    <3>1. CASE x = b  BY <1>2, <1>5, <1>6, <3>1
    <3>2. CASE x # b  BY <1>2, <3>2
    <3> QED  BY <3>1, <3>2
  <2> QED  BY <2>1 DEF FreeOf, UsedOf, SameOutside
<1>8. /\ IsFiniteSet(FreeOf(k, e)) /\ IsFiniteSet(FreeOf(k2, e))
      /\ IsFiniteSet(UsedOf(k, e)) /\ IsFiniteSet(UsedOf(k2, e))
  BY PartsFinite
<1> HIDE DEF B
<1>9. /\ Cardinality(FreeOf(k2, e)) = Cardinality(FreeOf(k, e))
             - Cardinality(FreeOf(k, e) \cap B) + Cardinality(FreeOf(k2, e) \cap B)
      /\ Cardinality(UsedOf(k2, e)) = Cardinality(UsedOf(k, e))
             - Cardinality(UsedOf(k, e) \cap B) + Cardinality(UsedOf(k2, e) \cap B)
  BY <1>7, <1>8, CountChange
<1> USE DEF B
<1>10. PICK y : y = e[b]  OBVIOUS
<1>11. /\ Cardinality(FreeOf(k, e) \cap (b..(y - 1))) = FreeIn(k[b], b, y)
       /\ Cardinality(UsedOf(k, e) \cap (b..(y - 1))) = UsedIn(k[b], b, y)
  BY <1>1, <1>10, OwnCount
<1>12. /\ Cardinality(FreeOf(k2, e) \cap (b..(y - 1))) = FreeIn(kd, b, y)
       /\ Cardinality(UsedOf(k2, e) \cap (b..(y - 1))) = UsedIn(kd, b, y)
  <2>1. k2[b] # "none"  BY <1>1, <1>2 DEF Retags
  <2>2. /\ Cardinality(FreeOf(k2, e) \cap (b..(y - 1))) = FreeIn(k2[b], b, y)
        /\ Cardinality(UsedOf(k2, e) \cap (b..(y - 1))) = UsedIn(k2[b], b, y)
    <3>1. b \in Pool  BY <1>1
    <3> HIDE DEF B
    <3> QED  BY <1>3, <1>4, <1>10, <2>1, <3>1, OwnCount
  <2> QED  BY <1>2, <2>2
<1> QED  BY <1>9, <1>10, <1>11, <1>12

----------------------------------------------------------------------------
\* The tags of a layout.

UsedTag(n) == [size |-> n, inUse |-> TRUE]
FreeTag(n) == [size |-> n, inUse |-> FALSE]

Tagged(tag, kd, x, y) ==
    /\ kd = "used" => /\ tag[x] = UsedTag(y - x - 2) /\ tag[y - 1] = UsedTag(y - x - 2)
                      /\ \A a \in (x + 1)..(y - 2) : tag[a] = Junk
    /\ kd = "free" => tag[x] = FreeTag(y - x - 4) /\ tag[y - 1] = FreeTag(y - x - 4)

TagsTrue(tag, k, e) == \A x \in Pool : Tagged(tag, k[x], x, e[x])

\* The two agree on the words that are not of [b, c).
SameBut(tag, tag2, b, c) == \A a \in Pool : a < b \/ c <= a => tag2[a] = tag[a]

LEMMA TagsOfOthers ==
    ASSUME NEW k, NEW e, Layout(k, e), NEW b \in Pool, k[b] # "none",
           NEW x \in Pool, k[x] # "none", x # b, AllLong(k, e),
           NEW t, NEW t2, SameBut(t, t2, b, e[b]), Tagged(t, k[x], x, e[x])
    PROVE  Tagged(t2, k[x], x, e[x])
<1>1. e[x] <= b \/ e[b] <= x  BY BlocksApart
<1>2. e[x] \in 1..Words /\ x < e[x] /\ e[b] \in 1..Words /\ b < e[b]  BY BlockIn
<1>3. \A a \in x..(e[x] - 1) : a \in Pool /\ t2[a] = t[a]
  BY <1>1, <1>2, PoolSize DEF Pool, SameBut
<1>4. (k[x] = "used" => e[x] - x >= 3)  BY DEF AllLong, Long
<1>5. x \in x..(e[x] - 1) /\ e[x] - 1 \in x..(e[x] - 1)
  BY <1>2, PoolSize DEF Pool
<1>6. \A a \in (x + 1)..(e[x] - 2) : a \in x..(e[x] - 1)
  BY <1>2, PoolSize DEF Pool
<1> QED  BY <1>3, <1>5, <1>6 DEF Tagged

LEMMA SplitTags ==
    ASSUME NEW k, NEW e, NEW k2, NEW e2, Layout(k, e), Layout(k2, e2), AllLong(k, e),
           NEW b, NEW m, Splits(k, e, k2, e2, b, m),
           NEW t, NEW t2, TagsTrue(t, k, e), SameBut(t, t2, b, e[b]),
           Tagged(t2, k2[b], b, m), Tagged(t2, k2[m], m, e[b])
    PROVE  TagsTrue(t2, k2, e2)
<1>0. LayoutOf(k, e) /\ LayoutOf(k2, e2)  BY DEF Layout, LayoutOf
<1> SUFFICES ASSUME NEW x \in Pool PROVE Tagged(t2, k2[x], x, e2[x])
  BY DEF TagsTrue
<1>1. CASE x = b \/ x = m  BY <1>0, <1>1, PartOf
<1>2. CASE x # b /\ x # m
  <2>1. b \in Pool /\ k[b] # "none" /\ k2[x] = k[x] /\ e2[x] = e[x]
    BY <1>2 DEF Splits
  <2>2. CASE k[x] = "none"  BY <2>1, <2>2 DEF Tagged
  <2>3. CASE k[x] # "none"
    <3>1. Tagged(t, k[x], x, e[x])  BY DEF TagsTrue
    <3> QED  BY <1>2, <2>1, <2>3, <3>1, TagsOfOthers
  <2> QED  BY <2>2, <2>3
<1> QED  BY <1>1, <1>2

LEMMA MergeTags ==
    ASSUME NEW k, NEW e, NEW k2, NEW e2, Layout(k, e), Layout(k2, e2), AllLong(k, e),
           NEW b, NEW m, Splits(k, e, k2, e2, b, m),
           NEW t, NEW t2, TagsTrue(t2, k2, e2), SameBut(t2, t, b, e[b]),
           Tagged(t, k[b], b, e[b])
    PROVE  TagsTrue(t, k, e)
<1> SUFFICES ASSUME NEW x \in Pool PROVE Tagged(t, k[x], x, e[x])
  BY DEF TagsTrue
<1>1. CASE x = b  BY <1>1
<1>2. CASE k[x] = "none"  BY <1>2 DEF Tagged
<1>3. CASE x # b /\ k[x] # "none"
  <2>1. b \in Pool /\ k[b] # "none" /\ k2[x] = k[x] /\ e2[x] = e[x]
    BY <1>3 DEF Splits
  <2>2. Tagged(t2, k[x], x, e[x])  BY <2>1 DEF TagsTrue
  <2> QED  BY <1>3, <2>1, <2>2, TagsOfOthers
<1> QED  BY <1>1, <1>2, <1>3

LEMMA RetagTags ==
    ASSUME NEW k, NEW e, Layout(k, e), AllLong(k, e),
           NEW b, NEW kd, NEW k2, Retags(k, k2, b, kd),
           NEW t, NEW t2, TagsTrue(t, k, e), SameBut(t, t2, b, e[b]),
           Tagged(t2, kd, b, e[b])
    PROVE  TagsTrue(t2, k2, e)
<1>0. b \in Pool /\ k[b] # "none" /\ k2[b] = kd /\ \A x \in Pool : x # b => k2[x] = k[x]
  BY DEF Layout, Retags
<1> SUFFICES ASSUME NEW x \in Pool PROVE Tagged(t2, k2[x], x, e[x])
  BY DEF TagsTrue
<1>1. CASE x = b  BY <1>0, <1>1
<1>2. CASE x # b /\ k[x] = "none"  BY <1>0, <1>2 DEF Tagged
<1>3. CASE x # b /\ k[x] # "none"
  <2>1. Tagged(t, k[x], x, e[x])  BY DEF TagsTrue
  <2>2. Tagged(t2, k[x], x, e[x])
    BY <1>0, <1>3, <2>1, TagsOfOthers
  <2> QED  BY <1>0, <1>3, <2>2
<1> QED  BY <1>1, <1>2, <1>3

----------------------------------------------------------------------------
\* What the operators of the heap do to its fields.

HeapRec == [tag : [Pool -> TagSet], list : Seq(Pool),
            freeMem : Int, usedMem : Int, reservedMem : Int]

\* What the second heap keeps of the first.
SameTags(h, g) == \A x \in Pool : g.tag[x] = h.tag[x]
SameCounts(h, g) ==
    /\ g.freeMem = h.freeMem /\ g.usedMem = h.usedMem
    /\ g.reservedMem = h.reservedMem
SameBook(h, g) == g.list = h.list /\ SameCounts(h, g)

\* The second heap has the tag t at a and c, and what the caller writes.
WroteTags(h, g, a, c, t) ==
    \A x \in Pool : g.tag[x] = IF x = a \/ x = c THEN t ELSE h.tag[x]
WroteJunk(h, g, a, n) ==
    \A x \in Pool : g.tag[x] = IF x \in a..(a + n - 1) THEN Junk ELSE h.tag[x]

LEMMA TagFits ==
    ASSUME NEW n \in 0..(Words - 1), NEW u \in BOOLEAN
    PROVE  /\ Tag(n, u) = [size |-> n, inUse |-> u]
           /\ [size |-> n, inUse |-> u] \in TagSet
           /\ Junk \in TagSet
<1>1. n \in 0..(SizeLimit - 1) /\ 0 \in 0..(SizeLimit - 1)  BY PoolSize
<1>2. n % SizeLimit = n  BY <1>1, PoolSize
<1> QED  BY <1>1, <1>2 DEF Tag, Junk, TagSet

LEMMA Written ==
    ASSUME NEW h \in HeapRec, NEW a \in Int, NEW t \in TagSet,
           NEW g, g = Write(h, a, t)
    PROVE  g \in HeapRec /\ SameBook(h, g) /\ WroteTags(h, g, a, a, t)
<1>1. h.tag \in [Pool -> TagSet]  BY DEF HeapRec
<1>2. DOMAIN h.tag = Pool  BY <1>1
<1>3. g = [h EXCEPT !.tag = [x \in Pool |-> IF x = a THEN t ELSE h.tag[x]]]
  BY <1>2 DEF Write
<1>4. [x \in Pool |-> IF x = a THEN t ELSE h.tag[x]] \in [Pool -> TagSet]
  BY <1>1
<1> QED  BY <1>3, <1>4 DEF HeapRec, SameBook, SameCounts, WroteTags

LEMMA WrittenFree ==
    ASSUME NEW h \in HeapRec, NEW b \in Pool, NEW n \in 0..(Words - 1),
           NEW g, g = WriteFree(h, b, n)
    PROVE  g \in HeapRec /\ SameBook(h, g) /\ WroteTags(h, g, b, b + 3 + n, FreeTag(n))
<1>0. FreeTag(n).size = n  BY DEF FreeTag
<1>1. Tag(n, FALSE) = FreeTag(n) /\ FreeTag(n) \in TagSet
  BY TagFits DEF FreeTag
<1>2. PICK f : f = Write(h, b, FreeTag(n))  OBVIOUS
<1>3. g = Write(f, b + 3 + n, FreeTag(n))
  BY <1>0, <1>1, <1>2 DEF WriteFree, FREE_BLOCK_HEADER_SIZE
<1>4. b \in Int /\ b + 3 + n \in Int  BY PoolSize DEF Pool
<1>5. f \in HeapRec /\ SameBook(h, f) /\ WroteTags(h, f, b, b, FreeTag(n))
  BY <1>1, <1>2, <1>4, Written
<1>6. /\ g \in HeapRec /\ SameBook(f, g)
      /\ WroteTags(f, g, b + 3 + n, b + 3 + n, FreeTag(n))
  BY <1>1, <1>3, <1>4, <1>5, Written
<1>7. SameBook(h, g)  BY <1>5, <1>6 DEF SameBook, SameCounts
<1> QED  BY <1>5, <1>6, <1>7 DEF WroteTags

LEMMA WrittenUsed ==
    ASSUME NEW h \in HeapRec, NEW b \in Pool, NEW n \in 0..(Words - 1),
           NEW g, g = WriteUsed(h, b, n)
    PROVE  g \in HeapRec /\ SameBook(h, g) /\ WroteTags(h, g, b, b + 1 + n, UsedTag(n))
<1>1. Tag(n, TRUE) = UsedTag(n) /\ UsedTag(n) \in TagSet
  BY TagFits DEF UsedTag
<1>2. PICK f : f = Write(h, b, UsedTag(n))  OBVIOUS
<1>3. g = Write(f, b + 1 + n, UsedTag(n))
  BY <1>1, <1>2 DEF WriteUsed, USED_BLOCK_HEADER_SIZE
<1>4. b \in Int /\ b + 1 + n \in Int  BY PoolSize DEF Pool
<1>5. f \in HeapRec /\ SameBook(h, f) /\ WroteTags(h, f, b, b, UsedTag(n))
  BY <1>1, <1>2, <1>4, Written
<1>6. /\ g \in HeapRec /\ SameBook(f, g)
      /\ WroteTags(f, g, b + 1 + n, b + 1 + n, UsedTag(n))
  BY <1>1, <1>3, <1>4, <1>5, Written
<1>7. SameBook(h, g)  BY <1>5, <1>6 DEF SameBook, SameCounts
<1> QED  BY <1>5, <1>6, <1>7 DEF WroteTags

LEMMA Scribbled ==
    ASSUME NEW h \in HeapRec, NEW a \in Int, NEW n \in Nat, NEW g, g = Scribble(h, a, n)
    PROVE  g \in HeapRec /\ SameBook(h, g) /\ WroteJunk(h, g, a, n)
<1>1. h.tag \in [Pool -> TagSet]  BY DEF HeapRec
<1>2. DOMAIN h.tag = Pool  BY <1>1
<1>3. g = [h EXCEPT !.tag = [x \in Pool |-> IF x \in a..(a + n - 1) THEN Junk ELSE h.tag[x]]]
  BY <1>2 DEF Scribble
<1>4. Junk \in TagSet  BY PoolSize DEF Junk, TagSet
<1>5. [x \in Pool |-> IF x \in a..(a + n - 1) THEN Junk ELSE h.tag[x]] \in [Pool -> TagSet]
  BY <1>1, <1>4
<1> QED  BY <1>3, <1>5 DEF HeapRec, SameBook, SameCounts, WroteJunk

\* The counters of the second heap are those of the first, moved.
CountedBy(h, g, f, u, r) ==
    /\ g.freeMem = h.freeMem + f /\ g.usedMem = h.usedMem + u
    /\ g.reservedMem = h.reservedMem + r

LEMMA Counted ==
    ASSUME NEW h \in HeapRec, NEW f \in Int, NEW u \in Int, NEW r \in Int,
           NEW g, g = Count(h, f, u, r)
    PROVE  /\ g \in HeapRec /\ SameTags(h, g) /\ g.list = h.list
           /\ CountedBy(h, g, f, u, r)
<1>1. /\ h.tag \in [Pool -> TagSet] /\ h.list \in Seq(Pool)
      /\ h.freeMem \in Int /\ h.usedMem \in Int /\ h.reservedMem \in Int
      /\ h = [tag |-> h.tag, list |-> h.list, freeMem |-> h.freeMem,
               usedMem |-> h.usedMem, reservedMem |-> h.reservedMem]
  BY DEF HeapRec
<1>2. g = [tag |-> h.tag, list |-> h.list, freeMem |-> h.freeMem + f,
           usedMem |-> h.usedMem + u, reservedMem |-> h.reservedMem + r]
  BY <1>1 DEF Count
<1>3. h.freeMem + f \in Int /\ h.usedMem + u \in Int /\ h.reservedMem + r \in Int
  BY <1>1
<1>4. g \in HeapRec  BY <1>1, <1>2, <1>3 DEF HeapRec
<1> QED  BY <1>2, <1>4 DEF SameTags, CountedBy

----------------------------------------------------------------------------
\* The free list.

\* The list has the blocks of F, each once.
ListOf(s, F) ==
    /\ s \in Seq(Pool)
    /\ \A i \in 1..Len(s) : s[i] \in F
    /\ \A x \in F : \E i \in 1..Len(s) : s[i] = x
    /\ \A i, j \in 1..Len(s) : s[i] = s[j] => i = j

LEMMA ListSet ==
    ASSUME NEW s, NEW F, ListOf(s, F)
    PROVE  ToSet(s) = F /\ Len(s) \in Nat /\ DOMAIN s = 1..Len(s)
<1>1. Len(s) \in Nat /\ DOMAIN s = 1..Len(s)  BY LenProperties DEF ListOf
<1> QED  BY <1>1 DEF ListOf, ToSet

LEMMA Pushed ==
    ASSUME NEW s, NEW F, ListOf(s, F), NEW b \in Pool, b \notin F
    PROVE  ListOf(<<b>> \o s, F \cup {b})
<1>1. s \in Seq(Pool) /\ <<b>> \in Seq(Pool) /\ Len(<<b>>) = 1 /\ <<b>>[1] = b /\ Len(s) \in Nat
  BY LenProperties DEF ListOf
<1> DEFINE t == <<b>> \o s
<1>2. /\ t \in Seq(Pool) /\ Len(t) = 1 + Len(s)
      /\ \A i \in 1..(1 + Len(s)) : t[i] = IF i <= 1 THEN <<b>>[i] ELSE s[i - 1]
  BY <1>1, ConcatProperties
<1> HIDE DEF t
<1>3. t[1] = b  BY <1>1, <1>2
<1>4. \A i \in 1..Len(s) : i + 1 \in 1..Len(t) /\ t[i + 1] = s[i]
  BY <1>1, <1>2
<1>5. \A i \in 1..Len(t) : i # 1 => i - 1 \in 1..Len(s) /\ t[i] = s[i - 1]
  BY <1>1, <1>2
<1>6. \A i \in 1..Len(t) : t[i] \in F \cup {b}
  BY <1>3, <1>5 DEF ListOf
<1>7. \A x \in F \cup {b} : \E i \in 1..Len(t) : t[i] = x
  <2>1. 1 \in 1..Len(t)  BY <1>1, <1>2
  <2> QED  BY <1>3, <1>4, <2>1 DEF ListOf
<1>8. ASSUME NEW i \in 1..Len(t), NEW j \in 1..Len(t), t[i] = t[j] PROVE i = j
  <2>1. CASE i = 1 /\ j = 1  BY <2>1
  <2>2. CASE i = 1 /\ j # 1  BY <1>3, <1>5, <1>8, <2>2 DEF ListOf
  <2>3. CASE i # 1 /\ j = 1  BY <1>3, <1>5, <1>8, <2>3 DEF ListOf
  <2>4. CASE i # 1 /\ j # 1
    <3>1. i - 1 = j - 1  BY <1>5, <1>8, <2>4 DEF ListOf
    <3> QED  BY <3>1
  <2> QED  BY <2>1, <2>2, <2>3, <2>4
<1> QED  BY <1>2, <1>6, <1>7, <1>8 DEF ListOf, t

LEMMA Removed ==
    ASSUME NEW s, NEW F, ListOf(s, F), NEW m \in 1..Len(s)
    PROVE  ListOf(RemoveAt(s, m), F \ {s[m]})
<1>1. s \in Seq(Pool) /\ Len(s) \in Nat /\ s \in [1..Len(s) -> Pool]
  BY LenProperties DEF ListOf
<1> DEFINE u == SubSeq(s, 1, m - 1)
           v == SubSeq(s, m + 1, Len(s))
           t == u \o v
           L == Len(s)
<1>2. /\ u \in Seq(Pool) /\ Len(u) = m - 1 /\ \A i \in 1..(m - 1) : u[i] = s[i]
  <2>1. \A i \in 1..(m - 1) : s[i] \in Pool  BY <1>1
  <2>2. /\ u \in Seq(Pool) /\ Len(u) = IF 1 <= m - 1 THEN m - 1 - 1 + 1 ELSE 0
        /\ \A i \in 1..(m - 1 - 1 + 1) : u[i] = s[1 + i - 1]
    BY <1>1, <2>1, SubSeqProperties
  <2> HIDE DEF u
  <2> QED  BY <1>1, <2>2
<1>3. /\ v \in Seq(Pool) /\ Len(v) = L - m /\ \A i \in 1..(L - m) : v[i] = s[m + i]
  <2>1. \A i \in (m + 1)..L : s[i] \in Pool  BY <1>1
  <2>2. /\ v \in Seq(Pool) /\ Len(v) = IF m + 1 <= L THEN L - (m + 1) + 1 ELSE 0
        /\ \A i \in 1..(L - (m + 1) + 1) : v[i] = s[m + 1 + i - 1]
    <3>1. m + 1 \in Int /\ L \in Int  BY <1>1
    <3> QED  BY <3>1, <2>1, SubSeqProperties
  <2> HIDE DEF v
  <2>3. m \in Int /\ L \in Int /\ m <= L  BY <1>1
  <2>4. Len(v) = L - m  BY <2>2, <2>3
  <2>5. ASSUME NEW i \in 1..(L - m) PROVE v[i] = s[m + i]
    <3>1. i \in 1..(L - (m + 1) + 1) /\ m + 1 + i - 1 = m + i  BY <2>3
    <3>2. v[i] = s[m + 1 + i - 1]  BY <2>2, <3>1
    <3> QED  BY <3>1, <3>2
  <2> QED  BY <2>2, <2>4, <2>5
<1> HIDE DEF u, v
<1>4. /\ t \in Seq(Pool) /\ Len(t) = Len(u) + Len(v)
      /\ \A i \in 1..(Len(u) + Len(v)) : t[i] = IF i <= Len(u) THEN u[i] ELSE v[i - Len(u)]
  BY <1>2, <1>3, ConcatProperties
<1> HIDE DEF t
<1>5. /\ Len(t) = L - 1 /\ \A i \in 1..(L - 1) : t[i] = IF i < m THEN s[i] ELSE s[i + 1]
  <2>1. Len(t) = L - 1  BY <1>1, <1>2, <1>3, <1>4
  <2>2. ASSUME NEW i \in 1..(L - 1) PROVE t[i] = IF i < m THEN s[i] ELSE s[i + 1]
    <3>1. CASE i < m
      <4>1. i \in 1..(m - 1) /\ i \in 1..(Len(u) + Len(v)) /\ i <= Len(u)
        BY <1>1, <1>2, <1>3, <3>1
      <4>2. t[i] = u[i] /\ u[i] = s[i]  BY <1>2, <1>4, <4>1
      <4> QED  BY <3>1, <4>2
    <3>2. CASE i >= m
      <4>1. t[i] = v[i - (m - 1)] /\ i - (m - 1) \in 1..(L - m)
        <5>1. Len(u) = m - 1 /\ Len(v) = L - m /\ m \in Int /\ L \in Int
          BY <1>1, <1>2, <1>3
        <5>2. i \in 1..(Len(u) + Len(v)) /\ ~(i <= Len(u)) /\ i - (m - 1) \in 1..(L - m)
          BY <3>2, <5>1
        <5> QED  BY <1>4, <5>1, <5>2
      <4>2. m + (i - (m - 1)) = i + 1  BY <1>1
      <4>3. v[i - (m - 1)] = s[i + 1]  BY <1>3, <4>1, <4>2
      <4>4. ~(i < m)  BY <1>1, <3>2
      <4> QED  BY <4>1, <4>3, <4>4
    <3> QED  BY <1>1, <3>1, <3>2
  <2> QED  BY <2>1, <2>2
<1>6. \A i \in 1..Len(t) : t[i] \in F \ {s[m]}
  <2> SUFFICES ASSUME NEW i \in 1..Len(t) PROVE t[i] \in F \ {s[m]}
    OBVIOUS
  <2>1. CASE i < m
    <3>1. i \in 1..L /\ i # m /\ t[i] = s[i]  BY <1>1, <1>5, <2>1
    <3> QED  BY <3>1 DEF ListOf
  <2>2. CASE i >= m
    <3>1. i + 1 \in 1..L /\ i + 1 # m /\ t[i] = s[i + 1]  BY <1>1, <1>5, <2>2
    <3> QED  BY <3>1 DEF ListOf
  <2> QED  BY <1>1, <1>5, <2>1, <2>2
<1>7. ASSUME NEW x \in F \ {s[m]} PROVE \E i \in 1..Len(t) : t[i] = x
  <2>1. PICK i \in 1..L : s[i] = x  BY DEF ListOf
  <2>2. CASE i < m
    <3>1. i \in 1..Len(t) /\ t[i] = x  BY <1>1, <1>5, <2>1, <2>2
    <3> QED  BY <3>1
  <2>3. CASE i > m
    <3>1. i - 1 \in 1..(L - 1) /\ ~(i - 1 < m) /\ (i - 1) + 1 = i  BY <1>1, <2>3
    <3>2. i - 1 \in 1..Len(t) /\ t[i - 1] = s[i]  BY <1>1, <1>5, <3>1
    <3> QED  BY <3>2, <2>1
  <2> QED  BY <1>1, <2>1, <2>2, <2>3
<1>8. ASSUME NEW i \in 1..Len(t), NEW j \in 1..Len(t), t[i] = t[j] PROVE i = j
  <2>1. PICK p \in 1..L : t[i] = s[p] /\ p = IF i < m THEN i ELSE i + 1
    <3>1. CASE i < m  BY <1>1, <1>5, <3>1
    <3>2. CASE i >= m  BY <1>1, <1>5, <3>2
    <3> QED  BY <1>1, <1>5, <3>1, <3>2
  <2>2. PICK q \in 1..L : t[j] = s[q] /\ q = IF j < m THEN j ELSE j + 1
    <3>1. CASE j < m  BY <1>1, <1>5, <3>1
    <3>2. CASE j >= m  BY <1>1, <1>5, <3>2
    <3> QED  BY <1>1, <1>5, <3>1, <3>2
  <2>3. p = q  BY <1>8, <2>1, <2>2 DEF ListOf
  <2> QED  BY <1>1, <1>5, <2>1, <2>2, <2>3
<1> QED  BY <1>4, <1>6, <1>7, <1>8 DEF ListOf, RemoveAt, t, u, v

LEMMA Unlinked ==
    ASSUME NEW h \in HeapRec, NEW F, ListOf(h.list, F), NEW b \in F,
           NEW g, g = Unlink(h, b)
    PROVE  /\ g \in HeapRec /\ SameTags(h, g) /\ SameCounts(h, g)
           /\ ListOf(g.list, F \ {b})
<1> DEFINE m == CHOOSE i \in DOMAIN h.list : h.list[i] = b
<1>1. b \in ToSet(h.list) /\ DOMAIN h.list = 1..Len(h.list)  BY ListSet
<1>2. m \in 1..Len(h.list) /\ h.list[m] = b
  <2>1. \E i \in DOMAIN h.list : h.list[i] = b  BY <1>1 DEF ListOf
  <2> QED  BY <1>1, <2>1
<1> HIDE DEF m
<1>3. g = [h EXCEPT !.list = RemoveAt(h.list, m)]
  BY <1>1 DEF Unlink, m
<1>4. ListOf(RemoveAt(h.list, m), F \ {b})  BY <1>2, Removed
<1>5. RemoveAt(h.list, m) \in Seq(Pool)  BY <1>4 DEF ListOf
<1> QED  BY <1>3, <1>4, <1>5 DEF HeapRec, SameTags, SameCounts

LEMMA PushedFront ==
    ASSUME NEW h \in HeapRec, NEW F, ListOf(h.list, F), NEW b \in Pool, b \notin F,
           NEW g, g = PushFront(h, b)
    PROVE  /\ g \in HeapRec /\ SameTags(h, g) /\ SameCounts(h, g)
           /\ ListOf(g.list, F \cup {b})
<1>1. ListOf(<<b>> \o h.list, F \cup {b})  BY Pushed
<1>2. <<b>> \o h.list \in Seq(Pool)  BY <1>1 DEF ListOf
<1>3. g = [h EXCEPT !.list = <<b>> \o h.list]  BY DEF PushFront
<1> QED  BY <1>1, <1>2, <1>3 DEF HeapRec, SameTags, SameCounts

----------------------------------------------------------------------------
\* The invariant: the state is what a layout says.

FreeStarts(k) == {x \in Pool : k[x] = "free"}
HeldOf(k, e) == [p \in {q \in 1..Words : k[q - 1] = "used"} |-> e[p - 1] - p - 1]
LostOf(k, e) == {<<x, e[x]>> : x \in {y \in Pool : k[y] = "lost"}}

\* The three counters of a layout.
CountsTrue(h, k, e) ==
    /\ h.freeMem = Cardinality(FreeOf(k, e))
    /\ h.usedMem = Cardinality(UsedOf(k, e))
    /\ h.freeMem + h.usedMem + h.reservedMem = Words

Described(h, lv, ls, k, e) ==
    /\ Layout(k, e) /\ AllLong(k, e)
    /\ h \in HeapRec
    /\ TagsTrue(h.tag, k, e)
    /\ ListOf(h.list, FreeStarts(k))
    /\ CountsTrue(h, k, e)
    /\ lv = HeldOf(k, e)
    /\ ls = LostOf(k, e)

\* Behind a free block, but b, starts another only at a place of S.
SeamedBut(k, e, S, b) ==
    \A x \in Pool : k[x] = "free" /\ e[x] \in Pool /\ x # b
                       => k[e[x]] # "free" \/ e[x] \in S
Seamed(k, e, S) ==
    \A x \in Pool : k[x] = "free" /\ e[x] \in Pool => k[e[x]] # "free" \/ e[x] \in S

\* No words a cut lost are behind block b, and behind any used one.
Clear(k, e, b) == e[b] \in Pool => k[e[b]] # "lost"
Guarded(k, e) == \A x \in Pool : k[x] = "used" => Clear(k, e, x)

\* A heap as some layout describes it.
Sound(h, lv, ls, S) ==
    \E k \in [Pool -> Kinds], e \in [Pool -> 1..Words] :
        Described(h, lv, ls, k, e) /\ Seamed(k, e, S) /\ Guarded(k, e)

IInv == Sound(heap, live, lost, seams)

LEMMA HeldAt ==
    ASSUME NEW k, NEW e, Layout(k, e)
    PROVE  /\ DOMAIN HeldOf(k, e) = {q \in 1..Words : k[q - 1] = "used"}
           /\ \A p \in DOMAIN HeldOf(k, e) :
                 /\ p - 1 \in Pool /\ k[p - 1] = "used"
                 /\ HeldOf(k, e)[p] = e[p - 1] - p - 1
           /\ \A x \in Pool : k[x] = "used" =>
                 x + 1 \in DOMAIN HeldOf(k, e) /\ HeldOf(k, e)[x + 1] = e[x] - x - 2
<1> DEFINE D == {q \in 1..Words : k[q - 1] = "used"}
<1>1. DOMAIN HeldOf(k, e) = D /\ \A p \in D : HeldOf(k, e)[p] = e[p - 1] - p - 1
  BY DEF HeldOf
<1>2. \A p \in D : p - 1 \in Pool /\ k[p - 1] = "used"
  BY PoolSize DEF Pool
<1>3. ASSUME NEW x \in Pool, k[x] = "used"
      PROVE  x + 1 \in D /\ HeldOf(k, e)[x + 1] = e[x] - x - 2
  <2>1. x + 1 \in 1..Words /\ (x + 1) - 1 = x  BY PoolSize DEF Pool
  <2>2. x + 1 \in D  BY <1>3, <2>1
  <2>3. HeldOf(k, e)[x + 1] = e[x] - (x + 1) - 1  BY <1>1, <2>1, <2>2
  <2>4. e[x] \in Int /\ x \in Int  BY BlockIn, PoolSize DEF Pool
  <2> QED  BY <2>2, <2>3, <2>4
<1> QED  BY <1>1, <1>2, <1>3

\* The used blocks of two layouts, but for one at b.
SameUsedBut(k, e, k2, e2, b) ==
    \A x \in Pool : x # b => (k[x] = "used" <=> k2[x] = "used")
                             /\ (k[x] = "used" => e2[x] = e[x])

\* The blocks callers hold, with one more and with one less.
With(lv, p, n) == [q \in DOMAIN lv \cup {p} |-> IF q = p THEN n ELSE lv[q]]
Without(lv, p) == [q \in DOMAIN lv \ {p} |-> lv[q]]

LEMMA HeldRemoved ==
    ASSUME NEW k, NEW e, NEW k2, NEW e2, NEW b \in Pool,
           SameUsedBut(k, e, k2, e2, b), k2[b] # "used"
    PROVE  HeldOf(k2, e2) = Without(HeldOf(k, e), b + 1)
<1>1. ASSUME NEW q \in 1..Words
      PROVE  /\ k2[q - 1] = "used" <=> k[q - 1] = "used" /\ q # b + 1
             /\ k2[q - 1] = "used" => e2[q - 1] = e[q - 1]
  <2>1. q - 1 \in Pool /\ (q - 1 = b <=> q = b + 1)  BY PoolSize DEF Pool
  <2>2. CASE q - 1 = b  BY <2>1, <2>2
  <2>3. CASE q - 1 # b  BY <2>1, <2>3 DEF SameUsedBut
  <2> QED  BY <2>2, <2>3
<1> QED  BY <1>1 DEF HeldOf, Without

LEMMA HeldAdded ==
    ASSUME NEW k, NEW e, NEW k2, NEW e2, NEW b \in Pool, Layout(k2, e2),
           SameUsedBut(k, e, k2, e2, b), k2[b] = "used", NEW n, n = e2[b] - b - 2
    PROVE  HeldOf(k2, e2) = With(HeldOf(k, e), b + 1, n)
<1>1. ASSUME NEW q \in 1..Words
      PROVE  /\ k2[q - 1] = "used" <=> (k[q - 1] = "used" \/ q = b + 1)
             /\ k2[q - 1] = "used" /\ q # b + 1 => e2[q - 1] = e[q - 1] /\ k[q - 1] = "used"
             /\ q = b + 1 => e2[q - 1] - q - 1 = n
  <2>1. q - 1 \in Pool /\ (q - 1 = b <=> q = b + 1) /\ e2[b] \in Int /\ b \in Int
    BY PoolSize, BlockIn DEF Pool
  <2>2. CASE q - 1 = b  BY <2>1, <2>2
  <2>3. CASE q - 1 # b  BY <2>1, <2>3 DEF SameUsedBut
  <2> QED  BY <2>2, <2>3
<1>2. b + 1 \in 1..Words  BY PoolSize DEF Pool
<1> QED  BY <1>1, <1>2 DEF HeldOf, With

LEMMA HeldSame ==
    ASSUME NEW k, NEW e, NEW k2, NEW e2, NEW b \in Pool,
           SameUsedBut(k, e, k2, e2, b), k2[b] # "used", k[b] # "used"
    PROVE  HeldOf(k2, e2) = HeldOf(k, e)
<1>1. ASSUME NEW q \in 1..Words
      PROVE  /\ k2[q - 1] = "used" <=> k[q - 1] = "used"
             /\ k2[q - 1] = "used" => e2[q - 1] = e[q - 1]
  <2>1. q - 1 \in Pool  BY PoolSize DEF Pool
  <2>2. CASE q - 1 = b  BY <2>1, <2>2
  <2>3. CASE q - 1 # b  BY <2>1, <2>3 DEF SameUsedBut
  <2> QED  BY <2>2, <2>3
<1> QED  BY <1>1 DEF HeldOf

\* What the tags say of a block.
LEMMA FreeBlockAt ==
    ASSUME NEW h, NEW lv, NEW ls, NEW k, NEW e, Described(h, lv, ls, k, e),
           NEW b \in Pool, k[b] = "free"
    PROVE  /\ e[b] - b - 4 \in 0..(Words - 1)
           /\ e[b] - 1 \in Pool /\ e[b] \in 1..Words
           /\ TagAt(h, b) = FreeTag(e[b] - b - 4) /\ TagAt(h, e[b] - 1) = FreeTag(e[b] - b - 4)
           /\ SizeAt(h, b) = e[b] - b - 4
           /\ FreeEnd(h, b) = e[b]
<1>1. e[b] \in 1..Words /\ b < e[b] /\ b \in Int
  BY BlockIn, PoolSize DEF Described, Pool
<1>2. e[b] - b >= 4  BY DEF Described, AllLong, Long
<1>3. e[b] - b - 4 \in 0..(Words - 1) /\ e[b] - 1 \in Pool
  BY <1>1, <1>2, PoolSize DEF Pool
<1>4. h.tag[b] = FreeTag(e[b] - b - 4) /\ h.tag[e[b] - 1] = FreeTag(e[b] - b - 4)
  BY DEF Described, TagsTrue, Tagged
<1>5. DOMAIN h.tag = Pool  BY DEF Described, HeapRec
<1>6. TagAt(h, b) = FreeTag(e[b] - b - 4) /\ TagAt(h, e[b] - 1) = FreeTag(e[b] - b - 4)
  BY <1>3, <1>4, <1>5 DEF TagAt
<1>7. SizeAt(h, b) = e[b] - b - 4
  BY <1>6 DEF SizeAt, FreeTag
<1>8. FreeEnd(h, b) = e[b]
  BY <1>1, <1>7 DEF FreeEnd, FREE_BLOCK_HEADER_SIZE, FOOTER_SIZE
<1> QED  BY <1>1, <1>3, <1>6, <1>7, <1>8

LEMMA UsedBlockAt ==
    ASSUME NEW h, NEW lv, NEW ls, NEW k, NEW e, Described(h, lv, ls, k, e),
           NEW b \in Pool, k[b] = "used"
    PROVE  /\ e[b] - b - 2 \in 1..(Words - 1)
           /\ e[b] - 1 \in Pool /\ e[b] \in 1..Words
           /\ TagAt(h, b) = UsedTag(e[b] - b - 2) /\ TagAt(h, e[b] - 1) = UsedTag(e[b] - b - 2)
           /\ SizeAt(h, b) = e[b] - b - 2
<1>1. e[b] \in 1..Words /\ b < e[b] /\ b \in Int
  BY BlockIn, PoolSize DEF Described, Pool
<1>2. e[b] - b >= 3  BY DEF Described, AllLong, Long
<1>3. e[b] - b - 2 \in 1..(Words - 1) /\ e[b] - 1 \in Pool
  BY <1>1, <1>2, PoolSize DEF Pool
<1>4. h.tag[b] = UsedTag(e[b] - b - 2) /\ h.tag[e[b] - 1] = UsedTag(e[b] - b - 2)
  BY DEF Described, TagsTrue, Tagged
<1>5. DOMAIN h.tag = Pool  BY DEF Described, HeapRec
<1>6. TagAt(h, b) = UsedTag(e[b] - b - 2) /\ TagAt(h, e[b] - 1) = UsedTag(e[b] - b - 2)
  BY <1>3, <1>4, <1>5 DEF TagAt
<1>7. SizeAt(h, b) = e[b] - b - 2
  BY <1>6 DEF SizeAt, UsedTag
<1> QED  BY <1>1, <1>3, <1>6, <1>7

BlockKinds == {"used", "free", "lost"}

\* The second layout has blocks of kinds kd and kd2 where the first has block b.
SplitAs(k, e, k2, e2, b, m, kd, kd2) ==
    /\ Layout(k2, e2) /\ Splits(k, e, k2, e2, b, m)
    /\ k2[b] = kd /\ k2[m] = kd2
\* The first layout has a block of kind kd where the second has two.
MergedAs(k, e, k2, e2, b, m, kd) ==
    Layout(k, e) /\ Splits(k, e, k2, e2, b, m) /\ k[b] = kd

LEMMA SplitExists ==
    ASSUME NEW k, NEW e, Layout(k, e), NEW b \in Pool, k[b] # "none",
           NEW m \in Int, b < m, m < e[b],
           NEW kd \in BlockKinds, NEW kd2 \in BlockKinds
    PROVE  \E k2 \in [Pool -> Kinds], e2 \in [Pool -> 1..Words] :
              SplitAs(k, e, k2, e2, b, m, kd, kd2)
<1>1. m \in Pool /\ m \in 1..Words /\ e[b] \in 1..Words /\ b # m
  BY BlockIn, PoolSize DEF Pool
<1>2. k[m] = "none"  BY <1>1, InsideNone
<1>3. LayoutOf(k, e)  BY DEF Layout, LayoutOf
<1> DEFINE k2 == [k EXCEPT ![b] = kd, ![m] = kd2]
           e2 == [e EXCEPT ![b] = m, ![m] = e[b]]
<1>4. /\ k2 \in [Pool -> Kinds] /\ k2[b] = kd /\ k2[m] = kd2
      /\ k2[b] # "none" /\ k2[m] # "none"
      /\ \A x \in Pool : x # b /\ x # m => k2[x] = k[x]
  BY <1>1, <1>3 DEF LayoutOf, BlockKinds, Kinds
<1>5. /\ e2 \in [Pool -> 1..Words] /\ e2[b] = m /\ e2[m] = e[b]
      /\ \A x \in Pool : x # b /\ x # m => e2[x] = e[x]
  BY <1>1, <1>3 DEF LayoutOf
<1> HIDE DEF k2, e2
<1>6. Splits(k, e, k2, e2, b, m)  BY <1>1, <1>2, <1>4, <1>5 DEF Splits
<1>7. LayoutOf(k2, e2)  BY <1>4, <1>5 DEF LayoutOf
<1>8. Layout(k2, e2)  BY <1>6, <1>7, SplitTiles
<1> QED  BY <1>4, <1>5, <1>6, <1>8 DEF SplitAs

LEMMA MergeExists ==
    ASSUME NEW k2, NEW e2, Layout(k2, e2), NEW b \in Pool, k2[b] # "none",
           NEW m \in Pool, e2[b] = m, NEW kd \in BlockKinds
    PROVE  \E k \in [Pool -> Kinds], e \in [Pool -> 1..Words] :
              MergedAs(k, e, k2, e2, b, m, kd)
<1>0. e2[b] # Words  BY PoolSize DEF Pool
<1>1. /\ k2[m] # "none" /\ b < m /\ m < e2[m] /\ e2[m] \in 1..Words
  BY <1>0, NextBlock, BlockIn
<1>2. b # m  BY <1>1, PoolSize DEF Pool
<1>3. LayoutOf(k2, e2)  BY DEF Layout, LayoutOf
<1> DEFINE k == [k2 EXCEPT ![b] = kd, ![m] = "none"]
           e == [e2 EXCEPT ![b] = e2[m]]
<1>4. /\ k \in [Pool -> Kinds] /\ k[b] = kd /\ k[m] = "none" /\ k[b] # "none"
      /\ \A x \in Pool : x # b /\ x # m => k2[x] = k[x]
  BY <1>1, <1>2, <1>3 DEF LayoutOf, BlockKinds, Kinds
<1>5. /\ e \in [Pool -> 1..Words] /\ e[b] = e2[m]
      /\ \A x \in Pool : x # b /\ x # m => e2[x] = e[x]
  BY <1>1, <1>3 DEF LayoutOf
<1> HIDE DEF k, e
<1>6. Splits(k, e, k2, e2, b, m)  BY <1>1, <1>4, <1>5 DEF Splits
<1>7. LayoutOf(k, e)  BY <1>4, <1>5 DEF LayoutOf
<1>8. Layout(k, e)  BY <1>6, <1>7, MergeTiles
<1> QED  BY <1>4, <1>5, <1>6, <1>8 DEF MergedAs

----------------------------------------------------------------------------
\* malloc.

WroteSplit(h, g, b, n, total) ==
    \A x \in Pool : g.tag[x] =
        IF x = b + n + 2 \/ x = b + total + 3 THEN FreeTag(total - n - 2)
        ELSE IF x = b \/ x = b + 1 + n THEN UsedTag(n)
        ELSE h.tag[x]

LEMMA SplitBlockFields ==
    ASSUME NEW h \in HeapRec, NEW F, ListOf(h.list, F), NEW b \in F, b \in Pool,
           NEW n \in Nat, NEW total \in 0..(Words - 1), SizeAt(h, b) = total,
           n + 3 <= total, b + n + 2 \in Pool, b + n + 2 \notin F,
           NEW g, g = SplitBlock(h, b, n)
    PROVE  /\ g \in HeapRec
           /\ WroteSplit(h, g, b, n, total)
           /\ ListOf(g.list, (F \ {b}) \cup {b + n + 2})
           /\ CountedBy(h, g, -(n + 2), n, 2)
<1>0. b \in Int /\ total \in Int  BY PoolSize DEF Pool
<1>1. PICK rest, r : rest = b + n + 2 /\ r = total - n - 2  OBVIOUS
<1>2. rest \in Pool /\ r \in 0..(Words - 1) /\ n \in 0..(Words - 1) /\ rest + 3 + r = b + total + 3
      /\ rest \notin F
  BY <1>0, <1>1, PoolSize
<1>3. b + USED_BLOCK_HEADER_SIZE + n + FOOTER_SIZE = rest
      /\ total - (n + USED_BLOCK_HEADER_SIZE + FOOTER_SIZE) = r
      /\ -(n + USED_BLOCK_HEADER_SIZE + FOOTER_SIZE) = -(n + 2)
      /\ USED_BLOCK_HEADER_SIZE + FOOTER_SIZE = 2
  BY <1>0, <1>1 DEF USED_BLOCK_HEADER_SIZE, FOOTER_SIZE
<1>4. PICK h1 : h1 = Unlink(h, b)  OBVIOUS
<1>5. PICK h2 : h2 = WriteUsed(h1, b, n)  OBVIOUS
<1>6. PICK h3 : h3 = WriteFree(h2, rest, r)  OBVIOUS
<1>7. PICK h4 : h4 = PushFront(h3, rest)  OBVIOUS
<1>8. g = Count(h4, -(n + 2), n, 2)
  BY <1>3, <1>4, <1>5, <1>6, <1>7 DEF SplitBlock
<1>9. h1 \in HeapRec /\ SameTags(h, h1) /\ SameCounts(h, h1) /\ ListOf(h1.list, F \ {b})
  BY <1>4, Unlinked
<1>10. h2 \in HeapRec /\ SameBook(h1, h2) /\ WroteTags(h1, h2, b, b + 1 + n, UsedTag(n))
  BY <1>2, <1>5, <1>9, WrittenUsed
<1>11. h3 \in HeapRec /\ SameBook(h2, h3) /\ WroteTags(h2, h3, rest, rest + 3 + r, FreeTag(r))
  BY <1>2, <1>6, <1>10, WrittenFree
<1>12. ListOf(h3.list, F \ {b})  BY <1>9, <1>10, <1>11 DEF SameBook
<1>13. rest \notin F \ {b}  BY <1>2
<1>14. /\ h4 \in HeapRec /\ SameTags(h3, h4) /\ SameCounts(h3, h4)
       /\ ListOf(h4.list, (F \ {b}) \cup {rest})
  BY <1>2, <1>7, <1>11, <1>12, <1>13, PushedFront
<1>15. g \in HeapRec /\ SameTags(h4, g) /\ g.list = h4.list /\ CountedBy(h4, g, -(n + 2), n, 2)
  BY <1>8, <1>14, Counted
<1>16. CountedBy(h, g, -(n + 2), n, 2)
  BY <1>9, <1>10, <1>11, <1>14, <1>15 DEF SameBook, SameCounts, CountedBy
<1>17. ASSUME NEW x \in Pool
       PROVE  g.tag[x] = IF x = b + n + 2 \/ x = b + total + 3 THEN FreeTag(total - n - 2)
                         ELSE IF x = b \/ x = b + 1 + n THEN UsedTag(n) ELSE h.tag[x]
  <2>1. g.tag[x] = h3.tag[x]  BY <1>14, <1>15 DEF SameTags
  <2>2. h1.tag[x] = h.tag[x]  BY <1>9 DEF SameTags
  <2>3. h2.tag[x] = IF x = b \/ x = b + 1 + n THEN UsedTag(n) ELSE h1.tag[x]
    BY <1>10 DEF WroteTags
  <2>4. h3.tag[x] = IF x = rest \/ x = rest + 3 + r THEN FreeTag(r) ELSE h2.tag[x]
    BY <1>11 DEF WroteTags
  <2> QED  BY <2>1, <2>2, <2>3, <2>4, <1>1, <1>2
<1> QED  BY <1>1, <1>14, <1>15, <1>16, <1>17 DEF WroteSplit

\* malloc splits a free block: a used block of n words, and what is left.
LEMMA GiveDescribed ==
    ASSUME NEW h, NEW lv, NEW ls, NEW k, NEW e, Described(h, lv, ls, k, e),
           NEW b \in Pool, k[b] = "free", NEW n \in Nat, n >= 1, n + 3 <= SizeAt(h, b),
           NEW g, g = Scribble(SplitBlock(h, b, n), b + 1, n),
           NEW lv2, lv2 = With(lv, b + 1, n)
    PROVE  \E k2 \in [Pool -> Kinds], e2 \in [Pool -> 1..Words] :
              /\ Described(g, lv2, ls, k2, e2)
              /\ \A S : Seamed(k, e, S) => Seamed(k2, e2, S \ {b})
              /\ Guarded(k, e) => Guarded(k2, e2)
<1>1. /\ Layout(k, e) /\ AllLong(k, e) /\ h \in HeapRec /\ TagsTrue(h.tag, k, e)
      /\ ListOf(h.list, FreeStarts(k)) /\ CountsTrue(h, k, e)
      /\ lv = HeldOf(k, e) /\ ls = LostOf(k, e)
  BY DEF Described
<1>2. PICK total, m : total = e[b] - b - 4 /\ m = b + n + 2  OBVIOUS
<1>3. /\ total \in 0..(Words - 1) /\ SizeAt(h, b) = total /\ e[b] \in 1..Words
      /\ e[b] - 1 \in Pool
  BY <1>2, FreeBlockAt
<1>4. /\ b \in Int /\ m \in Int /\ n \in Int /\ total \in Int /\ e[b] \in Int
      /\ e[b] = b + total + 4 /\ m = b + n + 2 /\ n + 3 <= total /\ n >= 1 /\ b >= 0
  BY <1>2, <1>3, PoolSize DEF Pool
<1>5. b < m /\ m < e[b] /\ m \in Pool
  BY <1>3, <1>4, PoolSize DEF Pool
<1>6. PICK k2 \in [Pool -> Kinds], e2 \in [Pool -> 1..Words] :
          Layout(k2, e2) /\ Splits(k, e, k2, e2, b, m) /\ k2[b] = "used" /\ k2[m] = "free"
  <2>1. k[b] # "none" /\ "used" \in BlockKinds /\ "free" \in BlockKinds
    BY DEF BlockKinds
  <2>2. \E k2 \in [Pool -> Kinds], e2 \in [Pool -> 1..Words] :
           SplitAs(k, e, k2, e2, b, m, "used", "free")
    BY <1>1, <1>4, <1>5, <2>1, SplitExists
  <2> QED  BY <2>2 DEF SplitAs
<1>7. /\ e2[b] = m /\ e2[m] = e[b] /\ k[m] = "none"
      /\ \A x \in Pool : x # b /\ x # m => k2[x] = k[x] /\ e2[x] = e[x]
  BY <1>6 DEF Splits
<1>8. AllLong(k2, e2)
  <2> SUFFICES ASSUME NEW x \in Pool PROVE Long(k2[x], x, e2[x])
    BY DEF AllLong
  <2>1. CASE x = b  BY <1>4, <1>6, <1>7, <2>1 DEF Long
  <2>2. CASE x = m  BY <1>4, <1>6, <1>7, <2>2 DEF Long
  <2>3. CASE x # b /\ x # m  BY <1>1, <1>7, <2>3 DEF AllLong
  <2> QED  BY <2>1, <2>2, <2>3
<1>9. PICK f : f = SplitBlock(h, b, n)  OBVIOUS
<1>10. b \in FreeStarts(k) /\ m \notin FreeStarts(k)
  BY <1>5, <1>7 DEF FreeStarts
<1>11. /\ f \in HeapRec /\ WroteSplit(h, f, b, n, total)
       /\ ListOf(f.list, (FreeStarts(k) \ {b}) \cup {b + n + 2})
       /\ CountedBy(h, f, -(n + 2), n, 2)
  BY <1>1, <1>3, <1>4, <1>5, <1>9, <1>10, SplitBlockFields
<1>12. g \in HeapRec /\ SameBook(f, g) /\ WroteJunk(f, g, b + 1, n)
  <2>1. b + 1 \in Int  BY <1>4
  <2> QED  BY <1>9, <1>11, <2>1, Scribbled
<1>13. ASSUME NEW x \in Pool
       PROVE  g.tag[x] = IF x \in (b + 1)..(b + n) THEN Junk
                         ELSE IF x = m \/ x = e[b] - 1 THEN FreeTag(total - n - 2)
                         ELSE IF x = b \/ x = m - 1 THEN UsedTag(n)
                         ELSE h.tag[x]
  <2>1. g.tag[x] = IF x \in (b + 1)..(b + 1 + n - 1) THEN Junk ELSE f.tag[x]
    BY <1>12 DEF WroteJunk
  <2>2. f.tag[x] = IF x = b + n + 2 \/ x = b + total + 3 THEN FreeTag(total - n - 2)
                   ELSE IF x = b \/ x = b + 1 + n THEN UsedTag(n) ELSE h.tag[x]
    BY <1>11 DEF WroteSplit
  <2>3. b + 1 + n - 1 = b + n /\ b + n + 2 = m /\ b + total + 3 = e[b] - 1 /\ b + 1 + n = m - 1
    BY <1>4
  <2> QED  BY <2>1, <2>2, <2>3
<1>14. SameBut(h.tag, g.tag, b, e[b])
  <2> SUFFICES ASSUME NEW a \in Pool, a < b \/ e[b] <= a PROVE g.tag[a] = h.tag[a]
    BY DEF SameBut
  <2>1. /\ a \notin (b + 1)..(b + n) /\ a # m /\ a # e[b] - 1 /\ a # b /\ a # m - 1
    BY <1>4, PoolSize DEF Pool
  <2> QED  BY <1>13, <2>1
<1>15. Tagged(g.tag, k2[b], b, m)
  <2>1. m - b - 2 = n /\ m - 2 = b + n /\ m - 1 \in Pool  BY <1>3, <1>4, PoolSize DEF Pool
  <2>2. /\ b \notin (b + 1)..(b + n) /\ b # m /\ b # e[b] - 1
        /\ m - 1 \notin (b + 1)..(b + n) /\ m - 1 # m /\ m - 1 # e[b] - 1
    BY <1>4
  <2>3. g.tag[b] = UsedTag(n) /\ g.tag[m - 1] = UsedTag(n)
    BY <1>13, <2>1, <2>2
  <2>4. \A a \in (b + 1)..(m - 2) : a \in Pool /\ a \in (b + 1)..(b + n)
    BY <1>3, <1>4, PoolSize DEF Pool
  <2>5. \A a \in (b + 1)..(m - 2) : g.tag[a] = Junk
    BY <1>13, <2>4
  <2> QED  BY <1>6, <2>1, <2>3, <2>5 DEF Tagged
<1>16. Tagged(g.tag, k2[m], m, e[b])
  <2>1. e[b] - m - 4 = total - n - 2  BY <1>4
  <2>2. m \notin (b + 1)..(b + n) /\ e[b] - 1 \notin (b + 1)..(b + n)
    BY <1>4
  <2>3. g.tag[m] = FreeTag(total - n - 2) /\ g.tag[e[b] - 1] = FreeTag(total - n - 2)
    BY <1>3, <1>5, <1>13, <2>2
  <2> QED  BY <1>6, <2>1, <2>3 DEF Tagged
<1>17. TagsTrue(g.tag, k2, e2)
  BY <1>1, <1>6, <1>14, <1>15, <1>16, SplitTags
<1>18. ListOf(g.list, FreeStarts(k2))
  <2>1. FreeStarts(k2) = (FreeStarts(k) \ {b}) \cup {m}
    BY <1>5, <1>6, <1>7 DEF FreeStarts
  <2> QED  BY <1>2, <1>11, <1>12, <2>1 DEF SameBook
<1>19. CountsTrue(g, k2, e2)
  <2>1. /\ Cardinality(FreeOf(k2, e2)) = Cardinality(FreeOf(k, e)) - FreeIn(k[b], b, e[b])
                 + FreeIn(k2[b], b, m) + FreeIn(k2[m], m, e[b])
        /\ Cardinality(UsedOf(k2, e2)) = Cardinality(UsedOf(k, e)) - UsedIn(k[b], b, e[b])
                 + UsedIn(k2[b], b, m) + UsedIn(k2[m], m, e[b])
    BY <1>1, <1>6, <1>8, SplitCounts
  <2>2. /\ FreeIn(k[b], b, e[b]) = e[b] - b - 4 /\ UsedIn(k[b], b, e[b]) = 0
        /\ FreeIn(k2[b], b, m) = 0 /\ UsedIn(k2[b], b, m) = m - b - 2
        /\ FreeIn(k2[m], m, e[b]) = e[b] - m - 4 /\ UsedIn(k2[m], m, e[b]) = 0
    BY <1>6 DEF FreeIn, UsedIn
  <2>3. Cardinality(FreeOf(k, e)) \in Nat /\ Cardinality(UsedOf(k, e)) \in Nat
    BY PartsFinite
  <2>4. /\ Cardinality(FreeOf(k2, e2)) = Cardinality(FreeOf(k, e)) - (n + 2)
        /\ Cardinality(UsedOf(k2, e2)) = Cardinality(UsedOf(k, e)) + n
    BY <1>4, <2>1, <2>2, <2>3
  <2>5. /\ g.freeMem = h.freeMem + (-(n + 2)) /\ g.usedMem = h.usedMem + n
        /\ g.reservedMem = h.reservedMem + 2
    BY <1>11, <1>12 DEF CountedBy, SameBook, SameCounts
  <2>6. h.freeMem \in Int /\ h.usedMem \in Int /\ h.reservedMem \in Int
    BY <1>1 DEF HeapRec
  <2> QED  BY <1>1, <1>4, <2>3, <2>4, <2>5, <2>6 DEF CountsTrue
<1>20. lv2 = HeldOf(k2, e2)
  <2>1. SameUsedBut(k, e, k2, e2, b)
    BY <1>6, <1>7 DEF SameUsedBut
  <2>2. n = e2[b] - b - 2  BY <1>4, <1>7
  <2> QED  BY <1>1, <1>6, <2>1, <2>2, HeldAdded
<1>21. ls = LostOf(k2, e2)
  BY <1>1, <1>6, <1>7 DEF LostOf
<1>22. ASSUME NEW S, Seamed(k, e, S) PROVE Seamed(k2, e2, S \ {b})
  <2> SUFFICES ASSUME NEW x \in Pool, k2[x] = "free", e2[x] \in Pool, k2[e2[x]] = "free"
               PROVE  e2[x] \in S \ {b}
    BY DEF Seamed
  <2>1. e2[x] # b  BY <1>6
  <2>2. CASE x = m
    <3>1. e2[x] = e[b] /\ e[b] # m  BY <1>4, <1>5, <1>7, <2>2
    <3>2. k[e[b]] = "free"  BY <1>7, <2>1, <3>1
    <3> QED  BY <1>22, <2>1, <3>1, <3>2 DEF Seamed
  <2>3. CASE x # m
    <3>1. x # b /\ k[x] = "free" /\ e2[x] = e[x]  BY <1>6, <1>7, <2>3
    <3>2. e[x] # m
      <4>1. e[x] <= b \/ e[b] <= x  BY <1>1, <3>1, BlocksApart
      <4>2. x < e[x] /\ x \in Int /\ e[x] \in Int  BY <1>1, <3>1, BlockIn, PoolSize DEF Pool
      <4> QED  BY <1>4, <1>5, <4>1, <4>2
    <3>3. k[e[x]] = "free"  BY <1>7, <2>1, <3>1, <3>2
    <3> QED  BY <1>22, <2>1, <3>1, <3>3 DEF Seamed
  <2> QED  BY <2>2, <2>3
<1>23. ASSUME Guarded(k, e) PROVE Guarded(k2, e2)
  <2> SUFFICES ASSUME NEW x \in Pool, k2[x] = "used", e2[x] \in Pool
               PROVE  k2[e2[x]] # "lost"
    BY DEF Guarded, Clear
  <2>1. CASE x = b  BY <1>6, <1>7, <2>1
  <2>2. CASE x # b
    <3>1. k[x] = "used" /\ e2[x] = e[x]  BY <1>6, <1>7, <2>2
    <3>2. k[e[x]] # "lost"  BY <1>23, <3>1 DEF Guarded, Clear
    <3> QED  BY <1>6, <1>7, <3>1, <3>2
  <2> QED  BY <2>1, <2>2
<1>24. Described(g, lv2, ls, k2, e2)
  BY <1>6, <1>8, <1>12, <1>17, <1>18, <1>19, <1>20, <1>21 DEF Described
<1> QED  BY <1>22, <1>23, <1>24

----------------------------------------------------------------------------
\* free.

LEMMA Rearranged ==
    ASSUME NEW x \in Int, NEW y \in Int, NEW p \in Int, NEW q \in Int, NEW w \in Int,
           NEW f \in Int, y = x - w + p + q, f = w - p - q
    PROVE  x = y + f
  OBVIOUS

\* Two blocks of the layout joined to a free one.
LEMMA MergeDescribed ==
    ASSUME NEW h, NEW lv, NEW ls, NEW k2, NEW e2, Described(h, lv, ls, k2, e2),
           NEW k, NEW e, NEW b, NEW m, MergedAs(k, e, k2, e2, b, m, "free"),
           k2[b] # "lost", k2[m] # "lost",
           NEW g \in HeapRec, SameBut(h.tag, g.tag, b, e[b]), Tagged(g.tag, "free", b, e[b]),
           ListOf(g.list, FreeStarts(k)),
           NEW f \in Int, NEW u \in Int, NEW r \in Int, CountedBy(h, g, f, u, r),
           f = (e[b] - b - 4) - FreeIn(k2[b], b, m) - FreeIn(k2[m], m, e[b]),
           u = 0 - UsedIn(k2[b], b, m) - UsedIn(k2[m], m, e[b]),
           f + u + r = 0
    PROVE  Described(g, HeldOf(k, e), ls, k, e)
<1>1. /\ Layout(k2, e2) /\ AllLong(k2, e2) /\ h \in HeapRec /\ TagsTrue(h.tag, k2, e2)
      /\ CountsTrue(h, k2, e2) /\ ls = LostOf(k2, e2)
  BY DEF Described
<1>2. Layout(k, e) /\ Splits(k, e, k2, e2, b, m) /\ k[b] = "free"  BY DEF MergedAs
<1>3. /\ b \in Pool /\ m \in Pool /\ b < m /\ m < e[b] /\ e2[b] = m /\ e2[m] = e[b] /\ k[m] = "none"
      /\ k2[b] # "none" /\ k2[m] # "none"
      /\ \A x \in Pool : x # b /\ x # m => k2[x] = k[x] /\ e2[x] = e[x]
  BY <1>2 DEF Splits
<1>4. b \in Int /\ m \in Int /\ e[b] \in Int /\ k2[b] \in Kinds /\ k2[m] \in Kinds
  BY <1>1, <1>2, <1>3, BlockIn, PoolSize DEF Pool
<1>5. AllLong(k, e)
  <2> SUFFICES ASSUME NEW x \in Pool PROVE Long(k[x], x, e[x])
    BY DEF AllLong
  <2>1. CASE x = b
    <3>1. m - b >= 3 /\ e[b] - m >= 3
      BY <1>1, <1>3, <1>4 DEF AllLong, Long, Kinds
    <3>2. e[b] - b >= 4  BY <1>4, <3>1
    <3> QED  BY <1>2, <2>1, <3>2 DEF Long
  <2>2. CASE x = m  BY <1>3, <2>2 DEF Long
  <2>3. CASE x # b /\ x # m  BY <1>1, <1>3, <2>3 DEF AllLong
  <2> QED  BY <2>1, <2>2, <2>3
<1>6. TagsTrue(g.tag, k, e)
  BY <1>1, <1>2, <1>5, MergeTags
<1>7. CountsTrue(g, k, e)
  <2>1. /\ Cardinality(FreeOf(k2, e2)) = Cardinality(FreeOf(k, e)) - FreeIn(k[b], b, e[b])
                 + FreeIn(k2[b], b, m) + FreeIn(k2[m], m, e[b])
        /\ Cardinality(UsedOf(k2, e2)) = Cardinality(UsedOf(k, e)) - UsedIn(k[b], b, e[b])
                 + UsedIn(k2[b], b, m) + UsedIn(k2[m], m, e[b])
    BY <1>1, <1>2, <1>5, SplitCounts
  <2>2. FreeIn(k[b], b, e[b]) = e[b] - b - 4 /\ UsedIn(k[b], b, e[b]) = 0
    BY <1>2 DEF FreeIn, UsedIn
  <2>3. /\ Cardinality(FreeOf(k, e)) \in Nat /\ Cardinality(UsedOf(k, e)) \in Nat
        /\ Cardinality(FreeOf(k2, e2)) \in Nat /\ Cardinality(UsedOf(k2, e2)) \in Nat
    BY PartsFinite
  <2>4. /\ FreeIn(k2[b], b, m) \in Int /\ FreeIn(k2[m], m, e[b]) \in Int
        /\ UsedIn(k2[b], b, m) \in Int /\ UsedIn(k2[m], m, e[b]) \in Int
    BY <1>4 DEF FreeIn, UsedIn
  <2>5. /\ Cardinality(FreeOf(k, e)) = Cardinality(FreeOf(k2, e2)) + f
        /\ Cardinality(UsedOf(k, e)) = Cardinality(UsedOf(k2, e2)) + u
    <3>1. PICK w \in Int : w = e[b] - b - 4  BY <1>4
    <3>2. Cardinality(FreeOf(k, e)) = Cardinality(FreeOf(k2, e2)) + f
      BY <2>1, <2>2, <2>3, <2>4, <3>1, Rearranged
    <3>3. Cardinality(UsedOf(k, e)) = Cardinality(UsedOf(k2, e2)) + u
      BY <2>1, <2>2, <2>3, <2>4, Rearranged
    <3> QED  BY <3>2, <3>3
  <2>6. /\ g.freeMem = h.freeMem + f /\ g.usedMem = h.usedMem + u
        /\ g.reservedMem = h.reservedMem + r
    BY DEF CountedBy
  <2>7. h.freeMem \in Int /\ h.usedMem \in Int /\ h.reservedMem \in Int
    BY <1>1 DEF HeapRec
  <2>8. /\ h.freeMem = Cardinality(FreeOf(k2, e2)) /\ h.usedMem = Cardinality(UsedOf(k2, e2))
        /\ h.freeMem + h.usedMem + h.reservedMem = Words
    BY <1>1 DEF CountsTrue
  <2>9. g.freeMem + g.usedMem + g.reservedMem = Words
    BY <2>6, <2>7, <2>8
  <2> QED  BY <2>5, <2>6, <2>8, <2>9 DEF CountsTrue
<1>8. ls = LostOf(k, e)
  BY <1>1, <1>2, <1>3 DEF LostOf
<1> QED  BY <1>2, <1>5, <1>6, <1>7, <1>8 DEF Described

NoneFreeBefore(k, e, b) == \A x \in Pool : k[x] = "free" => e[x] # b

\* The blocks before and behind a block that free has just made.
LEMMA MergedButOne ==
    ASSUME NEW k2, NEW e2, Layout(k2, e2), NEW k, NEW e, NEW b, NEW m, NEW S,
           MergedAs(k, e, k2, e2, b, m, "free"), SeamedBut(k2, e2, S, b),
           k2[b] = "free" \/ NoneFreeBefore(k2, e2, b), Guarded(k2, e2)
    PROVE  SeamedBut(k, e, S, b) /\ Guarded(k, e)
<1>2. Layout(k, e) /\ Splits(k, e, k2, e2, b, m) /\ k[b] = "free"  BY DEF MergedAs
<1>3. /\ b \in Pool /\ m \in Pool /\ k[m] = "none"
      /\ \A x \in Pool : x # b /\ x # m => k2[x] = k[x] /\ e2[x] = e[x]
  BY <1>2 DEF Splits
<1>4. ASSUME NEW x \in Pool, k[x] = "free", e[x] \in Pool, x # b, k[e[x]] = "free"
      PROVE  e[x] \in S
  <2>1. x # m /\ k2[x] = "free" /\ e2[x] = e[x]  BY <1>3, <1>4
  <2>2. k2[e[x]] = "free"  BY <1>3, <1>4, <2>1 DEF NoneFreeBefore
  <2> QED  BY <1>4, <2>1, <2>2 DEF SeamedBut
<1>5. ASSUME NEW x \in Pool, k[x] = "used", e[x] \in Pool
      PROVE  k[e[x]] # "lost"
  <2>1. k2[x] = "used" /\ e2[x] = e[x]  BY <1>2, <1>3, <1>5
  <2>2. k2[e[x]] # "lost"  BY <1>5, <2>1 DEF Guarded, Clear
  <2> QED  BY <1>2, <1>3, <1>5, <2>2
<1> QED  BY <1>4, <1>5 DEF SeamedBut, Guarded, Clear

LEMMA MergedNow ==
    ASSUME NEW k2, NEW e2, Layout(k2, e2), NEW k, NEW e, NEW b, NEW m, NEW S,
           MergedAs(k, e, k2, e2, b, m, "free"), SeamedBut(k2, e2, S, b),
           SeamedBut(k, e, S, b), k2[m] = "free"
    PROVE  Seamed(k, e, S)
<1>2. Layout(k, e) /\ Splits(k, e, k2, e2, b, m) /\ k[b] = "free"  BY DEF MergedAs
<1>3. /\ b \in Pool /\ m \in Pool /\ k[m] = "none" /\ e2[m] = e[b] /\ b < m /\ m < e[b]
      /\ \A x \in Pool : x # b /\ x # m => k2[x] = k[x] /\ e2[x] = e[x]
  BY <1>2 DEF Splits
<1>4. ASSUME e[b] \in Pool, k[e[b]] = "free" PROVE e[b] \in S
  <2>1. e[b] # b /\ e[b] # m /\ m # b  BY <1>3, <1>4, PoolSize DEF Pool
  <2>2. k2[e[b]] = "free"  BY <1>3, <1>4, <2>1
  <2> QED  BY <1>3, <1>4, <2>1, <2>2 DEF SeamedBut
<1> QED  BY <1>4 DEF Seamed, SeamedBut

\* Whether free merges the block with a free one before it.
PredecessorSteps(h, lv, ls, k, e, S, b, s) ==
    \/ /\ s = SkipPredecessor(h, b)
       /\ NoneFreeBefore(k, e, b)
    \/ \E g \in HeapRec, x \in Pool, k2 \in [Pool -> Kinds], e2 \in [Pool -> 1..Words] :
          /\ s = [heap |-> g, merged |-> TRUE, block |-> x]
          /\ Described(g, Without(lv, b + 1), ls, k2, e2)
          /\ k2[x] = "free" /\ Clear(k2, e2, x)
          /\ SeamedBut(k2, e2, S, x) /\ Guarded(k2, e2)

LEMMA PredecessorMerged ==
    ASSUME NEW h, NEW lv, NEW ls, NEW k, NEW e, NEW S, Described(h, lv, ls, k, e),
           Seamed(k, e, S), Guarded(k, e),
           NEW b \in Pool, k[b] = "used", NEW x \in Pool, k[x] = "free", e[x] = b, x < b,
           NEW s, s = CoalescePredecessor(h, b)
    PROVE  PredecessorSteps(h, lv, ls, k, e, S, b, s)
<1>1. /\ Layout(k, e) /\ AllLong(k, e) /\ h \in HeapRec /\ TagsTrue(h.tag, k, e)
      /\ ListOf(h.list, FreeStarts(k)) /\ lv = HeldOf(k, e)
  BY DEF Described
<1>2. PICK c, n, sum : c = e[b] /\ n = e[b] - b - 2 /\ sum = e[b] - x - 4  OBVIOUS
<1>3. /\ e[b] - 1 \in Pool /\ e[b] \in 1..Words /\ n \in 1..(Words - 1)
      /\ TagAt(h, e[b] - 1) = UsedTag(n) /\ SizeAt(h, b) = n
  BY <1>2, UsedBlockAt
<1>4. /\ b - x - 4 \in 0..(Words - 1) /\ TagAt(h, x) = FreeTag(b - x - 4)
      /\ TagAt(h, b - 1) = FreeTag(b - x - 4) /\ SizeAt(h, x) = b - x - 4
  BY FreeBlockAt
<1>5. /\ b \in Int /\ c \in Int /\ x \in Int /\ n \in Int /\ sum \in Int
      /\ x >= 0 /\ x + 4 <= b /\ b + n + 2 = c /\ sum = c - x - 4 /\ c <= Words /\ n >= 1
  BY <1>2, <1>3, <1>4, PoolSize DEF Pool
<1>6. sum \in 0..(Words - 1)  BY <1>5, PoolSize
<1>7. Tag(sum, FALSE) = FreeTag(sum) /\ FreeTag(sum) \in TagSet
  BY <1>6, TagFits DEF FreeTag
<1>8. /\ FreeTag(b - x - 4).size = b - x - 4 /\ FreeTag(b - x - 4).inUse = FALSE
      /\ UsedTag(n).size = n
  BY DEF FreeTag, UsedTag
<1>9. /\ b - FOOTER_SIZE = b - 1
      /\ b - FOOTER_SIZE - (b - x - 4) - FREE_BLOCK_HEADER_SIZE = x
      /\ b + USED_BLOCK_HEADER_SIZE + n = c - 1
      /\ USED_BLOCK_HEADER_SIZE + FOOTER_SIZE = 2
      /\ b - x - 4 + n + 2 = sum
      /\ b # 0
  BY <1>5 DEF FOOTER_SIZE, USED_BLOCK_HEADER_SIZE, FREE_BLOCK_HEADER_SIZE
<1>10. PICK f : f = Write(h, x, FreeTag(sum))  OBVIOUS
<1>11. PICK f2 : f2 = Write(f, c - 1, FreeTag(sum))  OBVIOUS
<1>12. PICK g : g = Count(f2, n + 2, -n, -2)  OBVIOUS
<1>13. s = [heap |-> g, merged |-> TRUE, block |-> x]
  <2>1. TagAt(h, b + USED_BLOCK_HEADER_SIZE + n) = UsedTag(n)  BY <1>2, <1>3, <1>9
  <2> QED  BY <1>3, <1>4, <1>7, <1>8, <1>9, <1>10, <1>11, <1>12, <2>1 DEF CoalescePredecessor
<1>14. /\ f \in HeapRec /\ SameBook(h, f) /\ WroteTags(h, f, x, x, FreeTag(sum))
  BY <1>1, <1>5, <1>7, <1>10, Written
<1>15. /\ f2 \in HeapRec /\ SameBook(f, f2) /\ WroteTags(f, f2, c - 1, c - 1, FreeTag(sum))
  <2>1. c - 1 \in Int  BY <1>5
  <2> QED  BY <1>7, <1>11, <1>14, <2>1, Written
<1>16. /\ g \in HeapRec /\ SameTags(f2, g) /\ g.list = f2.list /\ CountedBy(f2, g, n + 2, -n, -2)
  <2>1. n + 2 \in Int /\ -n \in Int /\ -2 \in Int  BY <1>5
  <2> QED  BY <1>12, <1>15, <2>1, Counted
<1>17. CountedBy(h, g, n + 2, -n, -2)
  BY <1>14, <1>15, <1>16 DEF SameBook, SameCounts, CountedBy
<1>18. \A a \in Pool : g.tag[a] = IF a = x \/ a = c - 1 THEN FreeTag(sum) ELSE h.tag[a]
  BY <1>14, <1>15, <1>16 DEF SameTags, WroteTags
<1>19. PICK k2 \in [Pool -> Kinds], e2 \in [Pool -> 1..Words] : MergedAs(k2, e2, k, e, x, b, "free")
  <2>1. k[x] # "none" /\ "free" \in BlockKinds  BY DEF BlockKinds
  <2> QED  BY <1>1, <2>1, MergeExists
<1>20. /\ Layout(k2, e2) /\ Splits(k2, e2, k, e, x, b) /\ k2[x] = "free"  BY <1>19 DEF MergedAs
<1>21. /\ k2[b] = "none" /\ e2[x] = c
       /\ \A y \in Pool : y # x /\ y # b => k[y] = k2[y] /\ e[y] = e2[y]
  BY <1>2, <1>20 DEF Splits
<1>22. SameBut(h.tag, g.tag, x, c)
  <2> SUFFICES ASSUME NEW a \in Pool, a < x \/ c <= a PROVE g.tag[a] = h.tag[a]
    BY DEF SameBut
  <2>1. a # x /\ a # c - 1  BY <1>5, PoolSize DEF Pool
  <2> QED  BY <1>18, <2>1
<1>23. Tagged(g.tag, "free", x, c)
  <2>1. x \in Pool /\ c - 1 \in Pool  BY <1>2, <1>3
  <2>2. g.tag[x] = FreeTag(sum) /\ g.tag[c - 1] = FreeTag(sum)  BY <1>18, <2>1
  <2> QED  BY <1>5, <2>2 DEF Tagged
<1>24. ListOf(g.list, FreeStarts(k2))
  <2>1. FreeStarts(k2) = FreeStarts(k)  BY <1>20, <1>21 DEF FreeStarts
  <2> QED  BY <1>1, <1>14, <1>15, <1>16, <2>1 DEF SameBook
<1>25. Described(g, HeldOf(k2, e2), ls, k2, e2)
  <2>1. k[x] # "lost" /\ k[b] # "lost"  OBVIOUS
  <2>2. PICK u \in Int, v \in Int, w \in Int : u = n + 2 /\ v = -n /\ w = -2  BY <1>5
  <2>3. /\ FreeIn(k[x], x, b) = b - x - 4 /\ FreeIn(k[b], b, c) = 0
        /\ UsedIn(k[x], x, b) = 0 /\ UsedIn(k[b], b, c) = c - b - 2
    BY DEF FreeIn, UsedIn
  <2>4. /\ u = (c - x - 4) - FreeIn(k[x], x, b) - FreeIn(k[b], b, c)
        /\ v = 0 - UsedIn(k[x], x, b) - UsedIn(k[b], b, c)
        /\ u + v + w = 0
    BY <1>5, <2>2, <2>3
  <2>5. CountedBy(h, g, u, v, w)  BY <1>17, <2>2
  <2>6. /\ u = (e2[x] - x - 4) - FreeIn(k[x], x, b) - FreeIn(k[b], b, e2[x])
        /\ v = 0 - UsedIn(k[x], x, b) - UsedIn(k[b], b, e2[x])
        /\ SameBut(h.tag, g.tag, x, e2[x]) /\ Tagged(g.tag, "free", x, e2[x])
    BY <1>21, <1>22, <1>23, <2>4
  <2> QED  BY <1>16, <1>19, <1>24, <2>1, <2>4, <2>5, <2>6, MergeDescribed
<1>26. HeldOf(k2, e2) = Without(lv, b + 1)
  <2>1. SameUsedBut(k, e, k2, e2, b)
    BY <1>20, <1>21 DEF SameUsedBut
  <2> QED  BY <1>1, <1>21, <2>1, HeldRemoved
<1>27. SeamedBut(k2, e2, S, x) /\ Guarded(k2, e2)
  <2>1. SeamedBut(k, e, S, x)  BY DEF Seamed, SeamedBut
  <2> QED  BY <1>1, <1>19, <2>1, MergedButOne
<1>28. Clear(k2, e2, x)
  <2> SUFFICES ASSUME c \in Pool PROVE k2[c] # "lost"
    BY <1>21 DEF Clear
  <2>1. k[c] # "lost"  BY <1>2 DEF Guarded, Clear
  <2>2. c # x /\ c # b  BY <1>5
  <2> QED  BY <1>21, <2>1, <2>2
<1> QED  BY <1>13, <1>16, <1>20, <1>25, <1>26, <1>27, <1>28 DEF PredecessorSteps

\* No words a cut lost are before block b.
NoneLostBefore(k, e, b) == \A x \in Pool : k[x] = "lost" => e[x] # b

LEMMA PredecessorStep ==
    ASSUME NEW h, NEW lv, NEW ls, NEW k, NEW e, NEW S, Described(h, lv, ls, k, e),
           Seamed(k, e, S), Guarded(k, e),
           NEW b \in Pool, k[b] = "used", NoneLostBefore(k, e, b),
           NEW s, s = CoalescePredecessor(h, b)
    PROVE  PredecessorSteps(h, lv, ls, k, e, S, b, s)
<1>1. Layout(k, e)  BY DEF Described
<1>2. CASE b = 0
  <2>1. s = SkipPredecessor(h, b)  BY <1>2 DEF CoalescePredecessor, SkipPredecessor
  <2>2. NoneFreeBefore(k, e, b)  BY <1>1, <1>2, BlockIn DEF NoneFreeBefore
  <2> QED  BY <2>1, <2>2 DEF PredecessorSteps
<1>3. CASE b # 0
  <2>1. PICK x \in Pool : k[x] # "none" /\ e[x] = b /\ x < b
    BY <1>1, <1>3, BlockBefore
  <2>2. CASE k[x] = "free"
    BY <2>1, <2>2, PredecessorMerged
  <2>3. CASE k[x] = "used"
    <3>1. TagAt(h, b - 1) = UsedTag(b - x - 2)  BY <2>1, <2>3, UsedBlockAt
    <3>2. UsedTag(b - x - 2).inUse = TRUE  BY DEF UsedTag
    <3>3. s = SkipPredecessor(h, b)
      BY <3>1, <3>2 DEF CoalescePredecessor, SkipPredecessor, FOOTER_SIZE
    <3>4. ASSUME NEW y \in Pool, k[y] = "free" PROVE e[y] # b
      <4>1. x # y  BY <2>3, <3>4
      <4>2. e[x] <= y \/ e[y] <= x  BY <1>1, <2>1, <3>4, <4>1, BlocksApart
      <4>3. y < e[y]  BY <1>1, <3>4, BlockIn
      <4> QED  BY <2>1, <4>2, <4>3, PoolSize DEF Pool
    <3> QED  BY <3>3, <3>4 DEF PredecessorSteps, NoneFreeBefore
  <2>4. k[x] \in Kinds /\ k[x] # "lost"  BY <1>1, <2>1, BlockIn DEF NoneLostBefore
  <2> QED  BY <2>1, <2>2, <2>3, <2>4 DEF Kinds
<1> QED  BY <1>2, <1>3

\* The block at m: there is none, or it is used, or it is free.
Behind(h, k, m) ==
    \/ m = Words
    \/ m \in Pool /\ m # Words /\ k[m] = "used" /\ TagAt(h, m).inUse = TRUE
    \/ m \in Pool /\ m # Words /\ k[m] = "free" /\ TagAt(h, m).inUse = FALSE

LEMMA Successor ==
    ASSUME NEW h, NEW lv, NEW ls, NEW k, NEW e, Described(h, lv, ls, k, e),
           NEW b \in Pool, k[b] # "none", Clear(k, e, b)
    PROVE  Behind(h, k, e[b])
<1>1. Layout(k, e)  BY DEF Described
<1> SUFFICES ASSUME e[b] # Words
             PROVE  \/ e[b] \in Pool /\ k[e[b]] = "used" /\ TagAt(h, e[b]).inUse = TRUE
                    \/ e[b] \in Pool /\ k[e[b]] = "free" /\ TagAt(h, e[b]).inUse = FALSE
  BY DEF Behind
<1>2. PICK m \in Pool : m = e[b] /\ k[m] # "none"  BY <1>1, NextBlock
<1>3. k[m] \in Kinds /\ k[m] # "lost"  BY <1>1, <1>2, BlockIn DEF Clear
<1>4. CASE k[m] = "used"
  <2>1. TagAt(h, m) = UsedTag(e[m] - m - 2)  BY <1>4, UsedBlockAt
  <2>2. TagAt(h, m).inUse = TRUE  BY <2>1 DEF UsedTag
  <2> QED  BY <1>2, <1>4, <2>2
<1>5. CASE k[m] = "free"
  <2>1. TagAt(h, m) = FreeTag(e[m] - m - 4)  BY <1>5, FreeBlockAt
  <2>2. TagAt(h, m).inUse = FALSE  BY <2>1 DEF FreeTag
  <2> QED  BY <1>2, <1>5, <2>2
<1> QED  BY <1>2, <1>3, <1>4, <1>5 DEF Kinds

\* A free block is joined with the free one behind it.
LEMMA SuccessorOfFree ==
    ASSUME NEW h, NEW lv, NEW ls, NEW k, NEW e, NEW S, Described(h, lv, ls, k, e),
           NEW b \in Pool, k[b] = "free", SeamedBut(k, e, S, b), Guarded(k, e),
           Clear(k, e, b),
           NEW s, s = [heap |-> h, merged |-> TRUE, block |-> b],
           NEW t, t = CoalesceSuccessor(s)
    PROVE  t.merged = TRUE /\ Sound(t.heap, lv, ls, S)
<1>1. /\ Layout(k, e) /\ AllLong(k, e) /\ h \in HeapRec /\ TagsTrue(h.tag, k, e)
      /\ ListOf(h.list, FreeStarts(k)) /\ lv = HeldOf(k, e)
      /\ k \in [Pool -> Kinds] /\ e \in [Pool -> 1..Words]
  BY DEF Described, Layout
<1>2. PICK m, n : m = e[b] /\ n = e[b] - b - 4  OBVIOUS
<1>3. /\ m \in 1..Words /\ n \in 0..(Words - 1) /\ SizeAt(h, b) = n
  BY <1>2, FreeBlockAt
<1>4. /\ b \in Int /\ m \in Int /\ n \in Int /\ b >= 0 /\ m = b + n + 4
  BY <1>2, <1>3, PoolSize DEF Pool
<1>5. /\ s.heap = h /\ s.merged = TRUE /\ s.block = b
      /\ b + FREE_BLOCK_HEADER_SIZE + n + FOOTER_SIZE = m
  BY <1>4 DEF FREE_BLOCK_HEADER_SIZE, FOOTER_SIZE
<1>6. CASE m = Words \/ (m \in Pool /\ m # Words /\ k[m] = "used" /\ TagAt(h, m).inUse = TRUE)
  <2>1. t = s  BY <1>3, <1>5, <1>6 DEF CoalesceSuccessor
  <2>2. m \in Pool => k[m] # "free"  BY <1>6, PoolSize DEF Pool
  <2>3. Seamed(k, e, S)  BY <1>2, <2>2 DEF Seamed, SeamedBut
  <2> QED  BY <1>1, <1>5, <2>1, <2>3 DEF Sound
<1>7. CASE m \in Pool /\ m # Words /\ k[m] = "free" /\ TagAt(h, m).inUse = FALSE
  <2>1. PICK c, q, sum : c = e[m] /\ q = e[m] - m - 4 /\ sum = e[m] - b - 4  OBVIOUS
  <2>2. /\ c - 1 \in Pool /\ c \in 1..Words /\ q \in 0..(Words - 1)
        /\ TagAt(h, c - 1) = FreeTag(q) /\ SizeAt(h, m) = q
    BY <1>7, <2>1, FreeBlockAt
  <2>3. /\ c \in Int /\ q \in Int /\ sum \in Int /\ c = m + q + 4 /\ sum = c - b - 4
        /\ q >= 0 /\ n >= 0 /\ c <= Words
    BY <1>3, <1>4, <2>1, <2>2, PoolSize DEF Pool
  <2>4. sum \in 0..(Words - 1)  BY <1>4, <2>3, PoolSize
  <2>5. Tag(sum, FALSE) = FreeTag(sum) /\ FreeTag(sum) \in TagSet /\ FreeTag(q).inUse = FALSE
    BY <2>4, TagFits DEF FreeTag
  <2>6. /\ n + FREE_BLOCK_HEADER_SIZE + FOOTER_SIZE + q = sum
        /\ m + FREE_BLOCK_HEADER_SIZE + q = c - 1
        /\ FOOTER_SIZE + FREE_BLOCK_HEADER_SIZE = 4
    BY <1>4, <2>3 DEF FREE_BLOCK_HEADER_SIZE, FOOTER_SIZE
  <2>7. PICK f : f = Write(h, b, FreeTag(sum))  OBVIOUS
  <2>8. PICK f2 : f2 = Write(f, c - 1, FreeTag(sum))  OBVIOUS
  <2>9. PICK f3 : f3 = Unlink(f2, m)  OBVIOUS
  <2>10. PICK g : g = Count(f3, 4, 0, -4)  OBVIOUS
  <2>11. t = [s EXCEPT !.merged = TRUE, !.heap = g]
    <3>1. ~(m = Words \/ TagAt(h, m).inUse)  BY <1>7
    <3>2. /\ (IF s.merged THEN FREE_BLOCK_HEADER_SIZE ELSE USED_BLOCK_HEADER_SIZE) = FREE_BLOCK_HEADER_SIZE
          /\ SizeAt(s.heap, s.block) = n /\ SizeAt(s.heap, m) = q
          /\ s.block + FREE_BLOCK_HEADER_SIZE + n + FOOTER_SIZE = m
      BY <1>3, <1>5, <2>2
    <3>3. TagAt(s.heap, m + FREE_BLOCK_HEADER_SIZE + q).inUse = FALSE
      BY <1>5, <2>2, <2>5, <2>6
    <3>4. g = Count(Unlink(Write(Write(s.heap, s.block, Tag(sum, FALSE)),
                                 m + FREE_BLOCK_HEADER_SIZE + q, Tag(sum, FALSE)), m), 4, 0, -4)
      BY <1>5, <2>5, <2>6, <2>7, <2>8, <2>9, <2>10
    <3>5. s.merged = TRUE /\ ~(m = Words \/ TagAt(s.heap, m).inUse)  BY <1>5, <3>1
    <3> QED  BY <2>6, <3>2, <3>3, <3>4, <3>5 DEF CoalesceSuccessor
  <2>12. t.merged = TRUE /\ t.heap = g  BY <2>11
  <2>14. f \in HeapRec /\ SameBook(h, f) /\ WroteTags(h, f, b, b, FreeTag(sum))
    BY <1>1, <1>4, <2>5, <2>7, Written
  <2>15. f2 \in HeapRec /\ SameBook(f, f2) /\ WroteTags(f, f2, c - 1, c - 1, FreeTag(sum))
    <3>1. c - 1 \in Int  BY <2>3
    <3> QED  BY <2>5, <2>8, <2>14, <3>1, Written
  <2>16. ListOf(f2.list, FreeStarts(k)) /\ m \in FreeStarts(k)
    BY <1>1, <1>7, <2>14, <2>15 DEF SameBook, FreeStarts
  <2>17. f3 \in HeapRec /\ SameTags(f2, f3) /\ SameCounts(f2, f3) /\ ListOf(f3.list, FreeStarts(k) \ {m})
    BY <2>9, <2>15, <2>16, Unlinked
  <2>18. g \in HeapRec /\ SameTags(f3, g) /\ g.list = f3.list /\ CountedBy(f3, g, 4, 0, -4)
    <3>1. 4 \in Int /\ 0 \in Int /\ -4 \in Int  OBVIOUS
    <3> QED  BY <2>10, <2>17, <3>1, Counted
  <2>19. CountedBy(h, g, 4, 0, -4)
    BY <2>14, <2>15, <2>17, <2>18 DEF SameBook, SameCounts, CountedBy
  <2>20. \A a \in Pool : g.tag[a] = IF a = b \/ a = c - 1 THEN FreeTag(sum) ELSE h.tag[a]
    BY <2>14, <2>15, <2>17, <2>18 DEF SameTags, WroteTags
  <2>21. PICK k2 \in [Pool -> Kinds], e2 \in [Pool -> 1..Words] : MergedAs(k2, e2, k, e, b, m, "free")
    <3>1. k[b] # "none" /\ "free" \in BlockKinds  BY DEF BlockKinds
    <3> QED  BY <1>1, <1>2, <1>7, <3>1, MergeExists
  <2>22. /\ Layout(k2, e2) /\ Splits(k2, e2, k, e, b, m) /\ k2[b] = "free"  BY <2>21 DEF MergedAs
  <2>23. /\ k2[m] = "none" /\ e2[b] = c
         /\ \A y \in Pool : y # b /\ y # m => k[y] = k2[y] /\ e[y] = e2[y]
    BY <2>1, <2>22 DEF Splits
  <2>24. SameBut(h.tag, g.tag, b, c)
    <3> SUFFICES ASSUME NEW a \in Pool, a < b \/ c <= a PROVE g.tag[a] = h.tag[a]
      BY DEF SameBut
    <3>1. a # b /\ a # c - 1  BY <1>4, <2>3, PoolSize DEF Pool
    <3> QED  BY <2>20, <3>1
  <2>25. Tagged(g.tag, "free", b, c)
    <3>1. g.tag[b] = FreeTag(sum) /\ g.tag[c - 1] = FreeTag(sum)  BY <2>2, <2>20
    <3> QED  BY <2>3, <3>1 DEF Tagged
  <2>26. ListOf(g.list, FreeStarts(k2))
    <3>1. FreeStarts(k2) = FreeStarts(k) \ {m}
      <4>1. b # m  BY <1>4, <1>3
      <4> QED  BY <1>7, <2>22, <2>23, <4>1 DEF FreeStarts
    <3> QED  BY <2>17, <2>18, <3>1
  <2>27. Described(g, HeldOf(k2, e2), ls, k2, e2)
    <3>1. k[b] # "lost" /\ k[m] # "lost"  BY <1>7
    <3>2. PICK u \in Int, v \in Int, w \in Int : u = 4 /\ v = 0 /\ w = -4  OBVIOUS
    <3>3. /\ FreeIn(k[b], b, m) = m - b - 4 /\ FreeIn(k[m], m, c) = c - m - 4
          /\ UsedIn(k[b], b, m) = 0 /\ UsedIn(k[m], m, c) = 0
      BY <1>7 DEF FreeIn, UsedIn
    <3>4. /\ u = (c - b - 4) - FreeIn(k[b], b, m) - FreeIn(k[m], m, c)
          /\ v = 0 - UsedIn(k[b], b, m) - UsedIn(k[m], m, c)
          /\ u + v + w = 0
      BY <1>4, <2>3, <3>2, <3>3
    <3>5. CountedBy(h, g, u, v, w)  BY <2>19, <3>2
    <3>6. /\ u = (e2[b] - b - 4) - FreeIn(k[b], b, m) - FreeIn(k[m], m, e2[b])
          /\ v = 0 - UsedIn(k[b], b, m) - UsedIn(k[m], m, e2[b])
          /\ SameBut(h.tag, g.tag, b, e2[b]) /\ Tagged(g.tag, "free", b, e2[b])
      BY <2>23, <2>24, <2>25, <3>4
    <3> QED  BY <2>18, <2>21, <2>26, <3>1, <3>4, <3>5, <3>6, MergeDescribed
  <2>28. HeldOf(k2, e2) = lv
    <3>1. SameUsedBut(k, e, k2, e2, b)
      BY <1>7, <2>22, <2>23 DEF SameUsedBut
    <3> QED  BY <1>1, <2>22, <3>1, HeldSame
  <2>29. SeamedBut(k2, e2, S, b) /\ Guarded(k2, e2)
    BY <1>1, <2>21, MergedButOne
  <2>30. Seamed(k2, e2, S)
    BY <1>1, <1>7, <2>21, <2>29, MergedNow
  <2> QED  BY <2>12, <2>27, <2>28, <2>29, <2>30 DEF Sound
<1>8. Behind(h, k, m)
  <2>1. k[b] # "none"  OBVIOUS
  <2>2. Behind(h, k, e[b])  BY <2>1, Successor
  <2> QED  BY <1>2, <2>2
<1> QED  BY <1>6, <1>7, <1>8 DEF Behind

\* A used block with no free one before it becomes free, or is joined with the
\* free one behind it.
LEMMA SuccessorOfUsed ==
    ASSUME NEW h, NEW lv, NEW ls, NEW k, NEW e, NEW S, Described(h, lv, ls, k, e),
           Seamed(k, e, S), Guarded(k, e),
           NEW b \in Pool, k[b] = "used", NoneFreeBefore(k, e, b),
           e[b] \in Pool, e[b] # Words, k[e[b]] = "free", TagAt(h, e[b]).inUse = FALSE,
           NEW s, s = SkipPredecessor(h, b),
           NEW t, t = CoalesceSuccessor(s)
    PROVE  t.merged = TRUE /\ Sound(t.heap, Without(lv, b + 1), ls, S)
<1>1. /\ Layout(k, e) /\ AllLong(k, e) /\ h \in HeapRec /\ TagsTrue(h.tag, k, e)
      /\ ListOf(h.list, FreeStarts(k)) /\ lv = HeldOf(k, e)
      /\ k \in [Pool -> Kinds] /\ e \in [Pool -> 1..Words]
  BY DEF Described, Layout
<1>2. PICK m, n : m = e[b] /\ n = e[b] - b - 2  OBVIOUS
<1>3. /\ m \in 1..Words /\ n \in 1..(Words - 1) /\ SizeAt(h, b) = n
  BY <1>2, UsedBlockAt
<1>4. /\ b \in Int /\ m \in Int /\ n \in Int /\ b >= 0 /\ m = b + n + 2 /\ n >= 1
  BY <1>2, <1>3, PoolSize DEF Pool
<1>5. /\ s = [heap |-> h, merged |-> FALSE, block |-> b]
      /\ s.heap = h /\ s.merged = FALSE /\ s.block = b
      /\ b + USED_BLOCK_HEADER_SIZE + n + FOOTER_SIZE = m
  BY <1>4 DEF USED_BLOCK_HEADER_SIZE, FOOTER_SIZE, SkipPredecessor
<1>7. m \in Pool /\ m # Words /\ k[m] = "free" /\ TagAt(h, m).inUse = FALSE
  BY <1>2
<1>8. PICK c, q, sum : c = e[m] /\ q = e[m] - m - 4 /\ sum = e[m] - b - 4  OBVIOUS
<1>9. /\ c - 1 \in Pool /\ c \in 1..Words /\ q \in 0..(Words - 1)
      /\ TagAt(h, c - 1) = FreeTag(q) /\ SizeAt(h, m) = q
  BY <1>7, <1>8, FreeBlockAt
<1>10. /\ c \in Int /\ q \in Int /\ sum \in Int /\ c = m + q + 4 /\ sum = c - b - 4
      /\ q >= 0 /\ c <= Words
  BY <1>3, <1>4, <1>8, <1>9, PoolSize DEF Pool
<1>11. sum \in 0..(Words - 1)  BY <1>4, <1>10, PoolSize
<1>12. Tag(sum, FALSE) = FreeTag(sum) /\ FreeTag(sum) \in TagSet /\ FreeTag(q).inUse = FALSE
  BY <1>11, TagFits DEF FreeTag
<1>13. /\ n + USED_BLOCK_HEADER_SIZE + FOOTER_SIZE + q = sum
      /\ m + FREE_BLOCK_HEADER_SIZE + q = c - 1
      /\ n + FOOTER_SIZE + USED_BLOCK_HEADER_SIZE = n + 2
      /\ FOOTER_SIZE + USED_BLOCK_HEADER_SIZE = 2
  BY <1>4, <1>10 DEF FREE_BLOCK_HEADER_SIZE, USED_BLOCK_HEADER_SIZE, FOOTER_SIZE
<1>14. PICK f : f = Write(h, b, FreeTag(sum))  OBVIOUS
<1>15. PICK f2 : f2 = Write(f, c - 1, FreeTag(sum))  OBVIOUS
<1>16. PICK f3 : f3 = Unlink(f2, m)  OBVIOUS
<1>17. PICK f4 : f4 = PushFront(f3, b)  OBVIOUS
<1>18. PICK g : g = Count(f4, n + 2, -n, -2)  OBVIOUS
<1>19. t = [s EXCEPT !.merged = TRUE, !.heap = g]
  <2>1. ~(m = Words \/ TagAt(h, m).inUse)  BY <1>7
  <2>2. /\ (IF s.merged THEN FREE_BLOCK_HEADER_SIZE ELSE USED_BLOCK_HEADER_SIZE) = USED_BLOCK_HEADER_SIZE
        /\ SizeAt(s.heap, s.block) = n /\ SizeAt(s.heap, m) = q
        /\ s.block + USED_BLOCK_HEADER_SIZE + n + FOOTER_SIZE = m
    BY <1>3, <1>5, <1>9
  <2>3. TagAt(s.heap, m + FREE_BLOCK_HEADER_SIZE + q).inUse = FALSE
    BY <1>5, <1>9, <1>12, <1>13
  <2>4. g = Count(PushFront(Unlink(Write(Write(s.heap, s.block, Tag(sum, FALSE)),
                               m + FREE_BLOCK_HEADER_SIZE + q, Tag(sum, FALSE)), m), s.block), n + 2, -n, -2)
    BY <1>5, <1>12, <1>13, <1>14, <1>15, <1>16, <1>17, <1>18
  <2>5. s.merged = FALSE /\ ~(m = Words \/ TagAt(s.heap, m).inUse)  BY <1>5, <2>1
  <2> QED  BY <1>13, <2>2, <2>3, <2>4, <2>5 DEF CoalesceSuccessor
<1>20. t.merged = TRUE /\ t.heap = g  BY <1>5, <1>19
<1>21. f \in HeapRec /\ SameBook(h, f) /\ WroteTags(h, f, b, b, FreeTag(sum))
  BY <1>1, <1>4, <1>12, <1>14, Written
<1>22. f2 \in HeapRec /\ SameBook(f, f2) /\ WroteTags(f, f2, c - 1, c - 1, FreeTag(sum))
  <2>1. c - 1 \in Int  BY <1>10
  <2> QED  BY <1>12, <1>15, <1>21, <2>1, Written
<1>23. ListOf(f2.list, FreeStarts(k)) /\ m \in FreeStarts(k) /\ b \notin FreeStarts(k) \ {m}
  BY <1>1, <1>7, <1>21, <1>22 DEF SameBook, FreeStarts
<1>24. f3 \in HeapRec /\ SameTags(f2, f3) /\ SameCounts(f2, f3) /\ ListOf(f3.list, FreeStarts(k) \ {m})
  BY <1>16, <1>22, <1>23, Unlinked
<1>25. f4 \in HeapRec /\ SameTags(f3, f4) /\ SameCounts(f3, f4)
        /\ ListOf(f4.list, (FreeStarts(k) \ {m}) \cup {b})
  BY <1>17, <1>23, <1>24, PushedFront
<1>26. g \in HeapRec /\ SameTags(f4, g) /\ g.list = f4.list /\ CountedBy(f4, g, n + 2, -n, -2)
  <2>1. n + 2 \in Int /\ -n \in Int /\ -2 \in Int  BY <1>4
  <2> QED  BY <1>18, <1>25, <2>1, Counted
<1>27. CountedBy(h, g, n + 2, -n, -2)
  BY <1>21, <1>22, <1>24, <1>25, <1>26 DEF SameBook, SameCounts, CountedBy
<1>28. \A a \in Pool : g.tag[a] = IF a = b \/ a = c - 1 THEN FreeTag(sum) ELSE h.tag[a]
  BY <1>21, <1>22, <1>24, <1>25, <1>26 DEF SameTags, WroteTags
<1>29. PICK k2 \in [Pool -> Kinds], e2 \in [Pool -> 1..Words] : MergedAs(k2, e2, k, e, b, m, "free")
  <2>1. k[b] # "none" /\ "free" \in BlockKinds  BY DEF BlockKinds
  <2> QED  BY <1>1, <1>2, <1>7, <2>1, MergeExists
<1>30. /\ Layout(k2, e2) /\ Splits(k2, e2, k, e, b, m) /\ k2[b] = "free"  BY <1>29 DEF MergedAs
<1>31. /\ k2[m] = "none" /\ e2[b] = c
       /\ \A y \in Pool : y # b /\ y # m => k[y] = k2[y] /\ e[y] = e2[y]
  BY <1>8, <1>30 DEF Splits
<1>32. SameBut(h.tag, g.tag, b, c)
  <2> SUFFICES ASSUME NEW a \in Pool, a < b \/ c <= a PROVE g.tag[a] = h.tag[a]
    BY DEF SameBut
  <2>1. a # b /\ a # c - 1  BY <1>4, <1>10, PoolSize DEF Pool
  <2> QED  BY <1>28, <2>1
<1>33. Tagged(g.tag, "free", b, c)
  <2>1. g.tag[b] = FreeTag(sum) /\ g.tag[c - 1] = FreeTag(sum)  BY <1>9, <1>28
  <2> QED  BY <1>10, <2>1 DEF Tagged
<1>34. ListOf(g.list, FreeStarts(k2))
  <2>1. FreeStarts(k2) = (FreeStarts(k) \ {m}) \cup {b}
    <3>1. b # m  BY <1>4, <1>3
    <3> QED  BY <1>7, <1>30, <1>31, <3>1 DEF FreeStarts
  <2> QED  BY <1>25, <1>26, <2>1
<1>35. Described(g, HeldOf(k2, e2), ls, k2, e2)
  <2>1. k[b] # "lost" /\ k[m] # "lost"  BY <1>7
  <2>2. PICK u \in Int, v \in Int, w \in Int : u = n + 2 /\ v = -n /\ w = -2  BY <1>4
  <2>3. /\ FreeIn(k[b], b, m) = 0 /\ FreeIn(k[m], m, c) = c - m - 4
        /\ UsedIn(k[b], b, m) = m - b - 2 /\ UsedIn(k[m], m, c) = 0
    BY <1>7 DEF FreeIn, UsedIn
  <2>4. /\ u = (c - b - 4) - FreeIn(k[b], b, m) - FreeIn(k[m], m, c)
        /\ v = 0 - UsedIn(k[b], b, m) - UsedIn(k[m], m, c)
        /\ u + v + w = 0
    BY <1>4, <1>10, <2>2, <2>3
  <2>5. CountedBy(h, g, u, v, w)  BY <1>27, <2>2
  <2>6. /\ u = (e2[b] - b - 4) - FreeIn(k[b], b, m) - FreeIn(k[m], m, e2[b])
        /\ v = 0 - UsedIn(k[b], b, m) - UsedIn(k[m], m, e2[b])
        /\ SameBut(h.tag, g.tag, b, e2[b]) /\ Tagged(g.tag, "free", b, e2[b])
    BY <1>31, <1>32, <1>33, <2>4
  <2> QED  BY <1>26, <1>29, <1>34, <2>1, <2>4, <2>5, <2>6, MergeDescribed
<1>36. HeldOf(k2, e2) = Without(lv, b + 1)
  <2>1. SameUsedBut(k, e, k2, e2, b)
    BY <1>7, <1>30, <1>31 DEF SameUsedBut
  <2> QED  BY <1>1, <1>30, <2>1, HeldRemoved
<1>37. SeamedBut(k, e, S, b)  BY DEF Seamed, SeamedBut
<1>38. SeamedBut(k2, e2, S, b) /\ Guarded(k2, e2)
  BY <1>1, <1>29, <1>37, MergedButOne
<1>39. Seamed(k2, e2, S)
  BY <1>1, <1>7, <1>29, <1>37, <1>38, MergedNow
<1> QED  BY <1>20, <1>35, <1>36, <1>38, <1>39 DEF Sound

LEMMA AloneDescribed ==
    ASSUME NEW h, NEW lv, NEW ls, NEW k, NEW e, NEW S, Described(h, lv, ls, k, e),
           Seamed(k, e, S), Guarded(k, e),
           NEW b \in Pool, k[b] = "used", NoneFreeBefore(k, e, b),
           e[b] \in Pool => k[e[b]] # "free", e[b] - b >= 4,
           NEW g, g = ConvertAlone(h, b)
    PROVE  Sound(g, Without(lv, b + 1), ls, S)
<1>1. /\ Layout(k, e) /\ AllLong(k, e) /\ h \in HeapRec /\ TagsTrue(h.tag, k, e)
      /\ ListOf(h.list, FreeStarts(k)) /\ CountsTrue(h, k, e)
      /\ lv = HeldOf(k, e) /\ ls = LostOf(k, e)
      /\ k \in [Pool -> Kinds] /\ e \in [Pool -> 1..Words]
  BY DEF Described, Layout
<1>2. PICK c, n, r : c = e[b] /\ n = e[b] - b - 2 /\ r = e[b] - b - 4  OBVIOUS
<1>3. /\ c \in 1..Words /\ c - 1 \in Pool /\ n \in 1..(Words - 1) /\ SizeAt(h, b) = n
  BY <1>2, UsedBlockAt
<1>4. /\ b \in Int /\ c \in Int /\ n \in Int /\ r \in Int /\ b >= 0 /\ c = b + n + 2 /\ r = n - 2
      /\ r \in 0..(Words - 1) /\ b + 3 + r = c - 1 /\ b < c
  BY <1>2, <1>3, PoolSize DEF Pool
<1>5. /\ FREE_BLOCK_HEADER_SIZE - USED_BLOCK_HEADER_SIZE = 2
  BY DEF FREE_BLOCK_HEADER_SIZE, USED_BLOCK_HEADER_SIZE
<1>6. PICK f : f = WriteFree(h, b, r)  OBVIOUS
<1>7. PICK f2 : f2 = PushFront(f, b)  OBVIOUS
<1>8. f \in HeapRec /\ SameBook(h, f) /\ WroteTags(h, f, b, b + 3 + r, FreeTag(r))
  BY <1>1, <1>4, <1>6, WrittenFree
<1>9. ListOf(f.list, FreeStarts(k)) /\ b \notin FreeStarts(k)
  BY <1>1, <1>8 DEF SameBook, FreeStarts
<1>10. f2 \in HeapRec /\ SameTags(f, f2) /\ SameCounts(f, f2) /\ ListOf(f2.list, FreeStarts(k) \cup {b})
  BY <1>7, <1>8, <1>9, PushedFront
<1>11. SizeAt(f2, b) = r
  <2>1. f2.tag[b] = FreeTag(r)  BY <1>8, <1>10 DEF SameTags, WroteTags
  <2>2. DOMAIN f2.tag = Pool  BY <1>10 DEF HeapRec
  <2> QED  BY <2>1, <2>2 DEF SizeAt, TagAt, FreeTag
<1>12. g = Count(f2, r, -n, 2)
  BY <1>3, <1>4, <1>5, <1>6, <1>7, <1>11 DEF ConvertAlone
<1>13. g \in HeapRec /\ SameTags(f2, g) /\ g.list = f2.list /\ CountedBy(f2, g, r, -n, 2)
  <2>1. r \in Int /\ -n \in Int /\ 2 \in Int  BY <1>4
  <2> QED  BY <1>10, <1>12, <2>1, Counted
<1>14. CountedBy(h, g, r, -n, 2)
  BY <1>8, <1>10, <1>13 DEF SameBook, SameCounts, CountedBy
<1>15. \A a \in Pool : g.tag[a] = IF a = b \/ a = c - 1 THEN FreeTag(r) ELSE h.tag[a]
  BY <1>4, <1>8, <1>10, <1>13 DEF SameTags, WroteTags
<1>16. PICK k2 : k2 = [k EXCEPT ![b] = "free"]  OBVIOUS
<1>17. Retags(k, k2, b, "free") BY <1>16 DEF Retags, Kinds
<1>18. k2 \in [Pool -> Kinds] /\ k2[b] = "free" /\ \A x \in Pool : x # b => k2[x] = k[x]
  BY <1>1, <1>16 DEF Kinds
<1>19. Layout(k2, e)  BY <1>1, <1>17, RetagTiles
<1>20. e[b] - b >= 4 /\ Long("free", b, e[b])
  BY <1>2, <1>3, <1>4 DEF Long
<1>21. AllLong(k2, e)
  BY <1>1, <1>18, <1>20 DEF AllLong
<1>22. SameBut(h.tag, g.tag, b, e[b])
  <2> SUFFICES ASSUME NEW a \in Pool, a < b \/ c <= a PROVE g.tag[a] = h.tag[a]
    BY <1>2 DEF SameBut
  <2>1. a # b /\ a # c - 1  BY <1>4, PoolSize DEF Pool
  <2> QED  BY <1>15, <2>1
<1>23. Tagged(g.tag, "free", b, e[b])
  <2>1. g.tag[b] = FreeTag(r) /\ g.tag[c - 1] = FreeTag(r)  BY <1>3, <1>15
  <2> QED  BY <1>2, <2>1 DEF Tagged
<1>24. TagsTrue(g.tag, k2, e)
  BY <1>1, <1>17, <1>22, <1>23, RetagTags
<1>25. ListOf(g.list, FreeStarts(k2))
  <2>1. FreeStarts(k2) = FreeStarts(k) \cup {b}  BY <1>18 DEF FreeStarts
  <2> QED  BY <1>10, <1>13, <2>1
<1>26. CountsTrue(g, k2, e)
  <2>1. /\ Cardinality(FreeOf(k2, e)) = Cardinality(FreeOf(k, e))
                 - FreeIn(k[b], b, e[b]) + FreeIn("free", b, e[b])
        /\ Cardinality(UsedOf(k2, e)) = Cardinality(UsedOf(k, e))
                 - UsedIn(k[b], b, e[b]) + UsedIn("free", b, e[b])
    BY <1>1, <1>17, <1>20, RetagCounts
  <2>2. /\ FreeIn(k[b], b, e[b]) = 0 /\ FreeIn("free", b, e[b]) = r
        /\ UsedIn(k[b], b, e[b]) = n /\ UsedIn("free", b, e[b]) = 0
    BY <1>2 DEF FreeIn, UsedIn
  <2>3. Cardinality(FreeOf(k, e)) \in Nat /\ Cardinality(UsedOf(k, e)) \in Nat
    BY PartsFinite
  <2>4. /\ Cardinality(FreeOf(k2, e)) = Cardinality(FreeOf(k, e)) + r
        /\ Cardinality(UsedOf(k2, e)) = Cardinality(UsedOf(k, e)) - n
    BY <1>4, <2>1, <2>2, <2>3
  <2>5. /\ g.freeMem = h.freeMem + r /\ g.usedMem = h.usedMem + (-n)
        /\ g.reservedMem = h.reservedMem + 2
    BY <1>14 DEF CountedBy
  <2>6. h.freeMem \in Int /\ h.usedMem \in Int /\ h.reservedMem \in Int
    BY <1>1 DEF HeapRec
  <2>7. /\ h.freeMem = Cardinality(FreeOf(k, e)) /\ h.usedMem = Cardinality(UsedOf(k, e))
        /\ h.freeMem + h.usedMem + h.reservedMem = Words
    BY <1>1 DEF CountsTrue
  <2>8. g.freeMem + g.usedMem + g.reservedMem = Words
    BY <1>4, <2>5, <2>6, <2>7
  <2>9. g.usedMem = h.usedMem - n  BY <1>4, <2>5, <2>6
  <2> QED  BY <2>4, <2>5, <2>7, <2>8, <2>9 DEF CountsTrue
<1>27. HeldOf(k2, e) = Without(lv, b + 1)
  <2>1. SameUsedBut(k, e, k2, e, b)  BY <1>18 DEF SameUsedBut
  <2> QED  BY <1>1, <1>18, <2>1, HeldRemoved
<1>28. ls = LostOf(k2, e)
  BY <1>1, <1>18 DEF LostOf
<1>29. Seamed(k2, e, S)
  <2> SUFFICES ASSUME NEW x \in Pool, k2[x] = "free", e[x] \in Pool, k2[e[x]] = "free"
               PROVE  e[x] \in S
    BY DEF Seamed
  <2>1. CASE x = b
    <3>1. e[b] # b  BY <1>2, <1>4
    <3> QED  BY <1>18, <2>1, <3>1
  <2>2. CASE x # b
    <3>1. k[x] = "free" /\ e[x] # b  BY <1>18, <2>2 DEF NoneFreeBefore
    <3>2. k[e[x]] = "free"  BY <1>18, <3>1
    <3> QED  BY <3>1, <3>2 DEF Seamed
  <2> QED  BY <2>1, <2>2
<1>31. Guarded(k2, e)
  BY <1>18 DEF Guarded, Clear
<1>30. Described(g, Without(lv, b + 1), ls, k2, e)
  BY <1>13, <1>19, <1>21, <1>24, <1>25, <1>26, <1>27, <1>28 DEF Described
<1> QED  BY <1>1, <1>18, <1>29, <1>30, <1>31 DEF Sound

\* A used block that is long enough to be free, or has a free neighbour.
HasRoom(k, e, b) ==
    \/ e[b] - b >= 4
    \/ \E x \in Pool : k[x] = "free" /\ e[x] = b
    \/ e[b] \in Pool /\ k[e[b]] = "free"

\* free, whichever neighbours the block has.
LEMMA FreeDescribed ==
    ASSUME NEW h, NEW lv, NEW ls, NEW k, NEW e, NEW S, Described(h, lv, ls, k, e),
           Seamed(k, e, S), Guarded(k, e),
           NEW b \in Pool, k[b] = "used", NoneLostBefore(k, e, b), HasRoom(k, e, b)
    PROVE  Sound(FreeBlock(h, b), Without(lv, b + 1), ls, S)
<1>1. PICK s : s = CoalescePredecessor(h, b)  OBVIOUS
<1>2. PICK t : t = CoalesceSuccessor(s)  OBVIOUS
<1>3. FreeBlock(h, b) = IF t.merged THEN t.heap ELSE ConvertAlone(t.heap, b)
  BY <1>1, <1>2 DEF FreeBlock
<1>4. PredecessorSteps(h, lv, ls, k, e, S, b, s)  BY <1>1, PredecessorStep
<1>5. CASE s = SkipPredecessor(h, b) /\ NoneFreeBefore(k, e, b)
  <2>1. Behind(h, k, e[b])
    <3>1. k[b] # "none" /\ Clear(k, e, b)  BY DEF Guarded
    <3> QED  BY <3>1, Successor
  <2>2. CASE e[b] \in Pool /\ e[b] # Words /\ k[e[b]] = "free" /\ TagAt(h, e[b]).inUse = FALSE
    <3>1. t.merged = TRUE /\ Sound(t.heap, Without(lv, b + 1), ls, S)
      BY <1>2, <1>5, <2>2, SuccessorOfUsed
    <3> QED  BY <1>3, <3>1
  <2>3. CASE e[b] = Words \/ (e[b] \in Pool /\ e[b] # Words /\ k[e[b]] = "used" /\ TagAt(h, e[b]).inUse = TRUE)
    <3>1. SizeAt(h, b) = e[b] - b - 2 /\ e[b] \in Int /\ b \in Int
      BY UsedBlockAt, PoolSize DEF Pool
    <3>2. s.heap = h /\ s.merged = FALSE /\ s.block = b
      BY <1>5 DEF SkipPredecessor
    <3>3. s.block + USED_BLOCK_HEADER_SIZE + SizeAt(s.heap, s.block) + FOOTER_SIZE = e[b]
      BY <3>1, <3>2 DEF USED_BLOCK_HEADER_SIZE, FOOTER_SIZE
    <3>4. t = s
      <4>1. (IF s.merged THEN FREE_BLOCK_HEADER_SIZE ELSE USED_BLOCK_HEADER_SIZE) = USED_BLOCK_HEADER_SIZE
        BY <3>2
      <4>2. e[b] = Words \/ TagAt(s.heap, e[b]).inUse  BY <2>3, <3>2
      <4> QED  BY <1>2, <3>3, <4>1, <4>2 DEF CoalesceSuccessor
    <3>5. e[b] \in Pool => k[e[b]] # "free"
      BY <2>3, PoolSize DEF Pool
    <3>6. PICK g : g = ConvertAlone(h, b)  OBVIOUS
    <3>7. Sound(g, Without(lv, b + 1), ls, S)
      <4>1. e[b] - b >= 4  BY <1>5, <3>5 DEF HasRoom, NoneFreeBefore
      <4> QED  BY <1>5, <3>5, <3>6, <4>1, AloneDescribed
    <3> QED  BY <1>3, <3>2, <3>4, <3>6, <3>7
  <2> QED  BY <2>1, <2>2, <2>3 DEF Behind
<1>6. ASSUME NEW g \in HeapRec, NEW x \in Pool,
             NEW k2 \in [Pool -> Kinds], NEW e2 \in [Pool -> 1..Words],
             s = [heap |-> g, merged |-> TRUE, block |-> x],
             Described(g, Without(lv, b + 1), ls, k2, e2),
             k2[x] = "free", Clear(k2, e2, x),
             SeamedBut(k2, e2, S, x), Guarded(k2, e2)
      PROVE  t.merged = TRUE /\ Sound(t.heap, Without(lv, b + 1), ls, S)
  BY <1>2, <1>6, SuccessorOfFree
<1> QED  BY <1>3, <1>4, <1>5, <1>6 DEF PredecessorSteps

----------------------------------------------------------------------------
\* mallocAligned.

\* The tags and the list of the two blocks of a cut at s, short of c.
WroteCut(h, g, b, s, c) ==
    \A x \in Pool : g.tag[x] =
        IF x = b \/ x = s - 1 THEN FreeTag(s - b - 4)
        ELSE IF x = s \/ x = c - 4 THEN FreeTag(c - s - 7)
        ELSE h.tag[x]

\* Two free blocks and a gap where the first layout has a free one.
CutAs(k, e, k2, e2, b, s, z) ==
    /\ Layout(k2, e2) /\ s \in Pool /\ z \in Pool
    /\ k[s] = "none" /\ k[z] = "none"
    /\ k2[b] = "free" /\ k2[s] = "free" /\ k2[z] = "lost"
    /\ e2[b] = s /\ e2[s] = z /\ e2[z] = e[b]
    /\ \A x \in Pool : x # b /\ x # s /\ x # z => k2[x] = k[x] /\ e2[x] = e[x]

CutCounts(k, e, k2, e2) ==
    /\ Cardinality(FreeOf(k2, e2)) = Cardinality(FreeOf(k, e)) - 4
    /\ Cardinality(UsedOf(k2, e2)) = Cardinality(UsedOf(k, e))

LEMMA CutExists ==
    ASSUME NEW k, NEW e, Layout(k, e), AllLong(k, e), NEW b \in Pool, k[b] = "free",
           NEW s \in Int, NEW z \in Int, s - b >= 4, z - s >= 4, z = e[b] - 3
    PROVE  \E k2 \in [Pool -> Kinds], e2 \in [Pool -> 1..Words] :
              /\ CutAs(k, e, k2, e2, b, s, z)
              /\ AllLong(k2, e2)
              /\ CutCounts(k, e, k2, e2)
<1>1. e[b] \in 1..Words /\ e[b] \in Int /\ b \in Int /\ b >= 0  BY BlockIn, PoolSize DEF Pool
<1>2. b < s /\ s < e[b] /\ s < z /\ z < e[b]  BY <1>1
<1>3. s \in Pool /\ z \in Pool  BY <1>1, <1>2, PoolSize DEF Pool
<1>4. PICK k1 \in [Pool -> Kinds], e1 \in [Pool -> 1..Words] :
          SplitAs(k, e, k1, e1, b, s, "free", "free")
  <2>1. k[b] # "none" /\ "free" \in BlockKinds  BY DEF BlockKinds
  <2> QED  BY <1>2, <2>1, SplitExists
<1>5. /\ Layout(k1, e1) /\ Splits(k, e, k1, e1, b, s) /\ k1[b] = "free" /\ k1[s] = "free"
  BY <1>4 DEF SplitAs
<1>6. /\ e1[b] = s /\ e1[s] = e[b] /\ k[s] = "none"
      /\ \A x \in Pool : x # b /\ x # s => k1[x] = k[x] /\ e1[x] = e[x]
  BY <1>5 DEF Splits
<1>7. PICK k2 \in [Pool -> Kinds], e2 \in [Pool -> 1..Words] :
          SplitAs(k1, e1, k2, e2, s, z, "free", "lost")
  <2>1. k1[s] # "none" /\ "free" \in BlockKinds /\ "lost" \in BlockKinds
    BY <1>5 DEF BlockKinds
  <2>2. s < z /\ z < e1[s]  BY <1>2, <1>6
  <2> QED  BY <1>3, <1>5, <2>1, <2>2, SplitExists
<1>8. /\ Layout(k2, e2) /\ Splits(k1, e1, k2, e2, s, z) /\ k2[s] = "free" /\ k2[z] = "lost"
  BY <1>7 DEF SplitAs
<1>9. /\ e2[s] = z /\ e2[z] = e[b] /\ k1[z] = "none"
      /\ \A x \in Pool : x # s /\ x # z => k2[x] = k1[x] /\ e2[x] = e1[x]
  BY <1>6, <1>8 DEF Splits
<1>10. b # s /\ b # z /\ s # z  BY <1>1, <1>2
<1>11. CutAs(k, e, k2, e2, b, s, z)
  BY <1>3, <1>5, <1>6, <1>8, <1>9, <1>10 DEF CutAs
<1>12. AllLong(k1, e1)
  <2> SUFFICES ASSUME NEW x \in Pool PROVE Long(k1[x], x, e1[x])
    BY DEF AllLong
  <2>1. CASE x = b  BY <1>1, <1>5, <1>6, <2>1 DEF Long
  <2>2. CASE x = s  BY <1>1, <1>5, <1>6, <2>2 DEF Long
  <2>3. CASE x # b /\ x # s  BY <1>6, <2>3 DEF AllLong
  <2> QED  BY <2>1, <2>2, <2>3
<1>13. AllLong(k2, e2)
  <2> SUFFICES ASSUME NEW x \in Pool PROVE Long(k2[x], x, e2[x])
    BY DEF AllLong
  <2>1. CASE x = s  BY <1>8, <1>9, <2>1 DEF Long
  <2>2. CASE x = z  BY <1>8, <2>2 DEF Long
  <2>3. CASE x # s /\ x # z  BY <1>9, <1>12, <2>3 DEF AllLong
  <2> QED  BY <2>1, <2>2, <2>3
<1>14. CutCounts(k, e, k2, e2)
  <2>1. /\ Cardinality(FreeOf(k1, e1)) = Cardinality(FreeOf(k, e)) - FreeIn(k[b], b, e[b])
                 + FreeIn(k1[b], b, s) + FreeIn(k1[s], s, e[b])
        /\ Cardinality(UsedOf(k1, e1)) = Cardinality(UsedOf(k, e)) - UsedIn(k[b], b, e[b])
                 + UsedIn(k1[b], b, s) + UsedIn(k1[s], s, e[b])
    BY <1>5, <1>12, SplitCounts
  <2>2. /\ Cardinality(FreeOf(k2, e2)) = Cardinality(FreeOf(k1, e1)) - FreeIn(k1[s], s, e1[s])
                 + FreeIn(k2[s], s, z) + FreeIn(k2[z], z, e1[s])
        /\ Cardinality(UsedOf(k2, e2)) = Cardinality(UsedOf(k1, e1)) - UsedIn(k1[s], s, e1[s])
                 + UsedIn(k2[s], s, z) + UsedIn(k2[z], z, e1[s])
    BY <1>5, <1>8, <1>12, <1>13, SplitCounts
  <2>3. /\ FreeIn(k[b], b, e[b]) = e[b] - b - 4 /\ UsedIn(k[b], b, e[b]) = 0
        /\ FreeIn(k1[b], b, s) = s - b - 4 /\ UsedIn(k1[b], b, s) = 0
        /\ FreeIn(k1[s], s, e[b]) = e[b] - s - 4 /\ UsedIn(k1[s], s, e[b]) = 0
        /\ FreeIn(k2[s], s, z) = z - s - 4 /\ UsedIn(k2[s], s, z) = 0
        /\ FreeIn(k2[z], z, e[b]) = e[b] - z /\ UsedIn(k2[z], z, e[b]) = 0
    BY <1>5, <1>8 DEF FreeIn, UsedIn
  <2>4. /\ Cardinality(FreeOf(k, e)) \in Nat /\ Cardinality(UsedOf(k, e)) \in Nat
        /\ Cardinality(FreeOf(k1, e1)) \in Nat /\ Cardinality(UsedOf(k1, e1)) \in Nat
    BY PartsFinite
  <2>5. /\ Cardinality(FreeOf(k1, e1)) = Cardinality(FreeOf(k, e)) - 4
        /\ Cardinality(UsedOf(k1, e1)) = Cardinality(UsedOf(k, e))
    BY <1>1, <2>1, <2>3, <2>4
  <2>6. /\ Cardinality(FreeOf(k2, e2)) = Cardinality(FreeOf(k1, e1))
        /\ Cardinality(UsedOf(k2, e2)) = Cardinality(UsedOf(k1, e1))
    BY <1>1, <1>6, <2>2, <2>3, <2>4
  <2> QED  BY <2>5, <2>6 DEF CutCounts
<1> QED  BY <1>11, <1>13, <1>14

\* The second block of a cut starts on the word before the aligned address.
LEMMA AlignedInt ==
    ASSUME NEW b \in Pool, NEW al \in Nat \ {0}
    PROVE  Aligned(b, al) \in Int
<1>1. b + USED_BLOCK_HEADER_SIZE + al - 1 \in Int
  BY PoolSize DEF Pool, USED_BLOCK_HEADER_SIZE
<1>2. ((b + USED_BLOCK_HEADER_SIZE + al - 1) \div al) \in Int  BY <1>1
<1> QED  BY <1>2 DEF Aligned

LEMMA CutFields ==
    ASSUME NEW h \in HeapRec, NEW F, ListOf(h.list, F), NEW b \in Pool, NEW c \in 1..Words,
           SizeAt(h, b) = c - b - 4,
           NEW al \in Nat \ {0}, NEW s \in Pool, Aligned(b, al) = s + 1, s \notin F,
           s - b >= 4, c - s >= 7,
           NEW g, g = CutAligned(h, b, al)
    PROVE  /\ g \in HeapRec
           /\ WroteCut(h, g, b, s, c)
           /\ ListOf(g.list, F \cup {s})
           /\ CountedBy(h, g, -4, 0, 4)
<1>0. b \in Int /\ s \in Int /\ c \in Int /\ b >= 0 /\ c <= Words  BY PoolSize DEF Pool
<1>1. PICK n1 \in Int, n2 \in Int : n1 = s - b - 4 /\ n2 = c - s - 7  BY <1>0
<1>2. n1 \in 0..(Words - 1) /\ n2 \in 0..(Words - 1) /\ b + 3 + n1 = s - 1 /\ s + 3 + n2 = c - 4
  BY <1>0, <1>1, PoolSize DEF Pool
<1>3. /\ Aligned(b, al) - USED_BLOCK_HEADER_SIZE = s
      /\ SizeAt(h, b) - (s + FREE_BLOCK_HEADER_SIZE - b) = n2
      /\ s - FOOTER_SIZE - (b + FREE_BLOCK_HEADER_SIZE) = n1
      /\ FREE_BLOCK_HEADER_SIZE + FOOTER_SIZE = 4
  BY <1>0, <1>1 DEF USED_BLOCK_HEADER_SIZE, FREE_BLOCK_HEADER_SIZE, FOOTER_SIZE
<1>4. PICK h1 : h1 = WriteFree(h, s, n2)  OBVIOUS
<1>5. PICK h2 : h2 = PushFront(h1, s)  OBVIOUS
<1>6. PICK h3 : h3 = WriteFree(h2, b, n1)  OBVIOUS
<1>7. g = Count(h3, -4, 0, 4)
  BY <1>3, <1>4, <1>5, <1>6 DEF CutAligned
<1>8. h1 \in HeapRec /\ SameBook(h, h1) /\ WroteTags(h, h1, s, s + 3 + n2, FreeTag(n2))
  BY <1>2, <1>4, WrittenFree
<1>9. ListOf(h1.list, F)  BY <1>8 DEF SameBook
<1>10. h2 \in HeapRec /\ SameTags(h1, h2) /\ SameCounts(h1, h2) /\ ListOf(h2.list, F \cup {s})
  BY <1>5, <1>8, <1>9, PushedFront
<1>11. h3 \in HeapRec /\ SameBook(h2, h3) /\ WroteTags(h2, h3, b, b + 3 + n1, FreeTag(n1))
  BY <1>2, <1>6, <1>10, WrittenFree
<1>12. g \in HeapRec /\ SameTags(h3, g) /\ g.list = h3.list /\ CountedBy(h3, g, -4, 0, 4)
  <2>1. -4 \in Int /\ 0 \in Int /\ 4 \in Int  OBVIOUS
  <2> QED  BY <1>7, <1>11, <2>1, Counted
<1>13. CountedBy(h, g, -4, 0, 4)
  BY <1>8, <1>10, <1>11, <1>12 DEF SameBook, SameCounts, CountedBy
<1>14. ListOf(g.list, F \cup {s})  BY <1>10, <1>11, <1>12 DEF SameBook
<1>15. ASSUME NEW x \in Pool
       PROVE  g.tag[x] = IF x = b \/ x = s - 1 THEN FreeTag(n1)
                         ELSE IF x = s \/ x = c - 4 THEN FreeTag(n2)
                         ELSE h.tag[x]
  <2>1. g.tag[x] = h3.tag[x] /\ h2.tag[x] = h1.tag[x]  BY <1>10, <1>12 DEF SameTags
  <2>2. h3.tag[x] = IF x = b \/ x = s - 1 THEN FreeTag(n1) ELSE h2.tag[x]
    BY <1>2, <1>11 DEF WroteTags
  <2>3. h1.tag[x] = IF x = s \/ x = c - 4 THEN FreeTag(n2) ELSE h.tag[x]
    BY <1>2, <1>8 DEF WroteTags
  <2> QED  BY <2>1, <2>2, <2>3
<1>16. WroteCut(h, g, b, s, c)  BY <1>1, <1>15 DEF WroteCut
<1> QED  BY <1>12, <1>13, <1>14, <1>16

\* Where the second block starts, with room on both sides; the words it leaves out.
CutsAt(e, b, al, s) == Aligned(b, al) = s + 1 /\ s - b >= 4 /\ e[b] - s >= 7
Gap(e, b) == <<e[b] - 3, e[b]>>

CutTo(g, lv, ls, S, s, c) ==
    \E k \in [Pool -> Kinds], e \in [Pool -> 1..Words] :
        /\ Described(g, lv, ls, k, e) /\ s \in Pool /\ k[s] = "free" /\ e[s] = c - 3
        /\ Seamed(k, e, S \cup {s}) /\ Guarded(k, e)

\* The cut of a free block: two free blocks, and three words no block has.
LEMMA CutDescribed ==
    ASSUME NEW h, NEW lv, NEW ls, NEW k, NEW e, Described(h, lv, ls, k, e),
           NEW S, Seamed(k, e, S), Guarded(k, e),
           NEW b \in Pool, k[b] = "free",
           NEW al \in Nat \ {0}, NEW s \in Int, CutsAt(e, b, al, s),
           NEW g, g = CutAligned(h, b, al), NEW ls2, ls2 = ls \cup {Gap(e, b)}
    PROVE  CutTo(g, lv, ls2, S, s, e[b])
<1>0. s - b >= 4 /\ e[b] - s >= 7 /\ Aligned(b, al) = s + 1  BY DEF CutsAt
<1>1. /\ Layout(k, e) /\ AllLong(k, e) /\ h \in HeapRec /\ TagsTrue(h.tag, k, e)
      /\ ListOf(h.list, FreeStarts(k)) /\ CountsTrue(h, k, e)
      /\ lv = HeldOf(k, e) /\ ls = LostOf(k, e)
  BY DEF Described
<1>2. PICK c \in Int, z \in Int : c = e[b] /\ z = c - 3  BY <1>1, BlockIn
<1>3. c \in 1..Words /\ SizeAt(h, b) = c - b - 4  BY <1>2, FreeBlockAt
<1>4. PICK k2 \in [Pool -> Kinds], e2 \in [Pool -> 1..Words] :
          CutAs(k, e, k2, e2, b, s, z) /\ AllLong(k2, e2) /\ CutCounts(k, e, k2, e2)
  <2>1. z - s >= 4 /\ z = e[b] - 3  BY <1>0, <1>2
  <2> QED  BY <1>0, <1>1, <2>1, CutExists
<1>5. /\ Layout(k2, e2) /\ s \in Pool /\ z \in Pool
      /\ k[s] = "none" /\ k[z] = "none"
      /\ k2[b] = "free" /\ k2[s] = "free" /\ k2[z] = "lost"
      /\ e2[b] = s /\ e2[s] = z /\ e2[z] = c
      /\ \A x \in Pool : x # b /\ x # s /\ x # z => k2[x] = k[x] /\ e2[x] = e[x]
  BY <1>2, <1>4 DEF CutAs
<1>6. b \in Int /\ b >= 0 /\ b < s /\ s < z /\ z < c /\ s - b >= 4 /\ c - s >= 7 /\ c <= Words
      /\ z = c - 3
  <2>1. c - s >= 7 /\ z = c - 3 /\ s - b >= 4  BY <1>0, <1>2
  <2>2. b \in Int /\ b >= 0 /\ c <= Words  BY <1>3, PoolSize DEF Pool
  <2> QED  BY <2>1, <2>2
<1>7. /\ g \in HeapRec /\ WroteCut(h, g, b, s, c)
      /\ ListOf(g.list, FreeStarts(k) \cup {s}) /\ CountedBy(h, g, -4, 0, 4)
  <2>1. s \notin FreeStarts(k)  BY <1>5 DEF FreeStarts
  <2> QED  BY <1>0, <1>1, <1>3, <1>5, <1>6, <2>1, CutFields
<1>8. \A x \in Pool : g.tag[x] =
          IF x = b \/ x = s - 1 THEN FreeTag(s - b - 4)
          ELSE IF x = s \/ x = c - 4 THEN FreeTag(c - s - 7)
          ELSE h.tag[x]
  BY <1>7 DEF WroteCut
<1>9. SameBut(h.tag, g.tag, b, c)
  <2> SUFFICES ASSUME NEW a \in Pool, a < b \/ c <= a PROVE g.tag[a] = h.tag[a]
    BY DEF SameBut
  <2>1. a # b /\ a # s - 1 /\ a # s /\ a # c - 4  BY <1>6, PoolSize DEF Pool
  <2> QED  BY <1>8, <2>1
<1>10. Tagged(g.tag, "free", b, s)
  <2>1. s - 1 \in Pool  BY <1>6, PoolSize DEF Pool
  <2>2. g.tag[b] = FreeTag(s - b - 4) /\ g.tag[s - 1] = FreeTag(s - b - 4)
    BY <1>8, <2>1
  <2> QED  BY <2>2 DEF Tagged
<1>11. Tagged(g.tag, "free", s, z)
  <2>1. c - 4 \in Pool /\ c - 4 = z - 1 /\ c - s - 7 = z - s - 4
        /\ c - 4 # b /\ c - 4 # s - 1 /\ s # b /\ s # s - 1
    BY <1>6, PoolSize DEF Pool
  <2>2. g.tag[s] = FreeTag(c - s - 7) /\ g.tag[c - 4] = FreeTag(c - s - 7)
    BY <1>5, <1>8, <2>1
  <2> QED  BY <2>1, <2>2 DEF Tagged
<1>12. TagsTrue(g.tag, k2, e2)
  <2> SUFFICES ASSUME NEW x \in Pool PROVE Tagged(g.tag, k2[x], x, e2[x])
    BY DEF TagsTrue
  <2>1. CASE x = b  BY <1>5, <1>10, <2>1
  <2>2. CASE x = s  BY <1>5, <1>11, <2>2
  <2>3. CASE x = z  BY <1>5, <2>3 DEF Tagged
  <2>4. CASE x # b /\ x # s /\ x # z
    <3>1. k2[x] = k[x] /\ e2[x] = e[x]  BY <1>5, <2>4
    <3>2. CASE k[x] = "none"  BY <3>1, <3>2 DEF Tagged
    <3>3. CASE k[x] # "none"
      <4>1. Tagged(h.tag, k[x], x, e[x]) /\ k[b] # "none"  BY <1>1 DEF TagsTrue
      <4>2. SameBut(h.tag, g.tag, b, e[b])  BY <1>2, <1>9
      <4> QED  BY <1>1, <2>4, <3>1, <3>3, <4>1, <4>2, TagsOfOthers
    <3> QED  BY <3>2, <3>3
  <2> QED  BY <2>1, <2>2, <2>3, <2>4
<1>13. ListOf(g.list, FreeStarts(k2))
  <2>1. FreeStarts(k2) = FreeStarts(k) \cup {s}  BY <1>5 DEF FreeStarts
  <2> QED  BY <1>7, <2>1
<1>14. CountsTrue(g, k2, e2)
  <2>1. /\ g.freeMem = h.freeMem + (-4) /\ g.usedMem = h.usedMem + 0
        /\ g.reservedMem = h.reservedMem + 4
    BY <1>7 DEF CountedBy
  <2>2. h.freeMem \in Int /\ h.usedMem \in Int /\ h.reservedMem \in Int
    BY <1>1 DEF HeapRec
  <2>3. /\ h.freeMem = Cardinality(FreeOf(k, e)) /\ h.usedMem = Cardinality(UsedOf(k, e))
        /\ h.freeMem + h.usedMem + h.reservedMem = Words
    BY <1>1 DEF CountsTrue
  <2>4. /\ Cardinality(FreeOf(k2, e2)) = Cardinality(FreeOf(k, e)) - 4
        /\ Cardinality(UsedOf(k2, e2)) = Cardinality(UsedOf(k, e))
    BY <1>4 DEF CutCounts
  <2> QED  BY <2>1, <2>2, <2>3, <2>4 DEF CountsTrue
<1>15. lv = HeldOf(k2, e2)
  <2>1. SameUsedBut(k, e, k2, e2, b)  BY <1>5 DEF SameUsedBut
  <2> QED  BY <1>1, <1>5, <2>1, HeldSame
<1>16. ls2 = LostOf(k2, e2)
  <2>1. /\ \A x \in Pool : k[x] = "lost" => k2[x] = "lost" /\ e2[x] = e[x]
        /\ \A x \in Pool : k2[x] = "lost" => x = z \/ (k[x] = "lost" /\ e2[x] = e[x])
        /\ Gap(e, b) = <<z, e2[z]>>
    BY <1>2, <1>5 DEF Gap
  <2> QED  BY <1>1, <1>5, <2>1 DEF LostOf
<1>17. Described(g, lv, ls2, k2, e2)
  BY <1>4, <1>5, <1>7, <1>12, <1>13, <1>14, <1>15, <1>16 DEF Described
<1>18. Seamed(k2, e2, S \cup {s})
  <2> SUFFICES ASSUME NEW x \in Pool, k2[x] = "free", e2[x] \in Pool, k2[e2[x]] = "free", e2[x] # s
               PROVE  e2[x] \in S
    BY DEF Seamed
  <2>1. x # b /\ x # s /\ x # z  BY <1>5
  <2>2. k[x] = "free" /\ e[x] = e2[x]  BY <1>5, <2>1
  <2>3. k[e[x]] = "free"  BY <1>5, <2>2
  <2> QED  BY <2>2, <2>3 DEF Seamed
<1>19. Guarded(k2, e2)
  <2> SUFFICES ASSUME NEW x \in Pool, k2[x] = "used", e2[x] \in Pool PROVE k2[e2[x]] # "lost"
    BY DEF Guarded, Clear
  <2>1. k[x] = "used" /\ e[x] = e2[x]  BY <1>5
  <2>2. k[e[x]] # "lost"  BY <2>1 DEF Guarded, Clear
  <2>3. e[x] # z
    <3>1. x # b /\ (e[x] <= b \/ e[b] <= x)  BY <1>1, <2>1, BlocksApart
    <3>2. x < e[x] /\ x \in Int /\ e[x] \in Int  BY <1>1, <2>1, BlockIn, PoolSize DEF Pool
    <3> QED  BY <1>2, <1>6, <3>1, <3>2
  <2> QED  BY <1>5, <2>1, <2>2, <2>3
<1> QED  BY <1>2, <1>5, <1>17, <1>18, <1>19 DEF CutTo

----------------------------------------------------------------------------
\* The first of the blocks that fit.

LEMMA MinIn ==
    ASSUME NEW S \in SUBSET Nat, S # {}
    PROVE  Min(S) \in S
<1>1. \E x \in S : \A y \in S : x <= y
  <2>1. IsWellFoundedOn(OpToRel(<, Nat), Nat)  BY NatLessThanWellFounded, Zenon
  <2>2. PICK x \in S : \A y \in S : <<y, x>> \notin OpToRel(<, Nat)
    BY <2>1, WFMin, Zenon
  <2>3. ASSUME NEW y \in S PROVE x <= y
    <3>1. ~(y < x)  BY <2>2, Zenon DEF OpToRel
    <3>2. x \in Nat /\ y \in Nat  OBVIOUS
    <3> QED  BY <3>1, <3>2
  <2> QED  BY <2>3
<1> QED  BY <1>1 DEF Min

\* The block at a place of the list is a free one.
LEMMA Listed ==
    ASSUME NEW s, NEW k, ListOf(s, FreeStarts(k)), NEW I \in SUBSET DOMAIN s, I # {}
    PROVE  /\ Min(I) \in I
           /\ s[Min(I)] \in Pool /\ k[s[Min(I)]] = "free"
<1>1. DOMAIN s = 1..Len(s) /\ Len(s) \in Nat  BY ListSet
<1>2. I \in SUBSET Nat  BY <1>1
<1>3. Min(I) \in I  BY <1>2, MinIn
<1>4. s[Min(I)] \in FreeStarts(k)  BY <1>1, <1>3 DEF ListOf
<1> QED  BY <1>3, <1>4 DEF FreeStarts

----------------------------------------------------------------------------
\* What callers hold and what the list has.

LEMMA LiveAt ==
    ASSUME NEW k, NEW e, Described(heap, live, lost, k, e)
    PROVE  /\ Layout(k, e)
           /\ \A p \in DOMAIN live :
                 /\ p \in Int /\ p - 1 \in Pool /\ k[p - 1] = "used"
                 /\ live[p] = e[p - 1] - p - 1
           /\ \A x \in Pool : k[x] = "used" => x + 1 \in DOMAIN live
<1>1. Layout(k, e)  BY DEF Described
<1>2. PICK H : H = HeldOf(k, e)  OBVIOUS
<1>3. /\ DOMAIN H = {q \in 1..Words : k[q - 1] = "used"}
      /\ \A x \in Pool : k[x] = "used" => x + 1 \in DOMAIN H
  BY <1>1, <1>2, HeldAt
<1>4. ASSUME NEW p \in DOMAIN H
      PROVE  /\ p \in Int /\ p - 1 \in Pool /\ k[p - 1] = "used"
             /\ H[p] = e[p - 1] - p - 1
  <2>1. p \in 1..Words /\ k[p - 1] = "used"  BY <1>3
  <2>2. p \in Int /\ p - 1 \in Pool  BY <2>1, PoolSize DEF Pool
  <2>3. H[p] = e[p - 1] - p - 1  BY <1>2, <1>3, <2>1 DEF HeldOf
  <2> QED  BY <2>1, <2>2, <2>3
<1>5. live = H  BY <1>2 DEF Described
<1> QED  BY <1>1, <1>3, <1>4, <1>5

LEMMA FreeAre ==
    ASSUME NEW k, NEW e, Described(heap, live, lost, k, e)
    PROVE  /\ ToSet(heap.list) = FreeStarts(k)
           /\ FreeBlocks = {<<x, e[x]>> : x \in FreeStarts(k)}
           /\ \A c \in FreeBlocks : \E x \in Pool : k[x] = "free" /\ c = <<x, e[x]>>
           /\ \A x \in Pool : k[x] = "free" => <<x, e[x]>> \in FreeBlocks
<1>1. ToSet(heap.list) = FreeStarts(k)
  <2>1. ListOf(heap.list, FreeStarts(k))  BY DEF Described
  <2> QED  BY <2>1, ListSet
<1>2. ASSUME NEW b \in FreeStarts(k)
      PROVE  b \in Pool /\ k[b] = "free" /\ FreeEnd(heap, b) = e[b]
  <2>1. b \in Pool /\ k[b] = "free"  BY DEF FreeStarts
  <2> QED  BY <2>1, FreeBlockAt
<1>3. FreeBlocks = {<<x, e[x]>> : x \in FreeStarts(k)}
  BY <1>1, <1>2 DEF FreeBlocks
<1> QED  BY <1>1, <1>2, <1>3 DEF FreeStarts

----------------------------------------------------------------------------
\* The invariant holds at first, and every operation keeps it.

\* One free block as long as the pool.
LEMMA Start == Init => IInv
<1> SUFFICES ASSUME Init PROVE IInv
  OBVIOUS
<1>1. PICK n \in Int : n = Words - 4  BY PoolSize
<1>2. n \in 0..(Words - 1) /\ 0 + 3 + n = Words - 1 /\ n = Words - 0 - 4 /\ Words - n = 4
      /\ Words - 1 \in Pool /\ Words \in 1..Words
  BY <1>1, PoolSize DEF Pool
<1>3. Words - FREE_BLOCK_HEADER_SIZE - FOOTER_SIZE = n
  BY <1>1, PoolSize DEF FREE_BLOCK_HEADER_SIZE, FOOTER_SIZE
<1> DEFINE blank == [tag |-> [a \in 0..(Words - 1) |-> Junk], list |-> <<0>>,
                     freeMem |-> n, usedMem |-> 0, reservedMem |-> Words - n]
<1>4. <<0>> \in Seq(Pool) /\ Len(<<0>>) = 1 /\ <<0>>[1] = 0
  BY PoolSize
<1>5. blank \in HeapRec
  <2>1. Junk \in TagSet  BY <1>2, TagFits
  <2>2. [a \in 0..(Words - 1) |-> Junk] \in [Pool -> TagSet]  BY <2>1 DEF Pool
  <2> QED  BY <1>2, <1>4, <2>2 DEF HeapRec
<1>6. heap = WriteFree(blank, 0, n) /\ live = << >> /\ lost = {}
  BY <1>3 DEF Init
<1>7. /\ blank.list = <<0>> /\ blank.freeMem = n /\ blank.usedMem = 0
      /\ blank.reservedMem = 4
  BY <1>2
<1> HIDE DEF blank
<1>8. heap \in HeapRec /\ SameBook(blank, heap) /\ WroteTags(blank, heap, 0, Words - 1, FreeTag(n))
  <2>1. heap \in HeapRec /\ SameBook(blank, heap) /\ WroteTags(blank, heap, 0, 0 + 3 + n, FreeTag(n))
    BY <1>2, <1>5, <1>6, PoolSize, WrittenFree
  <2> QED  BY <1>2, <2>1
<1> DEFINE k == [x \in Pool |-> IF x = 0 THEN "free" ELSE "none"]
           e == [x \in Pool |-> Words]
<1>9. /\ k \in [Pool -> Kinds] /\ e \in [Pool -> 1..Words]
      /\ \A x \in Pool : k[x] = (IF x = 0 THEN "free" ELSE "none") /\ e[x] = Words
  BY <1>2 DEF Kinds
<1> HIDE DEF k, e
<1>10. Layout(k, e)
  <2>1. \A a \in Pool : 0 <= a /\ a < Words /\ a \in Int  BY PoolSize DEF Pool
  <2>2. \A a \in Pool : \E x \in Pool : k[x] # "none" /\ x <= a /\ a < e[x]
    BY <1>9, <2>1, PoolSize
  <2>3. \A x, y \in Pool : k[x] # "none" /\ k[y] # "none" /\ x < y => e[x] <= y
    BY <1>9, PoolSize DEF Pool
  <2> QED  BY <1>9, <2>1, <2>2, <2>3, PoolSize DEF Layout
<1>11. AllLong(k, e)
  BY <1>9, PoolSize DEF AllLong, Long
<1>12. TagsTrue(heap.tag, k, e)
  <2> SUFFICES ASSUME NEW x \in Pool PROVE Tagged(heap.tag, k[x], x, e[x])
    BY DEF TagsTrue
  <2>1. CASE x = 0
    <3>1. heap.tag[0] = FreeTag(n) /\ heap.tag[Words - 1] = FreeTag(n)
      BY <1>2, <1>8, PoolSize DEF WroteTags
    <3> QED  BY <1>2, <1>9, <2>1, <3>1 DEF Tagged
  <2>2. CASE x # 0  BY <1>9, <2>2 DEF Tagged
  <2> QED  BY <2>1, <2>2
<1>13. ListOf(heap.list, FreeStarts(k))
  <2>1. FreeStarts(k) = {0}  BY <1>9, PoolSize DEF FreeStarts
  <2>2. heap.list = <<0>>  BY <1>7, <1>8 DEF SameBook
  <2>3. \A i \in 1..1 : i = 1  OBVIOUS
  <2> QED  BY <1>4, <2>1, <2>2, <2>3 DEF ListOf
<1>14. CountsTrue(heap, k, e)
  <2>1. FreeOf(k, e) = 3..(Words - 2)
    <3>1. \A x \in Pool : FreePart(k[x], x, e[x]) = IF x = 0 THEN 3..(Words - 2) ELSE {}
      BY <1>9 DEF FreePart
    <3>2. 3..(Words - 2) \subseteq Pool  BY PoolSize DEF Pool
    <3> QED  BY <3>1, <3>2, PoolSize DEF FreeOf
  <2>2. UsedOf(k, e) = {}
    BY <1>9 DEF UsedOf, UsedPart
  <2>3. Cardinality(3..(Words - 2)) = Words - 2 - 3 + 1
    <3>1. 3 \in Int /\ Words - 2 \in Int /\ 3 <= Words - 2 + 1  BY PoolSize
    <3> QED  BY <3>1, IntervalCount
  <2>4. Cardinality(UsedOf(k, e)) = 0  BY <2>2, FS_EmptySet
  <2>5. /\ heap.freeMem = n /\ heap.usedMem = 0 /\ heap.reservedMem = 4
    BY <1>7, <1>8 DEF SameBook, SameCounts
  <2> QED  BY <1>1, <2>1, <2>3, <2>4, <2>5, PoolSize DEF CountsTrue
<1>15. live = HeldOf(k, e)
  <2>1. {q \in 1..Words : k[q - 1] = "used"} = {}
    BY <1>9, PoolSize DEF Pool
  <2>2. HeldOf(k, e) = [p \in {} |-> e[p - 1] - p - 1]  BY <2>1 DEF HeldOf
  <2> QED  BY <1>6, <2>2
<1>16. lost = LostOf(k, e)  BY <1>6, <1>9 DEF LostOf
<1>17. Seamed(k, e, seams) /\ Guarded(k, e)  BY <1>9, PoolSize DEF Seamed, Guarded, Pool
<1>18. Described(heap, live, lost, k, e)
  BY <1>8, <1>10, <1>11, <1>12, <1>13, <1>14, <1>15, <1>16 DEF Described
<1> QED  BY <1>9, <1>17, <1>18 DEF IInv, Sound

LEMMA MallocStep ==
    ASSUME IInv, NEW n \in Sizes, Malloc(n)
    PROVE  Sound(heap', live', lost', seams')
<1>1. PICK k \in [Pool -> Kinds], e \in [Pool -> 1..Words] :
          Described(heap, live, lost, k, e) /\ Seamed(k, e, seams) /\ Guarded(k, e)
  BY DEF IInv, Sound
<1>2. ListOf(heap.list, FreeStarts(k))  BY <1>1 DEF Described
<1>3. n \in Nat /\ n >= 1  BY HeapAssumption
<1>4. PICK b : b = FirstFit(n)  OBVIOUS
<1>5. b \in Pool /\ k[b] = "free"
  <2>1. Fits(n) \in SUBSET DOMAIN heap.list /\ Fits(n) # {}  BY DEF Malloc, Fits
  <2> QED  BY <1>2, <1>4, <2>1, Listed DEF FirstFit
<1>6. n + 3 <= SizeAt(heap, b)
  <2>1. SizeAt(heap, b) \in Int
    <3>1. /\ e[b] - b - 4 \in 0..(Words - 1) /\ SizeAt(heap, b) = e[b] - b - 4
      BY <1>1, <1>5, FreeBlockAt
    <3> QED  BY <3>1, PoolSize
  <2>2. CanSplit(heap, b, n)  BY <1>4 DEF Malloc
  <2> QED  BY <1>3, <2>1, <2>2
           DEF CanSplit, Room, MIN_ALLOC_SIZE, FREE_BLOCK_HEADER_SIZE,
               USED_BLOCK_HEADER_SIZE, FOOTER_SIZE
<1>7. /\ heap' = Scribble(SplitBlock(heap, b, n), b + 1, n)
      /\ live' = With(live, b + 1, n) /\ lost' = lost /\ seams' = seams \ {b}
  BY <1>4 DEF Malloc, Give, With, USED_BLOCK_HEADER_SIZE
<1>8. \E k2 \in [Pool -> Kinds], e2 \in [Pool -> 1..Words] :
          /\ Described(heap', live', lost, k2, e2)
          /\ \A S : Seamed(k, e, S) => Seamed(k2, e2, S \ {b})
          /\ Guarded(k, e) => Guarded(k2, e2)
  BY <1>1, <1>3, <1>5, <1>6, <1>7, GiveDescribed
<1> QED  BY <1>1, <1>7, <1>8 DEF Sound

LEMMA MallocAlignedStep ==
    ASSUME IInv, NEW n \in AlignedSizes, NEW al \in Alignments, MallocAligned(n, al)
    PROVE  Sound(heap', live', lost', seams')
<1>1. PICK k \in [Pool -> Kinds], e \in [Pool -> 1..Words] :
          Described(heap, live, lost, k, e) /\ Seamed(k, e, seams) /\ Guarded(k, e)
  BY DEF IInv, Sound
<1>2. ListOf(heap.list, FreeStarts(k))  BY <1>1 DEF Described
<1>3. n \in Nat /\ n >= 2 /\ al \in Nat \ {0}  BY HeapAssumption
<1>4. PICK i : i = Min(FitsAligned(n, al))  OBVIOUS
<1>5. PICK b : b = heap.list[i]  OBVIOUS
<1>6. i \in FitsAligned(n, al) /\ b \in Pool /\ k[b] = "free"
  <2>1. FitsAligned(n, al) \in SUBSET DOMAIN heap.list /\ FitsAligned(n, al) # {}
    BY DEF MallocAligned, FitsAligned
  <2> QED  BY <1>2, <1>4, <1>5, <2>1, Listed
<1>7. /\ SizeAt(heap, b) - (Aligned(b, al) - b) >= n
      /\ (Aligned(b, al) - USED_BLOCK_HEADER_SIZE) - b > MIN_ALLOC_SIZE
  BY <1>5, <1>6 DEF FitsAligned
<1>8. Aligned(b, al) \in Int  BY <1>3, <1>6, AlignedInt
<1>9. PICK s \in Int : Aligned(b, al) = s + 1
  <2>1. Aligned(b, al) - 1 \in Int /\ Aligned(b, al) = (Aligned(b, al) - 1) + 1  BY <1>8
  <2> QED  BY <2>1
<1>10. /\ SizeAt(heap, b) = e[b] - b - 4 /\ e[b] \in Int /\ b \in Int
       /\ FreeEnd(heap, b) = e[b]
  BY <1>1, <1>6, FreeBlockAt, PoolSize DEF Pool
<1>11. s - b >= 4 /\ e[b] - s >= 7 /\ Aligned(b, al) - USED_BLOCK_HEADER_SIZE = s
  <2>1. Aligned(b, al) - USED_BLOCK_HEADER_SIZE = s
    BY <1>9 DEF USED_BLOCK_HEADER_SIZE
  <2>2. s - b > 5
    BY <1>7, <2>1 DEF MIN_ALLOC_SIZE, FREE_BLOCK_HEADER_SIZE, FOOTER_SIZE
  <2>3. (e[b] - b - 4) - ((s + 1) - b) >= n  BY <1>7, <1>9, <1>10
  <2> QED  BY <1>3, <1>10, <2>1, <2>2, <2>3
<1>12. PICK h, ls2 : h = CutAligned(heap, b, al) /\ ls2 = lost \cup {Gap(e, b)}
  OBVIOUS
<1>13. CutsAt(e, b, al, s)  BY <1>9, <1>11 DEF CutsAt
<1>14. PICK k2 \in [Pool -> Kinds], e2 \in [Pool -> 1..Words] :
           /\ Described(h, live, ls2, k2, e2)
           /\ s \in Pool /\ k2[s] = "free" /\ e2[s] = e[b] - 3
           /\ Seamed(k2, e2, seams \cup {s}) /\ Guarded(k2, e2)
  <2>1. b \in Pool /\ k[b] = "free" /\ al \in Nat \ {0}  BY <1>3, <1>6
  <2>2. CutTo(h, live, ls2, seams, s, e[b])
    BY <1>1, <1>12, <1>13, <2>1, CutDescribed
  <2> QED  BY <2>2 DEF CutTo
<1>15. FreeEnd(h, s) = e[b] - 3 /\ SizeAt(h, s) \in Int
  <2>1. FreeEnd(h, s) = e2[s] /\ SizeAt(h, s) = e2[s] - s - 4 /\ e2[s] \in 1..Words
    BY <1>14, FreeBlockAt
  <2> QED  BY <1>10, <1>14, <2>1
<1>16. /\ lost' = ls2
       /\ \/ CanSplit(h, s, n) /\ Give(h, s, n) /\ seams' = seams
          \/ heap' = h /\ live' = live /\ seams' = seams \cup {s}
  <2>1. /\ lost' = lost \cup {<<FreeEnd(h, s), FreeEnd(heap, b)>>}
        /\ \/ CanSplit(h, s, n) /\ Give(h, s, n) /\ seams' = seams
           \/ heap' = h /\ live' = live /\ seams' = seams \cup {s}
    BY <1>4, <1>5, <1>11, <1>12 DEF MallocAligned
  <2> QED  BY <1>10, <1>12, <1>15, <2>1 DEF Gap
<1>17. CASE CanSplit(h, s, n) /\ Give(h, s, n) /\ seams' = seams
  <2>1. n + 3 <= SizeAt(h, s)
    BY <1>3, <1>15, <1>17
       DEF CanSplit, Room, MIN_ALLOC_SIZE, FREE_BLOCK_HEADER_SIZE,
           USED_BLOCK_HEADER_SIZE, FOOTER_SIZE
  <2>2. PICK g, lv2 : /\ g = Scribble(SplitBlock(h, s, n), s + 1, n)
                      /\ lv2 = With(live, s + 1, n)
    OBVIOUS
  <2>3. heap' = g /\ live' = lv2
    BY <1>17, <2>2 DEF Give, With, USED_BLOCK_HEADER_SIZE
  <2>4. \E k3 \in [Pool -> Kinds], e3 \in [Pool -> 1..Words] :
            /\ Described(g, lv2, ls2, k3, e3) /\ Guarded(k3, e3)
            /\ Seamed(k3, e3, (seams \cup {s}) \ {s})
    <3>1. n \in Nat /\ n >= 1  BY <1>3
    <3>2. \E k3 \in [Pool -> Kinds], e3 \in [Pool -> 1..Words] :
            /\ Described(g, lv2, ls2, k3, e3)
            /\ \A S : Seamed(k2, e2, S) => Seamed(k3, e3, S \ {s})
            /\ Guarded(k2, e2) => Guarded(k3, e3)
      BY <1>14, <2>1, <2>2, <3>1, GiveDescribed
    <3> QED  BY <1>14, <3>2
  <2>5. ASSUME NEW k3, NEW e3, Seamed(k3, e3, (seams \cup {s}) \ {s}) PROVE Seamed(k3, e3, seams)
    BY <2>5 DEF Seamed
  <2> QED  BY <1>16, <1>17, <2>3, <2>4, <2>5 DEF Sound
<1>18. CASE heap' = h /\ live' = live /\ seams' = seams \cup {s}
  BY <1>14, <1>16, <1>18 DEF Sound
<1> QED  BY <1>16, <1>17, <1>18

\* What free is called for: the block before is not lost, and there is room.
LEMMA FreeableAt ==
    ASSUME UnsafeFrees = FALSE, NEW k, NEW e, Described(heap, live, lost, k, e),
           NEW p \in Freeable, NEW b, b = p - 1
    PROVE  /\ p = b + 1 /\ b \in Pool /\ k[b] = "used"
           /\ NoneLostBefore(k, e, b) /\ HasRoom(k, e, b)
<1>1. p \in DOMAIN live /\ ~BehindCut(p) /\ ~TooShort(p)  BY DEF Freeable
<1>2. /\ p \in Int /\ b \in Pool /\ k[b] = "used" /\ live[p] = e[b] - p - 1
  BY <1>1, LiveAt
<1>3. e[b] \in 1..Words /\ e[b] \in Int /\ b \in Int  BY <1>2, BlockIn, PoolSize DEF Described, Pool
<1>4. /\ p = b + 1 /\ p - USED_BLOCK_HEADER_SIZE = b /\ UsedEnd(p) = e[b]
      /\ live[p] = e[b] - b - 2
  BY <1>2, <1>3 DEF USED_BLOCK_HEADER_SIZE, FOOTER_SIZE, UsedEnd
<1>5. NoneLostBefore(k, e, b)
  <2> SUFFICES ASSUME NEW x \in Pool, k[x] = "lost" PROVE e[x] # b
    BY DEF NoneLostBefore
  <2>1. <<x, e[x]>> \in lost  BY DEF Described, LostOf
  <2>2. <<x, e[x]>>[2] # b  BY <1>1, <1>4, <2>1 DEF BehindCut
  <2> QED  BY <2>2
<1>6. HasRoom(k, e, b)
  <2>1. CASE ~(live[p] < FREE_BLOCK_HEADER_SIZE - USED_BLOCK_HEADER_SIZE)
    BY <1>3, <1>4, <2>1 DEF HasRoom, FREE_BLOCK_HEADER_SIZE, USED_BLOCK_HEADER_SIZE
  <2>2. ASSUME NEW c \in FreeBlocks, c[2] = b \/ c[1] = e[b] PROVE HasRoom(k, e, b)
    <3>1. PICK x \in Pool : k[x] = "free" /\ c = <<x, e[x]>>  BY FreeAre
    <3> QED  BY <2>2, <3>1 DEF HasRoom
  <2> QED  BY <1>1, <1>4, <2>1, <2>2 DEF TooShort
<1> QED  BY <1>2, <1>4, <1>5, <1>6

LEMMA FreeStep ==
    ASSUME UnsafeFrees = FALSE, IInv, NEW p \in Freeable, Free(p)
    PROVE  Sound(heap', live', lost', seams')
<1>1. PICK k \in [Pool -> Kinds], e \in [Pool -> 1..Words] :
          Described(heap, live, lost, k, e) /\ Seamed(k, e, seams) /\ Guarded(k, e)
  BY DEF IInv, Sound
<1>2. PICK b : b = p - 1  OBVIOUS
<1>3. /\ p = b + 1 /\ b \in Pool /\ k[b] = "used"
      /\ NoneLostBefore(k, e, b) /\ HasRoom(k, e, b)
  BY <1>1, <1>2, FreeableAt
<1>4. TagAt(heap, b).inUse = TRUE
  <2>1. TagAt(heap, b) = UsedTag(e[b] - b - 2)  BY <1>1, <1>3, UsedBlockAt
  <2> QED  BY <2>1 DEF UsedTag
<1>5. /\ heap' = FreeBlock(heap, b) /\ live' = Without(live, b + 1)
      /\ lost' = lost /\ seams' = seams
  BY <1>2, <1>3, <1>4 DEF Free, Without, USED_BLOCK_HEADER_SIZE
<1> QED  BY <1>1, <1>3, <1>5, FreeDescribed

LEMMA Step ==
    ASSUME UnsafeFrees = FALSE, IInv, [Next]_vars
    PROVE  IInv'
<1>1. ASSUME Sound(heap', live', lost', seams') PROVE IInv'
  BY <1>1 DEF IInv, Sound
<1>2. ASSUME UNCHANGED vars PROVE IInv'
  BY <1>2 DEF IInv, vars
<1>3. ASSUME NEW n \in Sizes, Malloc(n) PROVE IInv'
  BY <1>1, <1>3, MallocStep
<1>4. ASSUME NEW n \in Sizes, MallocFails(n) PROVE IInv'
  BY <1>2, <1>4 DEF MallocFails
<1>5. ASSUME NEW n \in AlignedSizes, NEW al \in Alignments, MallocAligned(n, al) PROVE IInv'
  BY <1>1, <1>5, MallocAlignedStep
<1>6. ASSUME NEW n \in AlignedSizes, NEW al \in Alignments, MallocAlignedFails(n, al) PROVE IInv'
  BY <1>2, <1>6 DEF MallocAlignedFails
<1>7. ASSUME NEW p \in Freeable, Free(p) PROVE IInv'
  BY <1>1, <1>7, FreeStep
<1> QED  BY <1>2, <1>3, <1>4, <1>5, <1>6, <1>7 DEF Next

\* Whatever is asked for and freed, before a cut and after it, the tags, the list
\* and the counters are those of a layout: malloc, mallocAligned and free of
\* memoryAllocator.cpp keep it, as long as nothing is freed right behind the words
\* a cut lost, nor one word between two blocks that are not free.
THEOREM Invariance ==
    ASSUME UnsafeFrees = FALSE
    PROVE  Spec => []IInv
<1>1. Init => IInv  BY Start
<1>2. IInv /\ [Next]_vars => IInv'  BY Step
<1> QED  BY <1>1, <1>2, PTL DEF Spec

----------------------------------------------------------------------------
\* What the invariant says of the pool.

\* The blocks of the pool are those of the layout.
LEMMA UsedAre ==
    ASSUME NEW k, NEW e, Described(heap, live, lost, k, e)
    PROVE  /\ \A c \in UsedBlocks : \E x \in Pool : k[x] = "used" /\ c = <<x, e[x]>>
           /\ \A x \in Pool : k[x] = "used" => <<x, e[x]>> \in UsedBlocks
<1>1. Layout(k, e) /\ live = HeldOf(k, e)  BY DEF Described
<1>2. ASSUME NEW p \in DOMAIN live
      PROVE  /\ p - 1 \in Pool /\ k[p - 1] = "used"
             /\ <<p - USED_BLOCK_HEADER_SIZE, UsedEnd(p)>> = <<p - 1, e[p - 1]>>
  <2>1. /\ p - 1 \in Pool /\ k[p - 1] = "used" /\ live[p] = e[p - 1] - p - 1
    BY LiveAt
  <2>2. p \in Int  BY LiveAt
  <2>3. e[p - 1] \in Int  BY <1>1, <2>1, BlockIn
  <2>4. p + live[p] + 1 = e[p - 1]  BY <2>1, <2>2, <2>3
  <2> QED  BY <2>1, <2>4 DEF UsedEnd, USED_BLOCK_HEADER_SIZE, FOOTER_SIZE
<1>3. ASSUME NEW x \in Pool, k[x] = "used" PROVE <<x, e[x]>> \in UsedBlocks
  <2>1. PICK p \in DOMAIN live : p = x + 1  BY <1>3, LiveAt
  <2>2. p - 1 = x  BY <2>1, PoolSize DEF Pool
  <2>3. <<p - USED_BLOCK_HEADER_SIZE, UsedEnd(p)>> = <<x, e[x]>>  BY <1>2, <2>2
  <2> QED  BY <2>3 DEF UsedBlocks
<1> QED  BY <1>2, <1>3 DEF UsedBlocks

LEMMA BlocksAre ==
    ASSUME NEW k, NEW e, Described(heap, live, lost, k, e)
    PROVE  /\ \A c \in Blocks : \E x \in Pool : k[x] # "none" /\ c = <<x, e[x]>>
           /\ \A x \in Pool : k[x] # "none" => <<x, e[x]>> \in Blocks
<1>1. Layout(k, e) /\ lost = LostOf(k, e)  BY DEF Described
<1>2. /\ \A c \in UsedBlocks : \E x \in Pool : k[x] = "used" /\ c = <<x, e[x]>>
      /\ \A x \in Pool : k[x] = "used" => <<x, e[x]>> \in UsedBlocks
  BY UsedAre
<1>3. /\ \A c \in FreeBlocks : \E x \in Pool : k[x] = "free" /\ c = <<x, e[x]>>
      /\ \A x \in Pool : k[x] = "free" => <<x, e[x]>> \in FreeBlocks
  BY FreeAre
<1>4. /\ \A c \in lost : \E x \in Pool : k[x] = "lost" /\ c = <<x, e[x]>>
      /\ \A x \in Pool : k[x] = "lost" => <<x, e[x]>> \in lost
  BY <1>1 DEF LostOf
<1>5. \A x \in Pool : k[x] \in {"none", "used", "free", "lost"}
  BY <1>1, BlockIn DEF Kinds
<1>6. ASSUME NEW c \in Blocks PROVE \E x \in Pool : k[x] # "none" /\ c = <<x, e[x]>>
  <2>1. CASE c \in UsedBlocks  BY <1>2, <2>1
  <2>2. CASE c \in FreeBlocks  BY <1>3, <2>2
  <2>3. CASE c \in lost  BY <1>4, <2>3
  <2> QED  BY <2>1, <2>2, <2>3 DEF Blocks
<1>7. ASSUME NEW x \in Pool, k[x] # "none" PROVE <<x, e[x]>> \in Blocks
  BY <1>2, <1>3, <1>4, <1>5, <1>7 DEF Blocks
<1> QED  BY <1>6, <1>7

\* No block is in the list twice.
LEMMA ListLength ==
    ASSUME NEW k, NEW e, Described(heap, live, lost, k, e)
    PROVE  Len(heap.list) = Cardinality(FreeBlocks)
<1> DEFINE s == heap.list
           f == [i \in 1..Len(s) |-> <<s[i], e[s[i]]>>]
<1>1. ListOf(s, FreeStarts(k))  BY DEF Described
<1>2. /\ Len(s) \in Nat
      /\ \A i \in 1..Len(s) : s[i] \in FreeStarts(k)
      /\ \A x \in FreeStarts(k) : \E i \in 1..Len(s) : s[i] = x
      /\ \A i, j \in 1..Len(s) : s[i] = s[j] => i = j
  BY <1>1, ListSet DEF ListOf
<1>3. FreeBlocks = {<<x, e[x]>> : x \in FreeStarts(k)}  BY FreeAre
<1>4. f \in [1..Len(s) -> FreeBlocks]  BY <1>2, <1>3
<1>5. \A i, j \in 1..Len(s) : f[i] = f[j] => i = j  BY <1>2
<1>6. \A c \in FreeBlocks : \E i \in 1..Len(s) : f[i] = c  BY <1>2, <1>3
<1> HIDE DEF f
<1>7. f \in Bijection(1..Len(s), FreeBlocks)  BY <1>4, <1>5, <1>6, Fun_IsBij
<1>8. ExistsBijection(1..Len(s), FreeBlocks)  BY <1>7 DEF ExistsBijection
<1> QED  BY <1>2, <1>8, FS_CountingElements

LEMMA Tiled ==
    ASSUME NEW k, NEW e, Described(heap, live, lost, k, e)
    PROVE  BlocksTile
<1>1. Layout(k, e)  BY DEF Described
<1>2. \E b \in Blocks : b[1] = 0
  <2>1. PICK x \in Pool : k[x] # "none" /\ x <= 0  BY <1>1, PoolSize DEF Layout
  <2>2. x = 0  BY <2>1, PoolSize DEF Pool
  <2>3. <<x, e[x]>> \in Blocks  BY <2>1, BlocksAre
  <2> QED  BY <2>2, <2>3
<1>3. ASSUME NEW b \in Blocks, b[2] # Words PROVE \E c \in Blocks : c[1] = b[2]
  <2>1. PICK x \in Pool : k[x] # "none" /\ b = <<x, e[x]>>  BY BlocksAre
  <2>2. PICK y \in Pool : y = e[x] /\ k[y] # "none"  BY <1>1, <1>3, <2>1, NextBlock
  <2>3. <<y, e[y]>> \in Blocks  BY <2>2, BlocksAre
  <2> QED  BY <2>1, <2>2, <2>3
<1>4. ASSUME NEW b \in Blocks, NEW c \in Blocks, b # c PROVE b[2] <= c[1] \/ c[2] <= b[1]
  <2>1. PICK x \in Pool : k[x] # "none" /\ b = <<x, e[x]>>  BY BlocksAre
  <2>2. PICK y \in Pool : k[y] # "none" /\ c = <<y, e[y]>>  BY BlocksAre
  <2>3. x # y  BY <1>4, <2>1, <2>2
  <2>4. e[x] <= y \/ e[y] <= x  BY <1>1, <2>1, <2>2, <2>3, BlocksApart
  <2> QED  BY <2>1, <2>2, <2>4
<1>5. Len(heap.list) = Cardinality(FreeBlocks)  BY ListLength
<1> QED  BY <1>2, <1>3, <1>4, <1>5 DEF BlocksTile

LEMMA Agreed ==
    ASSUME NEW k, NEW e, Described(heap, live, lost, k, e)
    PROVE  TagsAgree /\ DataUntouched
<1>1. Layout(k, e) /\ live = HeldOf(k, e) /\ TagsTrue(heap.tag, k, e)  BY DEF Described
<1>2. ASSUME NEW p \in DOMAIN live
      PROVE  /\ TagAt(heap, p - USED_BLOCK_HEADER_SIZE) = Tag(live[p], TRUE)
             /\ TagAt(heap, p + live[p]) = Tag(live[p], TRUE)
             /\ \A a \in p..(p + live[p] - 1) : heap.tag[a] = Junk
  <2>1. PICK x \in Pool : x = p - 1 /\ k[x] = "used" /\ live[p] = e[p - 1] - p - 1
    BY LiveAt
  <2>2. p \in Int /\ x \in Int  BY LiveAt, PoolSize DEF Pool
  <2>3. /\ e[x] - x - 2 \in 1..(Words - 1) /\ e[x] \in 1..Words
        /\ TagAt(heap, x) = UsedTag(e[x] - x - 2) /\ TagAt(heap, e[x] - 1) = UsedTag(e[x] - x - 2)
    BY <2>1, UsedBlockAt
  <2>4. PICK n \in 0..(Words - 1) : n = e[x] - x - 2  BY <2>3, PoolSize
  <2>5. /\ live[p] = n /\ p - USED_BLOCK_HEADER_SIZE = x /\ p + n = e[x] - 1
        /\ p = x + 1 /\ p + n - 1 = e[x] - 2
    BY <2>1, <2>2, <2>3, <2>4 DEF USED_BLOCK_HEADER_SIZE
  <2>6. Tag(n, TRUE) = UsedTag(n)  BY TagFits DEF UsedTag
  <2>7. \A a \in (x + 1)..(e[x] - 2) : heap.tag[a] = Junk
    BY <1>1, <2>1 DEF TagsTrue, Tagged
  <2> QED  BY <2>3, <2>4, <2>5, <2>6, <2>7
<1>3. ASSUME NEW b \in ToSet(heap.list)
      PROVE  /\ ~TagAt(heap, b).inUse
             /\ TagAt(heap, FreeEnd(heap, b) - FOOTER_SIZE) = TagAt(heap, b)
  <2>1. b \in Pool /\ k[b] = "free"  BY FreeAre DEF FreeStarts
  <2>2. /\ TagAt(heap, b) = FreeTag(e[b] - b - 4) /\ TagAt(heap, e[b] - 1) = FreeTag(e[b] - b - 4)
        /\ FreeEnd(heap, b) = e[b]
    BY <2>1, FreeBlockAt
  <2>3. FreeTag(e[b] - b - 4).inUse = FALSE  BY DEF FreeTag
  <2> QED  BY <2>2, <2>3 DEF FOOTER_SIZE
<1> QED  BY <1>2, <1>3 DEF TagsAgree, DataUntouched

LEMMA CoalescedAll ==
    ASSUME NEW k, NEW e, Described(heap, live, lost, k, e), Seamed(k, e, seams)
    PROVE  Coalesced
<1> SUFFICES ASSUME NEW b \in FreeBlocks, NEW c \in FreeBlocks, b[2] = c[1]
             PROVE  c[1] \in seams
  BY DEF Coalesced
<1>1. PICK x \in Pool : k[x] = "free" /\ b = <<x, e[x]>>  BY FreeAre
<1>2. PICK y \in Pool : k[y] = "free" /\ c = <<y, e[y]>>  BY FreeAre
<1>3. e[x] = y /\ c[1] = y  BY <1>1, <1>2
<1> QED  BY <1>1, <1>2, <1>3 DEF Seamed

LEMMA CountersAgree ==
    ASSUME NEW k, NEW e, Described(heap, live, lost, k, e)
    PROVE  CountersTrue
<1>1. Layout(k, e) /\ live = HeldOf(k, e) /\ lost = LostOf(k, e) /\ CountsTrue(heap, k, e)
  BY DEF Described
<1>2. FreeWords = FreeOf(k, e)
  <2>1. ASSUME NEW a \in Pool, NEW b \in ToSet(heap.list),
               a - (b + FREE_BLOCK_HEADER_SIZE) \in 0..(SizeAt(heap, b) - 1)
        PROVE  b \in Pool /\ a \in FreePart(k[b], b, e[b])
    <3>1. b \in Pool /\ k[b] = "free"  BY FreeAre DEF FreeStarts
    <3>2. SizeAt(heap, b) = e[b] - b - 4 /\ e[b] \in 1..Words  BY <3>1, FreeBlockAt
    <3>3. a \in (b + 3)..(e[b] - 2)
      BY <2>1, <3>1, <3>2, PoolSize DEF FREE_BLOCK_HEADER_SIZE, Pool
    <3> QED  BY <3>1, <3>3 DEF FreePart
  <2>2. ASSUME NEW a \in Pool, NEW g \in lost, a \in g[1]..(g[2] - 1)
        PROVE  \E x \in Pool : a \in FreePart(k[x], x, e[x])
    <3>1. PICK x \in Pool : k[x] = "lost" /\ g = <<x, e[x]>>  BY <1>1 DEF LostOf
    <3> QED  BY <2>2, <3>1 DEF FreePart
  <2>3. ASSUME NEW a \in Pool, NEW x \in Pool, a \in FreePart(k[x], x, e[x])
        PROVE  \/ /\ x \in ToSet(heap.list)
                  /\ a - (x + FREE_BLOCK_HEADER_SIZE) \in 0..(SizeAt(heap, x) - 1)
               \/ \E g \in lost : a \in g[1]..(g[2] - 1)
    <3>1. CASE k[x] = "free"
      <4>1. SizeAt(heap, x) = e[x] - x - 4 /\ e[x] \in 1..Words  BY <3>1, FreeBlockAt
      <4>2. a \in (x + 3)..(e[x] - 2)  BY <2>3, <3>1 DEF FreePart
      <4>3. x \in ToSet(heap.list)  BY <3>1, FreeAre DEF FreeStarts
      <4> QED  BY <4>1, <4>2, <4>3, PoolSize DEF FREE_BLOCK_HEADER_SIZE, Pool
    <3>2. CASE k[x] = "lost"
      <4>1. a \in x..(e[x] - 1)  BY <2>3, <3>2 DEF FreePart
      <4>2. <<x, e[x]>> \in lost  BY <1>1, <3>2 DEF LostOf
      <4> QED  BY <4>1, <4>2
    <3> QED  BY <2>3, <3>1, <3>2 DEF FreePart
  <2>4. FreeWords \subseteq FreeOf(k, e)
    BY <2>1, <2>2 DEF FreeWords, FreeOf, Pool
  <2>5. FreeOf(k, e) \subseteq FreeWords
    BY <2>3 DEF FreeWords, FreeOf, Pool
  <2> QED  BY <2>4, <2>5
<1>3. UsedWords = UsedOf(k, e)
  <2>1. ASSUME NEW p \in DOMAIN live
        PROVE  p - 1 \in Pool /\ p..(p + live[p] - 1) = UsedPart(k[p - 1], p - 1, e[p - 1])
    <3>1. /\ p - 1 \in Pool /\ k[p - 1] = "used" /\ live[p] = e[p - 1] - p - 1
      BY LiveAt
    <3>2. p \in Int  BY LiveAt
    <3>3. e[p - 1] \in Int  BY <1>1, <3>1, BlockIn
    <3>4. p + live[p] - 1 = e[p - 1] - 2 /\ (p - 1) + 1 = p  BY <3>1, <3>2, <3>3
    <3> QED  BY <3>1, <3>4 DEF UsedPart
  <2>2. ASSUME NEW a \in Pool, NEW x \in Pool, a \in UsedPart(k[x], x, e[x])
        PROVE  \E p \in DOMAIN live : a \in p..(p + live[p] - 1)
    <3>1. k[x] = "used"  BY <2>2 DEF UsedPart
    <3>2. PICK p \in DOMAIN live : p = x + 1  BY <3>1, LiveAt
    <3>3. p - 1 = x  BY <3>2, PoolSize DEF Pool
    <3> QED  BY <2>1, <2>2, <3>3
  <2> QED  BY <2>1, <2>2 DEF UsedWords, UsedOf, Pool
<1> QED  BY <1>1, <1>2, <1>3 DEF CountersTrue, CountsTrue

LEMMA Always ==
    ASSUME IInv
    PROVE  BlocksTile /\ TagsAgree /\ DataUntouched /\ Coalesced /\ CountersTrue
<1>1. PICK k \in [Pool -> Kinds], e \in [Pool -> 1..Words] :
          Described(heap, live, lost, k, e) /\ Seamed(k, e, seams)
  BY DEF IInv, Sound
<1> QED  BY <1>1, Tiled, Agreed, CoalescedAll, CountersAgree

----------------------------------------------------------------------------
\* In a pool of any length, splitBlock, the cut of mallocAligned and the merges
\* of free leave blocks that tile it: none overlap, none reach out of it, and the
\* free list holds each free block once.
THEOREM Tiling ==
    ASSUME UnsafeFrees = FALSE
    PROVE  Spec => []BlocksTile
<1>1. Spec => []IInv  BY Invariance
<1>2. IInv => BlocksTile  BY Always
<1> QED  BY <1>1, <1>2, PTL

\* The tags at the two ends of a block, which free reads to find the neighbours,
\* always agree with each other and with what malloc promised.
THEOREM TagsStayTrue ==
    ASSUME UnsafeFrees = FALSE
    PROVE  Spec => []TagsAgree
<1>1. Spec => []IInv  BY Invariance
<1>2. IInv => TagsAgree  BY Always
<1> QED  BY <1>1, <1>2, PTL

\* No tag is ever written into the words of a block a caller holds.
THEOREM DataIsSafe ==
    ASSUME UnsafeFrees = FALSE
    PROVE  Spec => []DataUntouched
<1>1. Spec => []IInv  BY Invariance
<1>2. IInv => DataUntouched  BY Always
<1> QED  BY <1>1, <1>2, PTL

\* coalescePredecessor and coalesceSuccessor leave no two free neighbours but the
\* two halves of a cut of mallocAligned that then gave out neither.
THEOREM NeighboursMerged ==
    ASSUME UnsafeFrees = FALSE
    PROVE  Spec => []Coalesced
<1>1. Spec => []IInv  BY Invariance
<1>2. IInv => Coalesced  BY Always
<1> QED  BY <1>1, <1>2, PTL

\* The counters, which malloc reads before it looks for a block, are the words that
\* are free and those in use: no sequence of malloc, mallocAligned and free makes
\* them drift.
THEOREM CountersStayTrue ==
    ASSUME UnsafeFrees = FALSE
    PROVE  Spec => []CountersTrue
<1>1. Spec => []IInv  BY Invariance
<1>2. IInv => CountersTrue  BY Always
<1> QED  BY <1>1, <1>2, PTL

============================================================================
