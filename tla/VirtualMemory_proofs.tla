------------------------ MODULE VirtualMemory_proofs ------------------------
(***************************************************************************)
(* For any memory map, any number of processes and any sizes of stack and  *)
(* heap: no frame is behind two pages, none is lost, every space keeps the *)
(* kernel where it is, and the counters add up.                            *)
(***************************************************************************)
EXTENDS VirtualMemory, FiniteSetTheorems, TLAPS

Known == Frames \union BootFrames
Counter == 0..(CounterLimit - 1)
Mem == [locked : SUBSET Known, free : Counter, used : Counter, reserved : Counter]
Entry == [frame : Nat, present : BOOLEAN]
OwnPages == Pages \ IdentityPages

TypeOK ==
    /\ mem \in Mem
    /\ dirs \in [Spaces -> [Pages -> Entry]]
    /\ state \in [Procs -> {"none", "making", "alive", "dead"}]
    /\ job \in [kind : {"none", "alloc", "free"}, proc : Spaces, left : SUBSET ProcPages]
    /\ boot \in {"off", "phys", "done"}
    /\ garbage \in SUBSET Beyond
    /\ starved \in SUBSET OwnPages

\* Until the kernel's directory exists nobody has a page and nothing is locked
\* but what boot locks; from then on all of that stays locked.
BootOrder ==
    /\ boot # "done" =>
        job = Idle /\ mem.locked \subseteq BootFrames /\ \A p \in Procs : state[p] = "none"
    /\ boot = "done" => BootFrames \subseteq mem.locked
    /\ boot # "off" => Reserved \subseteq mem.locked

\* A directory that nobody uses yet or any more is empty.
UnusedEmpty == \A s \in Spaces \ LiveSpaces : \A v \in OwnPages : dirs[s][v].frame = 0

\* The process that newKernelTask or the reaper is busy with; behind the
\* reaper no page has a frame.
JobMatches ==
    /\ job.kind = "none" => job = Idle
    /\ job.kind = "alloc" => job.proc \in Procs /\ state[job.proc] = "making"
    /\ job.kind = "free" =>
        /\ job.proc \in Procs /\ state[job.proc] = "dead"
        /\ \A v \in ProcPages \ job.left : dirs[job.proc][v].frame = 0

\* A process has no frames but those of its stack and heap: faults go to the
\* kernel's directory.
ProcessPages ==
    \A p \in Procs : \A v \in OwnPages \ ProcPages : dirs[p][v].frame = 0

IdentityMapped == \A s \in LiveSpaces : \A v \in IdentityPages : dirs[s][v] = Mapped(v)

\* FramesOwned and LockedIsOwned, space by space and page by page.
Owned ==
    \A s \in LiveSpaces : \A v \in OwnPages :
        dirs[s][v].frame # 0 =>
            dirs[s][v].frame \in Frames \cap mem.locked /\ dirs[s][v].frame \notin BootFrames
Distinct ==
    \A s, t \in LiveSpaces : \A v, w \in OwnPages :
        dirs[s][v].frame # 0 /\ dirs[s][v].frame = dirs[t][w].frame => s = t /\ v = w
NoneLost ==
    boot = "done" =>
        \A f \in mem.locked \ BootFrames : \E s \in LiveSpaces : \E v \in OwnPages :
            dirs[s][v].frame = f

\* A page that is present without a frame is one a fault found none for, or
\* the reaper has been there.
Explained ==
    \A s \in LiveSpaces : \A v \in OwnPages :
        dirs[s][v].present /\ dirs[s][v].frame = 0 =>
            \/ s = Kernel /\ v \in starved
            \/ s \in Procs /\ state[s] = "dead"

\* The bits that were set since power-on and the counters.  The bits that may
\* still be cleared are counted as used, so used never wraps.
Counted(m) ==
    /\ garbage \subseteq m.locked
    /\ m.used + m.reserved = Cardinality(m.locked \ garbage)
    /\ m.free = Minus(Available, m.used + m.reserved)
    /\ Cardinality(m.locked \ BootFrames) <= m.used

IInv ==
    /\ TypeOK /\ BootOrder /\ UnusedEmpty /\ JobMatches /\ ProcessPages /\ IdentityMapped
    /\ Owned /\ Distinct /\ NoneLost /\ Explained /\ Counted(mem)

---------------------------------------------------------------------------
(* Pages and frames are numbers.                                           *)

LEMMA NumbersAreNat ==
    /\ Frames \subseteq Nat /\ BootFrames \subseteq Nat
    /\ IsFiniteSet(Frames) /\ IsFiniteSet(BootFrames)
    /\ IdentityPages \subseteq Nat /\ Pages \subseteq Nat
    /\ ProcPages \subseteq OwnPages /\ FaultPages \subseteq OwnPages
    /\ Kernel \in Spaces /\ Procs \subseteq Spaces /\ Kernel \notin Procs
    /\ 0 \in BootFrames
<1>1. BitmapBits \in Int
  BY AvailableAssumption DEF BitmapBits
<1>2. Frames \subseteq Nat /\ IsFiniteSet(Frames)
  BY <1>1, FS_Interval DEF Frames
<1>3. /\ FbPage \in Nat /\ KernelEnd \in Nat /\ FbLength \in Nat
      /\ PageSize \in Nat \ {0} /\ FbPage * PageSize + FbLength \in Int
  BY MemoryAssumption
<1>4. IdentityPages \subseteq Nat
  BY <1>3 DEF IdentityPages, KernelPages, FbPages, PagesFrom
<1>5. ASSUME NEW a \in Nat, NEW l \in Nat
      PROVE  LockedFor(a, l) \subseteq Nat /\ IsFiniteSet(LockedFor(a, l)) /\ a \in LockedFor(a, l)
  <2>. DEFINE last == a + l \div PageSize
  <2>1. last \in Nat /\ a <= last
    BY <1>3
  <2>2. LockedFor(a, l) = a..last
    BY DEF LockedFor
  <2>. HIDE DEF last
  <2>3. IsFiniteSet(a..last)
    BY <2>1, FS_Interval
  <2>. QED
    BY <2>1, <2>2, <2>3
<1>6. /\ LockedFor(0, KernelEnd) \subseteq Nat /\ IsFiniteSet(LockedFor(0, KernelEnd))
      /\ FbFrames \subseteq Nat /\ IsFiniteSet(FbFrames) /\ 0 \in LockedFor(0, KernelEnd)
  BY <1>3, <1>5 DEF FbFrames
<1>7. BootFrames \subseteq Nat /\ IsFiniteSet(BootFrames) /\ 0 \in BootFrames
  BY <1>6, MemoryAssumption, FS_Union DEF BootFrames
<1>. QED
  BY <1>2, <1>4, <1>7, MemoryAssumption DEF Pages, Spaces, OwnPages

\* identityPaging leaves out no page that a byte of the kernel or of the
\* framebuffer is in.
LEMMA IdentityComplete == NeededPages \subseteq IdentityPages
<1>. PageSize \in Nat /\ PageSize >= 1 /\ KernelEnd \in Nat /\ FbPage \in Nat /\ FbLength \in Nat
  BY MemoryAssumption
<1>1. ASSUME NEW a \in Nat
      PROVE  a \div PageSize \in Nat /\ (a \div PageSize) * PageSize <= a /\ a \div PageSize <= a
  OBVIOUS
<1>2. ASSUME NEW a \in 0..(KernelEnd - 1)
      PROVE  a \div PageSize \in KernelPages
  BY <1>1 DEF KernelPages, PagesFrom
<1>3. ASSUME NEW a \in 0..(FbLength - 1)
      PROVE  FbPage + a \div PageSize \in FbPages
  <2>1. /\ a \div PageSize \in Nat /\ a \div PageSize <= a
        /\ (a \div PageSize) * PageSize <= a /\ a < FbLength
    BY <1>1
  <2>2. (FbPage + a \div PageSize) * PageSize < FbPage * PageSize + FbLength
    BY <2>1
  <2>3. FbPage <= FbPage * PageSize
    OBVIOUS
  <2>. QED
    BY <2>1, <2>2, <2>3 DEF FbPages, PagesFrom
<1>. QED
  BY <1>2, <1>3 DEF NeededPages, IdentityPages

\* A page of the kernel fits in what kernelInit locks.
LEMMA BitmapIsLocked == BitmapFrames \subseteq BootFrames
<1>. SUFFICES ASSUME NEW v \in KernelPages PROVE v \in LockedFor(0, KernelEnd)
  BY MemoryAssumption DEF BootFrames
<1>1. PageSize \in Nat /\ PageSize >= 1 /\ KernelEnd \in Nat /\ v \in Nat /\ v * PageSize < KernelEnd
  BY MemoryAssumption DEF KernelPages, PagesFrom
<1>2. v <= KernelEnd \div PageSize
  <2>. DEFINE q == KernelEnd \div PageSize
  <2>1. q \in Nat /\ KernelEnd < (q + 1) * PageSize
    BY <1>1
  <2>2. ~(v >= q + 1)
    <3>. SUFFICES ASSUME v >= q + 1 PROVE FALSE
      OBVIOUS
    <3>1. v * PageSize >= (q + 1) * PageSize
      <4>. HIDE DEF q
      <4>. QED
        BY <1>1, <2>1
    <3>. QED
      BY <1>1, <2>1, <3>1
  <2>. QED
    BY <1>1, <2>1, <2>2
<1>. QED
  BY <1>1, <1>2 DEF LockedFor
---------------------------------------------------------------------------
(* The allocator: what an operation does to the bits, and that it keeps    *)
(* the counters in step with them.                                         *)

LEMMA DisjointUnion ==
    ASSUME NEW S, NEW T, IsFiniteSet(S), IsFiniteSet(T), S \cap T = {}
    PROVE  Cardinality(S \union T) = Cardinality(S) + Cardinality(T)
<1>1. Cardinality(S \union T) = Cardinality(S) + Cardinality(T) - Cardinality(S \cap T)
  BY FS_Union
<1>2. Cardinality(S \cap T) = 0
  BY FS_EmptySet
<1>3. Cardinality(S) \in Nat /\ Cardinality(T) \in Nat
  BY FS_CardinalityType
<1>. QED
  BY <1>1, <1>2, <1>3

\* Taking one number after the other from a counter, and giving one back.
LEMMA CountersAdd ==
    ASSUME NEW a \in Nat, NEW n \in Nat, a + n < CounterLimit
    PROVE  /\ Minus(Available, a) \in Counter
           /\ Minus(Minus(Available, a), n) = Minus(Available, a + n)
           /\ Plus(Minus(Available, a + n), n) = Minus(Available, a)
           /\ Plus(a, n) = a + n
           /\ Minus(a + n, n) = a
<1>1. Available \in Nat /\ CounterLimit \in Nat /\ Available < CounterLimit
  BY AvailableAssumption
<1>. QED
  BY <1>1 DEF Plus, Minus, Counter

\* What the bits of s add to a bitmap.
LEMMA BitsAdded ==
    ASSUME NEW l \in SUBSET Known, NEW s \in SUBSET Known, garbage \subseteq l
    PROVE  /\ Cardinality(s \ l) \in Nat
           /\ Cardinality((l \union s) \ garbage) = Cardinality(l \ garbage) + Cardinality(s \ l)
           /\ Cardinality(l \ garbage) \in Nat
           /\ Cardinality((l \union s) \ garbage) < CounterLimit
           /\ Cardinality(l \ BootFrames) \in Nat /\ Cardinality((l \union s) \ BootFrames) \in Nat
           /\ Cardinality((l \union s) \ BootFrames) <= Cardinality(l \ BootFrames) + Cardinality(s \ l)
           /\ s \subseteq BootFrames =>
                Cardinality((l \union s) \ BootFrames) = Cardinality(l \ BootFrames)
<1>1. IsFiniteSet(Known) /\ Cardinality(Known) < CounterLimit
  BY NumbersAreNat, FS_Union, MemoryAssumption DEF Known
<1>2. \A t \in SUBSET Known : IsFiniteSet(t) /\ Cardinality(t) \in Nat
                              /\ Cardinality(t) <= Cardinality(Known)
  BY <1>1, FS_Subset, FS_CardinalityType
<1>. DEFINE a == l \ garbage
            b == s \ l
            c == l \ BootFrames
            d == (s \ l) \ BootFrames
<1>3. a \in SUBSET Known /\ b \in SUBSET Known /\ c \in SUBSET Known /\ d \in SUBSET b
      /\ d \in SUBSET Known
  OBVIOUS
<1>4. a \union b = (l \union s) \ garbage /\ a \cap b = {}
  OBVIOUS
<1>5. c \union d = (l \union s) \ BootFrames /\ c \cap d = {}
  OBVIOUS
<1>6. Cardinality(a \union b) = Cardinality(a) + Cardinality(b)
  BY <1>2, <1>3, <1>4, DisjointUnion
<1>7. Cardinality(c \union d) = Cardinality(c) + Cardinality(d)
  BY <1>2, <1>3, <1>5, DisjointUnion
<1>8. Cardinality(d) <= Cardinality(b)
  BY <1>2, <1>3, FS_Subset
<1>9. /\ Cardinality(a) \in Nat /\ Cardinality(b) \in Nat /\ Cardinality(c) \in Nat
      /\ Cardinality(d) \in Nat /\ Cardinality(Known) \in Nat
      /\ Cardinality(a \union b) <= Cardinality(Known)
  BY <1>1, <1>2, <1>3, FS_CardinalityType
<1>10. s \subseteq BootFrames => c \union d = c
  OBVIOUS
<1>11. /\ Cardinality(a \union b) < CounterLimit
       /\ Cardinality(c \union d) \in Nat
       /\ Cardinality(c \union d) <= Cardinality(c) + Cardinality(b)
       /\ s \subseteq BootFrames => Cardinality(c \union d) = Cardinality(c)
  <2>1. CounterLimit \in Nat
    BY AvailableAssumption
  <2>2. s \subseteq BootFrames => Cardinality(c \union d) = Cardinality(c)
    BY <1>10
  <2>. HIDE DEF a, b, c, d
  <2>3. Cardinality(a \union b) < CounterLimit
    BY <1>1, <1>6, <1>9, <2>1
  <2>4. Cardinality(c \union d) \in Nat
        /\ Cardinality(c \union d) <= Cardinality(c) + Cardinality(b)
    BY <1>7, <1>8, <1>9
  <2>. QED
    BY <2>2, <2>3, <2>4
<1>. QED
  BY <1>4, <1>5, <1>6, <1>9, <1>11

LEMMA LockCounts ==
    ASSUME NEW m \in Mem, NEW s \in SUBSET Known, Counted(m)
    PROVE  /\ LockPages(m, s) \in Mem /\ LockPages(m, s).locked = m.locked \union s
           /\ Counted(LockPages(m, s))
<1>. DEFINE n == Cardinality(s \ m.locked)
            l == m.locked \union s
            a == m.used + m.reserved
<1>1. LockPages(m, s) =
        [m EXCEPT !.locked = l, !.free = Minus(@, n), !.used = Plus(@, n)]
  BY DEF LockPages
<1>2. /\ m.locked \in SUBSET Known /\ garbage \subseteq m.locked /\ l \in SUBSET Known
      /\ m.free \in Counter /\ m.used \in Counter /\ m.reserved \in Counter
      /\ a = Cardinality(m.locked \ garbage) /\ m.free = Minus(Available, a)
      /\ Cardinality(m.locked \ BootFrames) <= m.used
  BY DEF Mem, Counted
<1>3. /\ n \in Nat /\ Cardinality(l \ garbage) = a + n /\ a \in Nat /\ a + n < CounterLimit
      /\ Cardinality(m.locked \ BootFrames) \in Nat /\ Cardinality(l \ BootFrames) \in Nat
      /\ Cardinality(l \ BootFrames) <= Cardinality(m.locked \ BootFrames) + n
  <2>1. /\ Cardinality(s \ m.locked) \in Nat
        /\ Cardinality((m.locked \union s) \ garbage)
              = Cardinality(m.locked \ garbage) + Cardinality(s \ m.locked)
        /\ Cardinality(m.locked \ garbage) \in Nat
        /\ Cardinality((m.locked \union s) \ garbage) < CounterLimit
        /\ Cardinality(m.locked \ BootFrames) \in Nat
        /\ Cardinality((m.locked \union s) \ BootFrames) \in Nat
        /\ Cardinality((m.locked \union s) \ BootFrames)
              <= Cardinality(m.locked \ BootFrames) + Cardinality(s \ m.locked)
    BY <1>2, BitsAdded
  <2>. QED
    BY <1>2, <2>1
<1>4. LockPages(m, s) =
        [locked |-> l, free |-> Minus(m.free, n), used |-> Plus(m.used, n),
         reserved |-> m.reserved]
  BY <1>1 DEF Mem
<1>. HIDE DEF n, l
<1>5. CounterLimit \in Nat /\ m.used \in Nat /\ m.reserved \in Nat /\ m.used + n < CounterLimit
  BY <1>2, <1>3, AvailableAssumption DEF Counter
<1>6. Plus(m.used, n) = m.used + n
  BY <1>3, <1>5, CountersAdd
<1>7. (m.used + n) + m.reserved = a + n
  BY <1>3, <1>5
<1>8. /\ Minus(m.free, n) = Minus(Available, a + n) /\ Minus(Available, a + n) \in Counter
  <2>1. Minus(Minus(Available, a), n) = Minus(Available, a + n)
    BY <1>3, CountersAdd
  <2>2. a + n \in Nat /\ 0 \in Nat /\ a + n + 0 < CounterLimit
    BY <1>3
  <2>3. Minus(Available, a + n) \in Counter
    <3>. HIDE DEF a
    <3>. QED
      BY <2>2, CountersAdd
  <2>. QED
    BY <1>2, <2>1, <2>3
<1>9. LockPages(m, s) \in Mem /\ LockPages(m, s).locked = l
  <2>1. m.used + n \in Counter
    BY <1>3, <1>5 DEF Counter
  <2>. HIDE DEF a
  <2>. QED
    BY <1>2, <1>4, <1>6, <1>8, <2>1 DEF Mem
<1>10. Counted(LockPages(m, s))
  <2>1. garbage \subseteq l
    BY <1>2 DEF l
  <2>2. Cardinality(l \ BootFrames) <= m.used + n
    BY <1>2, <1>3, <1>5
  <2>. HIDE DEF a
  <2>. QED
    BY <1>3, <1>4, <1>6, <1>7, <1>8, <2>1, <2>2 DEF Counted
<1>. QED
  BY <1>9, <1>10 DEF l

LEMMA ReserveCounts ==
    ASSUME NEW m \in Mem, NEW s \in SUBSET BootFrames, Counted(m)
    PROVE  /\ ReservePages(m, s) \in Mem /\ ReservePages(m, s).locked = m.locked \union s
           /\ Counted(ReservePages(m, s))
<1>. DEFINE n == Cardinality(s \ m.locked)
            l == m.locked \union s
            a == m.used + m.reserved
<1>1. ReservePages(m, s) =
        [m EXCEPT !.locked = l, !.free = Minus(@, n), !.reserved = Plus(@, n)]
  BY DEF ReservePages
<1>2. /\ m.locked \in SUBSET Known /\ garbage \subseteq m.locked /\ l \in SUBSET Known
      /\ s \in SUBSET Known
      /\ m.free \in Counter /\ m.used \in Counter /\ m.reserved \in Counter
      /\ a = Cardinality(m.locked \ garbage) /\ m.free = Minus(Available, a)
      /\ Cardinality(m.locked \ BootFrames) <= m.used
  BY DEF Mem, Counted, Known
<1>3. /\ n \in Nat /\ Cardinality(l \ garbage) = a + n /\ a \in Nat /\ a + n < CounterLimit
      /\ Cardinality(l \ BootFrames) = Cardinality(m.locked \ BootFrames)
  <2>1. /\ Cardinality(s \ m.locked) \in Nat
        /\ Cardinality((m.locked \union s) \ garbage)
              = Cardinality(m.locked \ garbage) + Cardinality(s \ m.locked)
        /\ Cardinality(m.locked \ garbage) \in Nat
        /\ Cardinality((m.locked \union s) \ garbage) < CounterLimit
        /\ Cardinality((m.locked \union s) \ BootFrames) = Cardinality(m.locked \ BootFrames)
    BY <1>2, BitsAdded
  <2>. QED
    BY <1>2, <2>1
<1>4. ReservePages(m, s) =
        [locked |-> l, free |-> Minus(m.free, n), used |-> m.used,
         reserved |-> Plus(m.reserved, n)]
  BY <1>1 DEF Mem
<1>. HIDE DEF n, l
<1>5. /\ CounterLimit \in Nat /\ m.used \in Nat /\ m.reserved \in Nat
      /\ m.reserved + n < CounterLimit
  BY <1>2, <1>3, AvailableAssumption DEF Counter
<1>6. Plus(m.reserved, n) = m.reserved + n
  BY <1>3, <1>5, CountersAdd
<1>7. m.used + (m.reserved + n) = a + n
  BY <1>3, <1>5
<1>8. /\ Minus(m.free, n) = Minus(Available, a + n) /\ Minus(Available, a + n) \in Counter
  <2>1. Minus(Minus(Available, a), n) = Minus(Available, a + n)
    BY <1>3, CountersAdd
  <2>2. a + n \in Nat /\ 0 \in Nat /\ a + n + 0 < CounterLimit
    BY <1>3
  <2>3. Minus(Available, a + n) \in Counter
    <3>. HIDE DEF a
    <3>. QED
      BY <2>2, CountersAdd
  <2>. QED
    BY <1>2, <2>1, <2>3
<1>9. ReservePages(m, s) \in Mem /\ ReservePages(m, s).locked = l
  <2>1. m.reserved + n \in Counter
    BY <1>3, <1>5 DEF Counter
  <2>. HIDE DEF a
  <2>. QED
    BY <1>2, <1>4, <1>6, <1>8, <2>1 DEF Mem
<1>10. Counted(ReservePages(m, s))
  <2>1. garbage \subseteq l
    BY <1>2 DEF l
  <2>. HIDE DEF a
  <2>. QED
    BY <1>2, <1>3, <1>4, <1>6, <1>7, <1>8, <2>1 DEF Counted
<1>. QED
  BY <1>9, <1>10 DEF l

LEMMA FreeCounts ==
    ASSUME NEW m \in Mem, NEW f \in m.locked, f \notin BootFrames,
           garbage \subseteq BootFrames, Counted(m)
    PROVE  /\ FreePages(m, {f}) \in Mem /\ FreePages(m, {f}).locked = m.locked \ {f}
           /\ Counted(FreePages(m, {f}))
<1>. DEFINE l == m.locked \ {f}
            a == m.used + m.reserved
<1>1. /\ m.locked \in SUBSET Known /\ garbage \subseteq l /\ l \in SUBSET Known
      /\ m.free \in Counter /\ m.used \in Counter /\ m.reserved \in Counter
      /\ a = Cardinality(m.locked \ garbage) /\ m.free = Minus(Available, a)
      /\ Cardinality(m.locked \ BootFrames) <= m.used
  BY DEF Mem, Counted
<1>2. {f} \cap m.locked = {f} /\ Cardinality({f}) = 1
  BY FS_Singleton
<1>21. FreePages(m, {f}) =
        [m EXCEPT !.locked = l, !.free = Plus(@, 1), !.used = Minus(@, 1)]
  BY <1>2 DEF FreePages
<1>3. FreePages(m, {f}) =
        [locked |-> l, free |-> Plus(m.free, 1), used |-> Minus(m.used, 1),
         reserved |-> m.reserved]
  <2>. HIDE DEF l
  <2>. QED
    BY <1>21 DEF Mem
<1>4. /\ Cardinality(l \ garbage) = a - 1 /\ a \in Nat \ {0} /\ a < CounterLimit
      /\ Cardinality(l \ BootFrames) = Cardinality(m.locked \ BootFrames) - 1
      /\ Cardinality(m.locked \ BootFrames) \in Nat \ {0}
  <2>1. IsFiniteSet(Known) /\ Cardinality(Known) < CounterLimit
    BY NumbersAreNat, FS_Union, MemoryAssumption DEF Known
  <2>2. /\ IsFiniteSet(m.locked \ garbage) /\ IsFiniteSet(m.locked \ BootFrames)
        /\ Cardinality(m.locked \ garbage) <= Cardinality(Known)
    BY <1>1, <2>1, FS_Subset
  <2>3. /\ l \ garbage = (m.locked \ garbage) \ {f} /\ f \in m.locked \ garbage
        /\ l \ BootFrames = (m.locked \ BootFrames) \ {f} /\ f \in m.locked \ BootFrames
    OBVIOUS
  <2>. DEFINE u == m.locked \ garbage
              w == m.locked \ BootFrames
  <2>4. Cardinality(l \ garbage) = Cardinality(u) - 1
        /\ Cardinality(l \ BootFrames) = Cardinality(w) - 1
    <3>1. /\ IsFiniteSet(u) /\ f \in u /\ l \ garbage = u \ {f}
          /\ IsFiniteSet(w) /\ f \in w /\ l \ BootFrames = w \ {f}
      BY <2>2, <2>3
    <3>. HIDE DEF u, w, l
    <3>2. Cardinality(u \ {f}) = Cardinality(u) - 1
      BY <3>1, FS_RemoveElement
    <3>3. Cardinality(w \ {f}) = Cardinality(w) - 1
      BY <3>1, FS_RemoveElement
    <3>. QED
      BY <3>1, <3>2, <3>3
  <2>5. /\ Cardinality(m.locked \ garbage) \in Nat \ {0}
        /\ Cardinality(m.locked \ BootFrames) \in Nat \ {0}
    BY <2>2, <2>3, FS_CardinalityType, FS_EmptySet
  <2>6. Cardinality(Known) \in Nat /\ CounterLimit \in Nat
    BY <2>1, FS_CardinalityType, AvailableAssumption
  <2>. QED
    BY <1>1, <2>1, <2>2, <2>4, <2>5, <2>6
<1>. HIDE DEF l
<1>5. CounterLimit \in Nat /\ m.used \in Nat \ {0} /\ m.reserved \in Nat
  BY <1>1, <1>4, AvailableAssumption DEF Counter
<1>6. Minus(m.used, 1) = m.used - 1
  BY <1>5 DEF Minus
<1>7. m.used - 1 + m.reserved = a - 1
  BY <1>5
<1>. HIDE DEF a
<1>8. Plus(m.free, 1) = Minus(Available, a - 1) /\ Minus(Available, a - 1) \in Counter
  <2>1. a - 1 \in Nat /\ 1 \in Nat /\ (a - 1) + 1 < CounterLimit /\ (a - 1) + 1 = a
    BY <1>4
  <2>. DEFINE b == a - 1
  <2>. HIDE DEF b
  <2>2. b \in Nat /\ 1 \in Nat /\ b + 1 < CounterLimit /\ b + 1 = a
    BY <2>1 DEF b
  <2>3. Plus(Minus(Available, b + 1), 1) = Minus(Available, b) /\ Minus(Available, b) \in Counter
    BY <2>2, CountersAdd
  <2>. QED
    BY <1>1, <2>2, <2>3 DEF b
<1>9. FreePages(m, {f}) \in Mem /\ FreePages(m, {f}).locked = l
  <2>1. m.used - 1 \in Counter
    BY <1>1, <1>5 DEF Counter
  <2>. QED
    BY <1>1, <1>3, <1>6, <1>8, <2>1 DEF Mem
<1>10. Counted(FreePages(m, {f}))
  <2>1. Cardinality(l \ BootFrames) <= m.used - 1
    BY <1>1, <1>4, <1>5
  <2>2. /\ FreePages(m, {f}).locked = l /\ FreePages(m, {f}).used = m.used - 1
        /\ FreePages(m, {f}).reserved = m.reserved
        /\ FreePages(m, {f}).free = Minus(Available, a - 1)
    BY <1>3, <1>6, <1>8
  <2>. QED
    BY <1>1, <1>4, <1>7, <2>1, <2>2 DEF Counted
<1>. QED
  BY <1>9, <1>10 DEF l

---------------------------------------------------------------------------
(* What the steps have in common.                                          *)

\* The part of the invariant that is about directories and frames.
Framed ==
    /\ UnusedEmpty /\ IdentityMapped /\ Owned /\ Distinct /\ NoneLost

LEMMA LiveIsSpace ==
    ASSUME TypeOK
    PROVE  /\ LiveSpaces \subseteq Spaces
           /\ \A p \in Procs : p \in LiveSpaces <=> state[p] # "none"
           /\ Kernel \in LiveSpaces <=> boot = "done"
BY NumbersAreNat DEF LiveSpaces

\* Steps that leave the frames and the spaces as they are.
LEMMA FramesUnchanged ==
    ASSUME Framed, mem'.locked = mem.locked, boot' = boot, LiveSpaces' = LiveSpaces,
           LiveSpaces \subseteq Spaces,
           \A t \in Spaces : \A w \in OwnPages : dirs'[t][w].frame = dirs[t][w].frame,
           \A t \in Spaces : \A w \in IdentityPages : dirs'[t][w] = dirs[t][w]
    PROVE  Framed'
<1>1. UnusedEmpty' /\ IdentityMapped'
  BY DEF Framed, UnusedEmpty, IdentityMapped
<1>2. Owned'
  BY DEF Framed, Owned
<1>3. Distinct'
  BY DEF Framed, Distinct
<1>4. NoneLost'
  BY DEF Framed, NoneLost
<1>. QED
  BY <1>1, <1>2, <1>3, <1>4 DEF Framed

\* A page that gets a frame gets one that was nobody's; a page that gets none
\* keeps the frame it has.
LEMMA AllocKeeps ==
    ASSUME TypeOK, Framed, Counted(mem), BootFrames \subseteq mem.locked,
           boot = "done", boot' = boot, state' = state, garbage' = garbage,
           NEW s \in LiveSpaces, NEW v \in OwnPages,
           NEW entry \in Entry, entry.frame = dirs[s][v].frame, AllocFrame(s, v, entry)
    PROVE  /\ mem' \in Mem /\ dirs' \in [Spaces -> [Pages -> Entry]]
           /\ BootFrames \subseteq mem'.locked /\ Framed' /\ Counted(mem)'
           /\ Reserved \subseteq mem'.locked
           /\ \A t \in Spaces : \A w \in Pages :
                t # s \/ w # v => dirs'[t][w] = dirs[t][w]
           /\ \/ dirs'[s][v].frame # 0
              \/ dirs'[s][v] = entry /\ dirs[s][v].frame = 0 /\ NoneFree(mem)
<1>1. s \in Spaces /\ v \in Pages /\ LiveSpaces' = LiveSpaces /\ LiveSpaces \subseteq Spaces
  BY LiveIsSpace DEF LiveSpaces, OwnPages
<1>2. mem \in Mem /\ dirs \in [Spaces -> [Pages -> Entry]]
  BY DEF TypeOK
<1>3. Reserved \subseteq BootFrames
  BY DEF BootFrames
<1>4. ASSUME dirs' = [dirs EXCEPT ![s][v] = entry] /\ mem' = mem,
             dirs[s][v].frame # 0 \/ NoneFree(mem)
      PROVE  /\ mem' \in Mem /\ dirs' \in [Spaces -> [Pages -> Entry]]
             /\ BootFrames \subseteq mem'.locked /\ Framed' /\ Counted(mem)'
             /\ \A t \in Spaces : \A w \in Pages :
                  t # s \/ w # v => dirs'[t][w] = dirs[t][w]
             /\ \/ dirs'[s][v].frame # 0
                \/ dirs'[s][v] = entry /\ dirs[s][v].frame = 0 /\ NoneFree(mem)
  <2>1. dirs' \in [Spaces -> [Pages -> Entry]]
    BY <1>1, <1>2, <1>4
  <2>2. \A t \in Spaces : \A w \in Pages : t # s \/ w # v => dirs'[t][w] = dirs[t][w]
    BY <1>1, <1>2, <1>4
  <2>3. dirs'[s][v] = entry
    BY <1>1, <1>2, <1>4
  <2>4. \A t \in Spaces : \A w \in OwnPages : dirs'[t][w].frame = dirs[t][w].frame
    BY <2>2, <2>3 DEF OwnPages
  <2>5. \A t \in Spaces : \A w \in IdentityPages : dirs'[t][w] = dirs[t][w]
    BY <2>2 DEF OwnPages, Pages
  <2>6. Framed'
    BY <1>1, <1>4, <2>4, <2>5, FramesUnchanged
  <2>. QED
    BY <1>2, <1>3, <1>4, <2>1, <2>2, <2>3, <2>6 DEF Counted
<1>5. ASSUME NEW f \in Frames, IsFirstFree(mem, f), mem' = LockFrame(mem, f),
             dirs[s][v].frame = 0, dirs' = [dirs EXCEPT ![s][v] = Mapped(f)]
      PROVE  /\ mem' \in Mem /\ dirs' \in [Spaces -> [Pages -> Entry]]
             /\ BootFrames \subseteq mem'.locked /\ Framed' /\ Counted(mem)'
             /\ \A t \in Spaces : \A w \in Pages :
                  t # s \/ w # v => dirs'[t][w] = dirs[t][w]
             /\ dirs'[s][v].frame # 0
  <2>1. f \notin mem.locked /\ f \notin BootFrames /\ f # 0 /\ f \in Nat /\ {f} \in SUBSET Known
    BY <1>5, NumbersAreNat DEF IsFirstFree, Known
  <2>2. mem' \in Mem /\ mem'.locked = mem.locked \union {f} /\ Counted(mem)'
    <3>1. Counted(LockPages(mem, {f}))
      BY <1>2, <2>1, LockCounts
    <3>2. mem' = LockPages(mem, {f})
      BY <1>5 DEF LockFrame
    <3>3. Counted(mem)' <=> Counted(mem')
      BY DEF Counted
    <3>. QED
      BY <1>2, <2>1, <3>1, <3>2, <3>3, LockCounts
  <2>3. Mapped(f) \in Entry /\ Mapped(f).frame = f
    BY <2>1 DEF Mapped, Entry
  <2>4. dirs' \in [Spaces -> [Pages -> Entry]]
    BY <1>1, <1>2, <1>5, <2>3
  <2>5. \A t \in Spaces : \A w \in Pages : t # s \/ w # v => dirs'[t][w] = dirs[t][w]
    BY <1>1, <1>2, <1>5
  <2>6. dirs'[s][v].frame = f
    BY <1>1, <1>2, <1>5, <2>3
  <2>7. \A t \in Spaces : \A w \in OwnPages : t # s \/ w # v => dirs'[t][w] = dirs[t][w]
    BY <2>5 DEF OwnPages
  <2>8. UnusedEmpty'
    BY <1>1, <2>7 DEF Framed, UnusedEmpty
  <2>9. IdentityMapped'
    BY <1>1, <2>5 DEF Framed, IdentityMapped, OwnPages, Pages
  <2>10. Owned'
    <3>. SUFFICES ASSUME NEW t \in LiveSpaces, NEW w \in OwnPages, dirs'[t][w].frame # 0
                  PROVE  dirs'[t][w].frame \in Frames \cap mem'.locked /\ dirs'[t][w].frame \notin BootFrames
      BY <1>1 DEF Owned
    <3>1. CASE t = s /\ w = v
      BY <1>5, <2>1, <2>2, <2>6, <3>1
    <3>2. CASE t # s \/ w # v
      BY <1>1, <2>2, <2>7, <3>2 DEF Framed, Owned
    <3>. QED
      BY <3>1, <3>2
  <2>11. \A t \in LiveSpaces : \A w \in OwnPages : dirs[t][w].frame # f
    BY <2>1 DEF Framed, Owned
  <2>12. Distinct'
    <3>. SUFFICES ASSUME NEW t \in LiveSpaces, NEW w \in OwnPages,
                         NEW u \in LiveSpaces, NEW x \in OwnPages,
                         dirs'[t][w].frame # 0, dirs'[t][w].frame = dirs'[u][x].frame
                  PROVE  t = u /\ w = x
      BY <1>1 DEF Distinct
    <3>1. CASE (t = s /\ w = v) \/ (u = s /\ x = v)
      BY <1>1, <2>6, <2>7, <2>11, <3>1
    <3>2. CASE (t # s \/ w # v) /\ (u # s \/ x # v)
      BY <1>1, <2>7, <3>2 DEF Framed, Distinct
    <3>. QED
      BY <3>1, <3>2
  <2>13. NoneLost'
    <3>. SUFFICES ASSUME NEW g \in mem'.locked \ BootFrames
                  PROVE  \E t \in LiveSpaces : \E w \in OwnPages : dirs'[t][w].frame = g
      BY <1>1 DEF NoneLost
    <3>1. CASE g = f
      BY <2>6, <3>1
    <3>2. CASE g # f
      <4>1. PICK t \in LiveSpaces : \E w \in OwnPages : dirs[t][w].frame = g
        BY <2>2, <3>2 DEF Framed, NoneLost
      <4>2. PICK w \in OwnPages : dirs[t][w].frame = g
        BY <4>1
      <4>3. g # 0
        BY NumbersAreNat
      <4>4. dirs'[t][w].frame = g
        BY <1>1, <1>5, <2>7, <4>2, <4>3
      <4>. QED
        BY <4>4
    <3>. QED
      BY <3>1, <3>2
  <2>. QED
    BY <2>1, <2>2, <2>4, <2>5, <2>6, <2>8, <2>9, <2>10, <2>12, <2>13 DEF Framed
<1>. QED
  BY <1>3, <1>4, <1>5 DEF AllocFrame

---------------------------------------------------------------------------
(* The invariant.                                                          *)

LEMMA InitInv == ASSUME Init PROVE IInv
<1>1. /\ garbage \in SUBSET Beyond /\ starved = {}
      /\ mem = [locked |-> garbage, free |-> Available, used |-> 0, reserved |-> 0]
  BY DEF Init
<1>2. /\ mem.locked = garbage /\ mem.free = Available /\ mem.used = 0 /\ mem.reserved = 0
      /\ mem \in Mem /\ garbage \cap Frames = {} /\ IsFiniteSet(garbage)
      /\ garbage \subseteq BootFrames
  <2>1. garbage \cap Frames = {} /\ garbage \subseteq BootFrames
    BY <1>1 DEF Beyond
  <2>2. IsFiniteSet(garbage)
    BY <2>1, NumbersAreNat, FS_Subset
  <2>3. mem \in Mem
    BY <1>1, <2>1, AvailableAssumption DEF Mem, Known, Counter
  <2>. QED
    BY <1>1, <2>1, <2>2, <2>3
<1>3. LiveSpaces = {}
  BY DEF Init, LiveSpaces
<1>4. Idle \in [kind : {"none", "alloc", "free"}, proc : Spaces, left : SUBSET ProcPages]
  BY NumbersAreNat DEF Idle
<1>5. EmptyDir \in [Pages -> Entry] /\ \A v \in Pages : EmptyDir[v].frame = 0
  BY DEF EmptyDir, NoPage, Entry
<1>6. TypeOK
  BY <1>1, <1>2, <1>4, <1>5 DEF Init, TypeOK
<1>7. Counted(mem)
  <2>1. mem.locked \ garbage = {} /\ mem.locked \ BootFrames = {}
    BY <1>2
  <2>2. Cardinality(mem.locked \ garbage) = 0 /\ Cardinality(mem.locked \ BootFrames) = 0
    BY <2>1, FS_EmptySet
  <2>3. Minus(Available, 0) = Available
    BY AvailableAssumption DEF Minus
  <2>. QED
    BY <1>2, <2>2, <2>3 DEF Counted
<1>8. BootOrder /\ JobMatches
  BY <1>2 DEF Init, BootOrder, JobMatches, Idle
<1>9. UnusedEmpty /\ ProcessPages
  BY <1>5, NumbersAreNat DEF Init, UnusedEmpty, ProcessPages, OwnPages
<1>10. IdentityMapped /\ Owned /\ Distinct /\ NoneLost /\ Explained
  BY <1>3 DEF Init, IdentityMapped, Owned, Distinct, NoneLost, Explained
<1>. QED
  BY <1>6, <1>7, <1>8, <1>9, <1>10 DEF IInv

LEMMA IdentityDirType ==
    /\ IdentityDir \in [Pages -> Entry]
    /\ \A v \in IdentityPages : IdentityDir[v] = Mapped(v)
    /\ \A v \in OwnPages : IdentityDir[v].frame = 0 /\ ~IdentityDir[v].present
BY NumbersAreNat DEF IdentityDir, Mapped, NoPage, Entry, OwnPages, Pages

LEMMA PhysInitKeeps == ASSUME IInv, PhysInit PROVE IInv'
<1>1. /\ BitmapFrames \in SUBSET Known /\ Reserved \in SUBSET BootFrames /\ mem \in Mem
  BY BitmapIsLocked DEF Known, BootFrames, IInv, TypeOK
<1>. DEFINE m == LockPages(mem, BitmapFrames)
<1>2. m \in Mem /\ Counted(m)
  BY <1>1, LockCounts DEF IInv
<1>. HIDE DEF m
<1>3. mem' \in Mem /\ Reserved \subseteq mem'.locked /\ Counted(mem')
  BY <1>1, <1>2, ReserveCounts DEF PhysInit, m
<1>5. boot = "off" /\ boot' = "phys" /\ UNCHANGED <<dirs, state, job, garbage, starved>>
  BY DEF PhysInit, history
<1>4. Counted(mem)'
  BY <1>3, <1>5 DEF Counted
<1>6. LiveSpaces = {} /\ LiveSpaces' = {}
  BY <1>5 DEF IInv, BootOrder, LiveSpaces
<1>7. TypeOK' /\ BootOrder'
  <2>1. BitmapFrames \subseteq BootFrames /\ Reserved \subseteq BootFrames
    BY BitmapIsLocked DEF BootFrames
  <2>2. mem'.locked = mem.locked \union BitmapFrames \union Reserved
    <3>1. m.locked = mem.locked \union BitmapFrames
      BY <1>1, LockCounts DEF m, IInv
    <3>. QED
      BY <1>1, <1>2, <3>1, ReserveCounts DEF PhysInit, m
  <2>. QED
    BY <1>3, <1>5, <2>1, <2>2 DEF IInv, TypeOK, BootOrder
<1>8. UnusedEmpty' /\ JobMatches' /\ ProcessPages'
  BY <1>5, <1>6 DEF IInv, UnusedEmpty, JobMatches, ProcessPages
<1>9. IdentityMapped' /\ Owned' /\ Distinct' /\ NoneLost' /\ Explained'
  BY <1>5, <1>6 DEF IdentityMapped, Owned, Distinct, NoneLost, Explained
<1>. QED
  BY <1>4, <1>7, <1>8, <1>9 DEF IInv

LEMMA KernelInitKeeps == ASSUME IInv, KernelInit PROVE IInv'
<1>1. LockedFor(0, KernelEnd) \in SUBSET Known /\ FbFrames \in SUBSET Known /\ mem \in Mem
  BY DEF Known, BootFrames, IInv, TypeOK
<1>. DEFINE m == LockPages(mem, LockedFor(0, KernelEnd))
<1>2. m \in Mem /\ Counted(m) /\ m.locked = mem.locked \union LockedFor(0, KernelEnd)
  BY <1>1, LockCounts DEF IInv
<1>. HIDE DEF m
<1>3. mem' \in Mem /\ mem'.locked = m.locked \union FbFrames /\ Counted(mem')
  BY <1>1, <1>2, LockCounts DEF KernelInit, m
<1>5. /\ boot = "phys" /\ boot' = "done" /\ UNCHANGED <<state, job, garbage, starved>>
      /\ dirs' = [dirs EXCEPT ![Kernel] = IdentityDir]
  BY DEF KernelInit, history
<1>4. Counted(mem)'
  BY <1>3, <1>5 DEF Counted
<1>6. LiveSpaces = {} /\ LiveSpaces' = {Kernel} /\ \A p \in Procs : state[p] = "none"
  BY <1>5 DEF IInv, BootOrder, LiveSpaces
<1>7. BootFrames \subseteq mem'.locked /\ Reserved \subseteq mem'.locked
  BY <1>2, <1>3, <1>5 DEF IInv, BootOrder, BootFrames
<1>8. /\ dirs' \in [Spaces -> [Pages -> Entry]] /\ dirs'[Kernel] = IdentityDir
      /\ \A s \in Spaces \ {Kernel} : dirs'[s] = dirs[s]
  BY <1>5, IdentityDirType, NumbersAreNat DEF IInv, TypeOK
<1>9. TypeOK' /\ BootOrder'
  BY <1>3, <1>5, <1>7, <1>8 DEF IInv, TypeOK, BootOrder
<1>10. \A s \in Spaces : \A v \in OwnPages : dirs'[s][v].frame = 0
  BY <1>6, <1>8, IdentityDirType DEF IInv, UnusedEmpty
<1>11. job = Idle /\ JobMatches'
  BY <1>5 DEF IInv, BootOrder, JobMatches, Idle
<1>12. UnusedEmpty' /\ ProcessPages' /\ IdentityMapped' /\ Owned' /\ Distinct' /\ Explained'
  BY <1>6, <1>8, <1>10, IdentityDirType, NumbersAreNat
  DEF UnusedEmpty, ProcessPages, IdentityMapped, Owned, Distinct, Explained
<1>13. NoneLost'
  <2>1. mem'.locked \subseteq BootFrames
    BY <1>2, <1>3, <1>5 DEF IInv, BootOrder, BootFrames
  <2>. QED
    BY <2>1 DEF NoneLost
<1>. QED
  BY <1>4, <1>9, <1>11, <1>12, <1>13 DEF IInv

\* Steps that only look at the queues.
LEMMA QueueStepsKeep ==
    ASSUME IInv, NEW p \in Procs, TaskEnds(p) \/ Reap(p) \/ TaskMade
    PROVE  IInv'
<1>1. /\ mem' = mem /\ dirs' = dirs /\ boot' = boot /\ boot = "done"
      /\ garbage' = garbage /\ starved' = starved
  BY DEF TaskEnds, Reap, TaskMade, Running, IInv, BootOrder, Idle, history
<1>2. TypeOK' /\ LiveSpaces' = LiveSpaces
  <2>1. TypeOK /\ JobMatches
    BY DEF IInv
  <2>2. CASE TaskEnds(p)
    BY <1>1, <2>1, <2>2 DEF TaskEnds, TypeOK, LiveSpaces
  <2>3. CASE Reap(p)
    BY <1>1, <2>1, <2>3, NumbersAreNat DEF Reap, Job, TypeOK, LiveSpaces
  <2>4. CASE TaskMade
    BY <1>1, <2>1, <2>4, NumbersAreNat DEF TaskMade, Idle, JobMatches, TypeOK, LiveSpaces
  <2>. QED
    BY <2>2, <2>3, <2>4
<1>3. JobMatches'
  <2>1. TypeOK /\ JobMatches
    BY DEF IInv
  <2>2. CASE TaskEnds(p)
    BY <2>1, <2>2 DEF TaskEnds, Running, JobMatches, Idle
  <2>3. CASE Reap(p)
    BY <2>1, <2>3 DEF Reap, Job, JobMatches
  <2>4. CASE TaskMade
    BY <2>4 DEF TaskMade, Idle, JobMatches
  <2>. QED
    BY <2>2, <2>3, <2>4
<1>4. BootOrder' /\ ProcessPages' /\ Counted(mem)'
  BY <1>1 DEF IInv, BootOrder, ProcessPages, Counted
<1>5. Framed'
  <2>1. Framed /\ LiveSpaces \subseteq Spaces
    BY LiveIsSpace DEF IInv, Framed
  <2>. QED
    BY <1>1, <1>2, <2>1, FramesUnchanged
<1>6. Explained'
  <2>1. \A q \in Procs : state[q] = "dead" => state'[q] = "dead"
    <3>1. TypeOK /\ JobMatches
      BY DEF IInv
    <3>2. CASE TaskEnds(p)
      BY <3>1, <3>2 DEF TaskEnds, TypeOK
    <3>3. CASE Reap(p)
      BY <3>3 DEF Reap
    <3>4. CASE TaskMade
      BY <3>1, <3>4 DEF TaskMade, JobMatches, TypeOK
    <3>. QED
      BY <3>2, <3>3, <3>4
  <2>. QED
    BY <1>1, <1>2, <2>1 DEF IInv, Explained
<1>. QED
  BY <1>2, <1>3, <1>4, <1>5, <1>6 DEF IInv, Framed

LEMMA NewKernelTaskKeeps == ASSUME IInv, NEW p \in Procs, NewKernelTask(p) PROVE IInv'
<1>1. /\ boot = "done" /\ boot' = boot /\ mem' = mem /\ state[p] = "none" /\ job = Idle
      /\ state' = [state EXCEPT ![p] = "making"] /\ job' = Job("alloc", p)
      /\ dirs' = [dirs EXCEPT ![p] = IdentityDir]
      /\ garbage' = garbage /\ starved' = starved
  BY DEF NewKernelTask, Running, history
<1>2. TypeOK /\ LiveSpaces \subseteq Spaces /\ p \in Spaces /\ p \notin LiveSpaces
  BY <1>1, LiveIsSpace, NumbersAreNat DEF IInv
<1>3. /\ dirs' \in [Spaces -> [Pages -> Entry]] /\ dirs'[p] = IdentityDir
      /\ \A s \in Spaces \ {p} : dirs'[s] = dirs[s]
  BY <1>1, <1>2, IdentityDirType DEF TypeOK
<1>4. LiveSpaces' = LiveSpaces \union {p}
  BY <1>1, <1>2 DEF LiveSpaces, TypeOK
<1>5. \A s \in Spaces : \A v \in OwnPages : dirs'[s][v].frame = dirs[s][v].frame
  BY <1>2, <1>3, IdentityDirType DEF IInv, UnusedEmpty
<1>6. TypeOK' /\ BootOrder' /\ JobMatches' /\ Counted(mem)'
  BY <1>1, <1>2, <1>3, NumbersAreNat DEF IInv, TypeOK, BootOrder, JobMatches, Job, Counted
<1>7. ProcessPages'
  BY <1>5, NumbersAreNat DEF IInv, ProcessPages
<1>8. UnusedEmpty'
  BY <1>2, <1>4, <1>5 DEF IInv, UnusedEmpty
<1>9. IdentityMapped'
  BY <1>2, <1>3, <1>4, IdentityDirType DEF IInv, IdentityMapped
<1>10. \A v \in OwnPages : dirs'[p][v].frame = 0
  BY <1>3, IdentityDirType
<1>11. Owned'
  BY <1>1, <1>2, <1>4, <1>5, <1>10 DEF IInv, Owned
<1>12. Distinct'
  BY <1>2, <1>4, <1>5, <1>10 DEF IInv, Distinct
<1>13. NoneLost'
  BY <1>1, <1>2, <1>4, <1>5 DEF IInv, NoneLost
<1>14. Explained'
  <2>1. \A v \in OwnPages : ~dirs'[p][v].present
    BY <1>3, IdentityDirType
  <2>2. \A q \in Procs \ {p} : state'[q] = state[q]
    BY <1>1, <1>2 DEF TypeOK
  <2>. QED
    BY <1>1, <1>2, <1>3, <1>4, <2>1, <2>2 DEF IInv, Explained
<1>. QED
  BY <1>6, <1>7, <1>8, <1>9, <1>11, <1>12, <1>13, <1>14 DEF IInv

LEMMA AllocAddressKeeps == ASSUME IInv, AllocAddress PROVE IInv'
<1>. DEFINE p == job.proc
<1>1. PICK v \in job.left :
        AllocFrame(p, v, dirs[p][v]) /\ job' = [job EXCEPT !.left = @ \ {v}]
  BY DEF AllocAddress
<1>2. /\ job.kind = "alloc" /\ p \in Procs /\ state[p] = "making" /\ v \in ProcPages
      /\ job \in [kind : {"none", "alloc", "free"}, proc : Spaces, left : SUBSET ProcPages]
      /\ boot = "done" /\ boot' = boot /\ state' = state /\ TypeOK
      /\ garbage' = garbage /\ starved' = starved
  <2>1. TypeOK /\ JobMatches /\ BootOrder
    BY DEF IInv
  <2>. QED
    BY <2>1 DEF AllocAddress, JobMatches, TypeOK, BootOrder, history
<1>3. v \in OwnPages /\ v \in Pages /\ p \in Spaces /\ p \in LiveSpaces
  BY <1>2, NumbersAreNat, LiveIsSpace DEF OwnPages
<1>4. dirs[p][v] \in Entry
  BY <1>2, <1>3 DEF TypeOK
<1>. HIDE DEF p
<1>5. /\ mem' \in Mem /\ dirs' \in [Spaces -> [Pages -> Entry]]
      /\ BootFrames \subseteq mem'.locked /\ Framed' /\ Counted(mem)'
      /\ Reserved \subseteq mem'.locked
      /\ \A t \in Spaces : \A w \in Pages : t # p \/ w # v => dirs'[t][w] = dirs[t][w]
      /\ dirs'[p][v].frame # 0 \/ dirs'[p][v] = dirs[p][v]
  <2>1. Framed /\ Counted(mem) /\ BootFrames \subseteq mem.locked
    BY <1>2 DEF IInv, Framed, BootOrder
  <2>. QED
    BY <1>1, <1>2, <1>3, <1>4, <2>1, AllocKeeps
<1>6. /\ job'.kind = "alloc" /\ job'.proc = p
      /\ job' \in [kind : {"none", "alloc", "free"}, proc : Spaces, left : SUBSET ProcPages]
  BY <1>1, <1>2 DEF p
<1>7. TypeOK' /\ BootOrder' /\ JobMatches'
  BY <1>2, <1>5, <1>6 DEF TypeOK, BootOrder, JobMatches
<1>8. ProcessPages'
  <2>1. \A t \in Procs : \A w \in OwnPages \ ProcPages : dirs[t][w].frame = 0
    BY DEF IInv, ProcessPages
  <2>2. \A t \in Procs : \A w \in OwnPages \ ProcPages : dirs'[t][w] = dirs[t][w]
    BY <1>2, <1>5, NumbersAreNat DEF OwnPages
  <2>3. \A t \in Procs : \A w \in OwnPages \ ProcPages : dirs'[t][w].frame = 0
    BY <2>1, <2>2
  <2>. QED
    BY <2>3 DEF ProcessPages
<1>9. Explained'
  <2>1. LiveSpaces' = LiveSpaces /\ LiveSpaces \subseteq Spaces
    BY <1>2, LiveIsSpace DEF LiveSpaces
  <2>2. \A t \in LiveSpaces : \A w \in OwnPages :
            dirs'[t][w].frame # 0 \/ dirs'[t][w] = dirs[t][w]
    BY <1>5, <2>1 DEF OwnPages
  <2>. QED
    BY <1>2, <2>1, <2>2 DEF IInv, Explained
<1>. QED
  BY <1>5, <1>7, <1>8, <1>9 DEF IInv, Framed

\* pageFaultHandler, whoever faulted.
LEMMA RepairKeeps ==
    ASSUME IInv, NEW v \in OwnPages, Repair(v), boot = "done", UNCHANGED <<state, job, boot>>
    PROVE  IInv'
<1>. DEFINE entry == [dirs[Kernel][v] EXCEPT !.present = TRUE]
<1>1. /\ AllocFrame(Kernel, v, entry) /\ boot = "done" /\ boot' = boot /\ state' = state
      /\ job' = job /\ TypeOK /\ garbage' = garbage
      /\ starved' = IF dirs[Kernel][v].frame = 0 /\ NoneFree(mem)
                      THEN starved \union {v} ELSE starved \ {v}
  BY DEF Repair, IInv
<1>2. v \in OwnPages /\ v \in Pages /\ Kernel \in LiveSpaces /\ Kernel \in Spaces
  BY <1>1, NumbersAreNat, LiveIsSpace DEF OwnPages
<1>3. entry \in Entry /\ entry.frame = dirs[Kernel][v].frame
  <2>1. dirs[Kernel][v] \in Entry
    BY <1>1, <1>2 DEF TypeOK
  <2>. QED
    BY <2>1 DEF Entry
<1>. HIDE DEF entry
<1>4. /\ mem' \in Mem /\ dirs' \in [Spaces -> [Pages -> Entry]]
      /\ BootFrames \subseteq mem'.locked /\ Framed' /\ Counted(mem)'
      /\ Reserved \subseteq mem'.locked
      /\ \A t \in Spaces : \A w \in Pages : t # Kernel \/ w # v => dirs'[t][w] = dirs[t][w]
      /\ \/ dirs'[Kernel][v].frame # 0
         \/ dirs[Kernel][v].frame = 0 /\ NoneFree(mem)
  <2>1. Framed /\ Counted(mem) /\ BootFrames \subseteq mem.locked
    BY <1>1 DEF IInv, Framed, BootOrder
  <2>. QED
    BY <1>1, <1>2, <1>3, <2>1, AllocKeeps
<1>5. TypeOK' /\ BootOrder'
  <2>1. starved' \in SUBSET OwnPages
    BY <1>1, <1>2 DEF TypeOK
  <2>. QED
    BY <1>1, <1>4, <2>1 DEF TypeOK, BootOrder, IInv
<1>6. \A t \in Procs : \A w \in OwnPages : dirs'[t][w] = dirs[t][w]
  BY <1>4, NumbersAreNat DEF OwnPages
<1>7. ProcessPages'
  <2>1. \A t \in Procs : \A w \in OwnPages \ ProcPages : dirs[t][w].frame = 0
    BY DEF IInv, ProcessPages
  <2>2. \A t \in Procs : \A w \in OwnPages \ ProcPages : dirs'[t][w].frame = 0
    BY <1>6, <2>1
  <2>. QED
    BY <2>2 DEF ProcessPages
<1>8. JobMatches'
  BY <1>1, <1>6, NumbersAreNat DEF IInv, JobMatches
<1>9. Explained'
  <2>1. LiveSpaces' = LiveSpaces /\ LiveSpaces \subseteq Spaces
    BY <1>1, LiveIsSpace DEF LiveSpaces
  <2>. SUFFICES ASSUME NEW t \in LiveSpaces, NEW w \in OwnPages,
                       dirs'[t][w].present, dirs'[t][w].frame = 0
                PROVE  \/ t = Kernel /\ w \in starved'
                       \/ t \in Procs /\ state[t] = "dead"
    BY <1>1, <2>1 DEF Explained
  <2>2. CASE t = Kernel /\ w = v
    BY <1>1, <1>4, <2>2
  <2>3. CASE t # Kernel \/ w # v
    <3>1. dirs'[t][w] = dirs[t][w]
      BY <1>4, <2>1, <2>3 DEF OwnPages
    <3>2. \/ t = Kernel /\ w \in starved
          \/ t \in Procs /\ state[t] = "dead"
      BY <3>1 DEF IInv, Explained
    <3>. QED
      BY <1>1, <2>3, <3>2
  <2>. QED
    BY <2>2, <2>3
<1>. QED
  BY <1>4, <1>5, <1>7, <1>8, <1>9 DEF IInv, Framed

LEMMA FaultsKeep ==
    ASSUME IInv, StackFault \/ \E s \in Spaces : \E v \in FaultPages : PageFault(s, v)
    PROVE  IInv'
<1>1. CASE StackFault
  <2>1. StackTop \in OwnPages
    BY MemoryAssumption, NumbersAreNat
  <2>2. boot = "done"
    BY <1>1 DEF StackFault, IInv, BootOrder, Idle
  <2>. QED
    BY <1>1, <2>1, <2>2, RepairKeeps DEF StackFault
<1>2. ASSUME NEW s \in Spaces, NEW v \in FaultPages, PageFault(s, v) PROVE IInv'
  <2>1. v \in OwnPages
    BY NumbersAreNat
  <2>. QED
    BY <1>2, <2>1, RepairKeeps DEF PageFault, Running
<1>. QED
  BY <1>1, <1>2

\* A frame that is given back was that page's alone, so nobody loses one.
LEMMA FreeAddressKeeps == ASSUME IInv, FreeAddress PROVE IInv'
<1>. DEFINE p == job.proc
<1>1. PICK v \in job.left :
        /\ mem' = FreeFrame(mem, dirs[p][v].frame)
        /\ dirs' = [dirs EXCEPT ![p][v].frame = 0]
        /\ job' = [job EXCEPT !.left = @ \ {v}]
  BY DEF FreeAddress
<1>2. /\ job.kind = "free" /\ p \in Procs /\ state[p] = "dead" /\ v \in ProcPages
      /\ job \in [kind : {"none", "alloc", "free"}, proc : Spaces, left : SUBSET ProcPages]
      /\ boot = "done" /\ boot' = boot /\ state' = state /\ TypeOK
      /\ \A w \in ProcPages \ job.left : dirs[p][w].frame = 0
      /\ garbage' = garbage /\ starved' = starved
  <2>1. TypeOK /\ JobMatches /\ BootOrder
    BY DEF IInv
  <2>. QED
    BY <2>1 DEF FreeAddress, JobMatches, TypeOK, BootOrder, history
<1>3. v \in OwnPages /\ v \in Pages /\ p \in Spaces /\ p \in LiveSpaces
  BY <1>2, NumbersAreNat, LiveIsSpace DEF OwnPages
<1>4. dirs \in [Spaces -> [Pages -> Entry]] /\ dirs[p][v] \in Entry /\ mem \in Mem
  BY <1>2, <1>3 DEF TypeOK
<1>5. LiveSpaces' = LiveSpaces /\ LiveSpaces \subseteq Spaces /\ ProcPages \subseteq OwnPages
  BY <1>2, NumbersAreNat, LiveIsSpace DEF LiveSpaces
<1>6. /\ job'.kind = "free" /\ job'.proc = p /\ job'.left = job.left \ {v}
      /\ job' \in [kind : {"none", "alloc", "free"}, proc : Spaces, left : SUBSET ProcPages]
  BY <1>1, <1>2
<1>. HIDE DEF p
<1>7. /\ dirs' \in [Spaces -> [Pages -> Entry]] /\ dirs'[p][v].frame = 0
      /\ \A t \in Spaces : \A w \in Pages : t # p \/ w # v => dirs'[t][w] = dirs[t][w]
  <2>1. [dirs[p][v] EXCEPT !.frame = 0] \in Entry /\ [dirs[p][v] EXCEPT !.frame = 0].frame = 0
    BY <1>4 DEF Entry
  <2>2. dirs' = [dirs EXCEPT ![p] = [dirs[p] EXCEPT ![v] = [dirs[p][v] EXCEPT !.frame = 0]]]
    BY <1>1, <1>3, <1>4
  <2>. DEFINE e == [dirs[p][v] EXCEPT !.frame = 0]
  <2>. HIDE DEF e
  <2>3. e \in Entry /\ e.frame = 0 /\ dirs' = [dirs EXCEPT ![p] = [dirs[p] EXCEPT ![v] = e]]
    BY <2>1, <2>2 DEF e
  <2>. QED
    BY <1>3, <1>4, <2>3
<1>8. \A t \in Spaces : \A w \in OwnPages : t # p \/ w # v => dirs'[t][w] = dirs[t][w]
  BY <1>7 DEF OwnPages
<1>. DEFINE f == dirs[p][v].frame
<1>9. /\ mem' \in Mem /\ Counted(mem)' /\ BootFrames \subseteq mem'.locked
      /\ mem'.locked = mem.locked \ (IF f = 0 THEN {} ELSE {f})
  <2>1. CASE f = 0
    <3>1. mem' = mem
      BY <1>1, <2>1 DEF FreeFrame, p
    <3>. QED
      BY <1>2, <1>4, <2>1, <3>1 DEF IInv, Counted, BootOrder
  <2>2. CASE f # 0
    <3>1. f \in Frames \cap mem.locked /\ f \notin BootFrames
      BY <1>3, <2>2 DEF IInv, Owned
    <3>2. mem' = FreePages(mem, {f})
      BY <1>1, <2>2 DEF FreeFrame, p
    <3>3. /\ Counted(mem) /\ BootFrames \subseteq mem.locked
          /\ garbage \subseteq BootFrames
      BY <1>2 DEF IInv, BootOrder, TypeOK, Beyond
    <3>. HIDE DEF f
    <3>4. mem' \in Mem /\ mem'.locked = mem.locked \ {f} /\ Counted(mem')
      BY <1>4, <3>1, <3>2, <3>3, FreeCounts
    <3>5. Counted(mem)'
      BY <1>2, <3>4 DEF Counted
    <3>. QED
      BY <2>2, <3>1, <3>3, <3>4, <3>5
  <2>. QED
    BY <2>1, <2>2
<1>10. TypeOK' /\ BootOrder'
  <2>1. Reserved \subseteq BootFrames
    BY DEF BootFrames
  <2>. QED
    BY <1>2, <1>6, <1>7, <1>9, <2>1 DEF TypeOK, BootOrder
<1>11. JobMatches'
  <2>1. \A w \in ProcPages \ job'.left : dirs'[p][w].frame = 0
    BY <1>2, <1>3, <1>5, <1>6, <1>7, <1>8
  <2>. QED
    BY <1>2, <1>6, <2>1 DEF JobMatches
<1>12. ProcessPages'
  BY <1>2, <1>5, <1>8, NumbersAreNat DEF IInv, ProcessPages
<1>13. UnusedEmpty'
  BY <1>3, <1>5, <1>8 DEF IInv, UnusedEmpty
<1>14. IdentityMapped'
  BY <1>3, <1>5, <1>7 DEF IInv, IdentityMapped, OwnPages, Pages
<1>15. \A t \in LiveSpaces : \A w \in OwnPages : dirs'[t][w].frame # 0 =>
            (t # p \/ w # v) /\ dirs'[t][w] = dirs[t][w]
  BY <1>5, <1>7, <1>8
<1>16. Owned'
  <2>. SUFFICES ASSUME NEW t \in LiveSpaces, NEW w \in OwnPages, dirs'[t][w].frame # 0
                PROVE  dirs'[t][w].frame \in Frames \cap mem'.locked /\ dirs'[t][w].frame \notin BootFrames
    BY <1>5 DEF Owned
  <2>1. (t # p \/ w # v) /\ dirs'[t][w] = dirs[t][w]
    BY <1>15
  <2>2. dirs[t][w].frame \in Frames \cap mem.locked /\ dirs[t][w].frame \notin BootFrames
    BY <2>1 DEF IInv, Owned
  <2>3. dirs[t][w].frame # f
    BY <1>3, <2>1 DEF IInv, Distinct
  <2>. QED
    BY <1>9, <2>1, <2>2, <2>3
<1>17. Distinct'
  BY <1>5, <1>15 DEF IInv, Distinct
<1>18. NoneLost'
  <2>. SUFFICES ASSUME NEW g \in mem'.locked \ BootFrames
                PROVE  \E t \in LiveSpaces : \E w \in OwnPages : dirs'[t][w].frame = g
    BY <1>5 DEF NoneLost
  <2>1. g \in mem.locked /\ g # f /\ g # 0
    BY <1>9, NumbersAreNat
  <2>2. PICK t \in LiveSpaces : \E w \in OwnPages : dirs[t][w].frame = g
    BY <1>2, <2>1 DEF IInv, NoneLost
  <2>3. PICK w \in OwnPages : dirs[t][w].frame = g
    BY <2>2
  <2>4. t # p \/ w # v
    BY <2>1, <2>3
  <2>5. dirs'[t][w].frame = g
    BY <1>5, <1>8, <2>3, <2>4
  <2>. QED
    BY <2>5
<1>19. Explained'
  <2>1. \A t \in LiveSpaces : \A w \in OwnPages : t # p => dirs'[t][w] = dirs[t][w]
    BY <1>5, <1>8
  <2>. QED
    BY <1>2, <1>5, <2>1 DEF IInv, Explained
<1>. QED
  BY <1>9, <1>10, <1>11, <1>12, <1>13, <1>14, <1>16, <1>17, <1>18, <1>19 DEF IInv

\* When the reaper is done the process has no frame left to lose.
LEMMA ReapedKeeps == ASSUME IInv, Reaped PROVE IInv'
<1>. DEFINE p == job.proc
<1>1. /\ job.kind = "free" /\ job.left = {} /\ p \in Procs /\ state[p] = "dead"
      /\ state' = [state EXCEPT ![p] = "none"] /\ dirs' = [dirs EXCEPT ![p] = EmptyDir]
      /\ job' = Idle /\ mem' = mem /\ boot' = boot /\ boot = "done" /\ TypeOK
      /\ \A w \in ProcPages : dirs[p][w].frame = 0
      /\ garbage' = garbage /\ starved' = starved
  <2>1. TypeOK /\ JobMatches /\ BootOrder
    BY DEF IInv
  <2>. QED
    BY <2>1 DEF Reaped, JobMatches, TypeOK, BootOrder, history
<1>. HIDE DEF p
<1>2. p \in Spaces /\ p # Kernel /\ Idle.kind = "none" /\ LiveSpaces \subseteq Spaces
      /\ Idle \in [kind : {"none", "alloc", "free"}, proc : Spaces, left : SUBSET ProcPages]
  BY <1>1, NumbersAreNat, LiveIsSpace DEF Idle
<1>3. \A v \in OwnPages : dirs[p][v].frame = 0
  BY <1>1 DEF IInv, ProcessPages
<1>4. EmptyDir \in [Pages -> Entry] /\ \A v \in OwnPages : EmptyDir[v].frame = 0
  BY DEF EmptyDir, NoPage, Entry, OwnPages
<1>5. /\ dirs' \in [Spaces -> [Pages -> Entry]] /\ dirs'[p] = EmptyDir
      /\ \A s \in Spaces \ {p} : dirs'[s] = dirs[s]
  BY <1>1, <1>2, <1>4 DEF TypeOK
<1>6. LiveSpaces' = LiveSpaces \ {p}
  BY <1>1, <1>2 DEF LiveSpaces, TypeOK
<1>7. \A s \in Spaces : \A v \in OwnPages : dirs'[s][v].frame = dirs[s][v].frame
  BY <1>3, <1>4, <1>5
<1>8. TypeOK' /\ BootOrder' /\ JobMatches' /\ Counted(mem)'
  BY <1>1, <1>2, <1>5 DEF IInv, TypeOK, BootOrder, JobMatches, Idle, Counted
<1>9. ProcessPages' /\ UnusedEmpty'
  BY <1>2, <1>3, <1>6, <1>7, NumbersAreNat DEF IInv, ProcessPages, UnusedEmpty
<1>10. IdentityMapped'
  BY <1>2, <1>5, <1>6 DEF IInv, IdentityMapped
<1>11. Owned' /\ Distinct'
  BY <1>1, <1>2, <1>6, <1>7 DEF IInv, Owned, Distinct
<1>12. NoneLost'
  <2>. SUFFICES ASSUME NEW g \in mem.locked \ BootFrames
                PROVE  \E t \in LiveSpaces \ {p} : \E w \in OwnPages : dirs'[t][w].frame = g
    BY <1>1, <1>6 DEF NoneLost
  <2>1. PICK t \in LiveSpaces : \E w \in OwnPages : dirs[t][w].frame = g
    BY <1>1 DEF IInv, NoneLost
  <2>2. PICK w \in OwnPages : dirs[t][w].frame = g
    BY <2>1
  <2>3. g # 0
    BY NumbersAreNat
  <2>. QED
    BY <1>2, <1>3, <1>7, <2>2, <2>3
<1>13. Explained'
  <2>1. \A q \in Procs \ {p} : state'[q] = state[q]
    BY <1>1 DEF TypeOK
  <2>. QED
    BY <1>1, <1>2, <1>5, <1>6, <2>1 DEF IInv, Explained
<1>. QED
  BY <1>8, <1>9, <1>10, <1>11, <1>12, <1>13 DEF IInv

LEMMA StepInv == ASSUME IInv, [Next]_vars PROVE IInv'
<1>1. CASE UNCHANGED vars
  BY <1>1 DEF vars, IInv, TypeOK, BootOrder, UnusedEmpty, JobMatches, ProcessPages,
              IdentityMapped, Owned, Distinct, NoneLost, Explained, Counted, LiveSpaces,
              history
<1>2. ASSUME NEW p \in Procs, NewKernelTask(p) \/ TaskEnds(p) \/ Reap(p) PROVE IInv'
  BY <1>2, NewKernelTaskKeeps, QueueStepsKeep
<1>3. CASE TaskMade
  <2>1. job.proc \in Procs
    BY <1>3 DEF TaskMade, IInv, JobMatches
  <2>. QED
    BY <1>3, <2>1, QueueStepsKeep
<1>4. CASE StackFault \/ \E s \in Spaces : \E v \in FaultPages : PageFault(s, v)
  BY <1>4, FaultsKeep
<1>. QED
  BY <1>1, <1>2, <1>3, <1>4, PhysInitKeeps, KernelInitKeeps, AllocAddressKeeps,
     FreeAddressKeeps, ReapedKeeps DEF Next

LEMMA Invariance == Spec => []IInv
<1>1. Init => IInv
  BY InitInv
<1>2. IInv /\ [Next]_vars => IInv'
  BY StepInv
<1>. QED
  BY <1>1, <1>2, PTL DEF Spec

---------------------------------------------------------------------------
\* Pages, entries, bits and jobs keep their types (virtualMemory.cpp).
THEOREM TypeCorrect == Spec => []TypeOK
<1>1. IInv => TypeOK
  BY DEF IInv
<1>. QED
  BY <1>1, Invariance, PTL

\* No frame that a page was given is behind two pages of any two spaces or is
\* one of the kernel's, and a page is mapped to frame 0 only when a fault found
\* no frame for it or the reaper took its own (allocFrame, freeFrame).
THEOREM NoFrameShared == Spec => []FramesOwned
<1>1. ASSUME IInv PROVE FramesOwned
  <2>1. Owned /\ Distinct
    BY <1>1 DEF IInv
  <2>2. ASSUME NEW o \in Owners
        PROVE  /\ FrameOf(o) = dirs[o[1]][o[2]].frame /\ FrameOf(o) # 0
               /\ o[1] \in LiveSpaces /\ o[2] \in OwnPages /\ o = <<o[1], o[2]>>
    BY <2>2 DEF Owners, FrameOf, OwnPages
  <2>3. \A o \in Owners : FrameOf(o) \in Frames \cap mem.locked /\ FrameOf(o) \notin BootFrames
    BY <2>1, <2>2 DEF Owned
  <2>4. ASSUME NEW o \in Owners, NEW q \in Owners, FrameOf(o) = FrameOf(q)
        PROVE  o = q
    <3>1. o[1] = q[1] /\ o[2] = q[2]
      BY <2>1, <2>2, <2>4 DEF Distinct
    <3>2. o = <<o[1], o[2]>> /\ q = <<q[1], q[2]>>
      BY <2>2
    <3>. QED
      BY <3>1, <3>2
  <2>5. ASSUME NEW o \in OnFrameZero
        PROVE  \/ o[1] = Kernel /\ o[2] \in starved
               \/ o[1] \in Procs /\ state[o[1]] = "dead"
    <3>1. /\ o[1] \in LiveSpaces /\ o[2] \in OwnPages
          /\ dirs[o[1]][o[2]].present /\ dirs[o[1]][o[2]].frame = 0
      BY DEF OnFrameZero, OwnPages
    <3>. QED
      BY <1>1, <3>1 DEF IInv, Explained
  <2>. QED
    BY <2>3, <2>4, <2>5 DEF FramesOwned
<1>. QED
  BY <1>1, Invariance, PTL

\* What newKernelTask and the faults take from the allocator is behind a page
\* until the reaper gives it back.
THEOREM NoFrameLost == Spec => []LockedIsOwned
<1>1. ASSUME IInv PROVE LockedIsOwned
  <2>. SUFFICES ASSUME boot = "done", NEW f \in mem.locked \ BootFrames
                PROVE  \E o \in Owners : FrameOf(o) = f
    BY DEF LockedIsOwned
  <2>1. PICK s \in LiveSpaces : \E v \in OwnPages : dirs[s][v].frame = f
    BY <1>1 DEF IInv, NoneLost
  <2>2. PICK v \in OwnPages : dirs[s][v].frame = f
    BY <2>1
  <2>3. f # 0
    BY NumbersAreNat
  <2>4. <<s, v>> \in Owners /\ FrameOf(<<s, v>>) = f
    BY <2>2, <2>3 DEF Owners, FrameOf, OwnPages
  <2>. QED
    BY <2>4
<1>. QED
  BY <1>1, Invariance, PTL

\* The kernel, its heap and the framebuffer are identity mapped in every space
\* (mapKernelMem).
THEOREM KernelStays == Spec => []IdentityKept
<1>1. ASSUME IInv PROVE IdentityKept
  <2>. SUFFICES ASSUME NEW s \in LiveSpaces, NEW v \in NeededPages
                PROVE  v \in Pages /\ dirs[s][v] = Mapped(v)
    BY DEF IdentityKept
  <2>1. v \in IdentityPages
    BY IdentityComplete
  <2>. QED
    BY <1>1, <2>1 DEF IInv, IdentityMapped, Pages
<1>. QED
  BY <1>1, Invariance, PTL

\* The counters of pmem follow the bits, and free is short of the free frames
\* by what pads the bitmap and by the bits beyond it that boot found clear, until
\* it wraps (lockPage, reservePage, freePage).
THEOREM CountersAddUp == Spec => []CountersTrue
<1>1. ASSUME IInv PROVE CountersTrue
  <2>1. /\ mem.used + mem.reserved = Cardinality(mem.locked \ garbage)
        /\ mem.free = Minus(Available, mem.used + mem.reserved)
        /\ mem.locked \in SUBSET Known /\ garbage \in SUBSET Beyond
    BY <1>1 DEF IInv, Counted, TypeOK, Mem
  <2>2. ASSUME boot = "done"
        PROVE  mem.free = Minus(Cardinality(Frames \ mem.locked),
                                BitmapBits - Available + Cardinality(Beyond \ garbage))
    <3>. DEFINE a == mem.locked \cap Frames
                b == Beyond \ garbage
                c == Frames \ mem.locked
    <3>1. Beyond \subseteq mem.locked /\ Beyond \cap Frames = {}
      BY <1>1, <2>2 DEF IInv, BootOrder, Beyond
    <3>2. mem.locked \ garbage = a \union b /\ a \cap b = {}
      BY <2>1, <3>1 DEF Known, Beyond
    <3>3. a \union c = Frames /\ a \cap c = {}
      OBVIOUS
    <3>4. IsFiniteSet(a) /\ IsFiniteSet(b) /\ IsFiniteSet(c)
      BY NumbersAreNat, FS_Subset DEF Beyond
    <3>5. /\ Cardinality(a) \in Nat /\ Cardinality(b) \in Nat /\ Cardinality(c) \in Nat
      BY <3>4, FS_CardinalityType
    <3>6. BitmapBits \in Nat /\ Available \in Nat /\ Cardinality(Frames) = BitmapBits
      <4>1. BitmapBits \in Nat /\ Available \in Nat /\ BitmapBits > 0
        BY AvailableAssumption DEF BitmapBits
      <4>2. Cardinality(0..(BitmapBits - 1)) = BitmapBits
        BY <4>1, FS_Interval
      <4>. QED
        BY <4>1, <4>2 DEF Frames
    <3>7. Cardinality(mem.locked \ garbage) = Cardinality(a) + Cardinality(b)
      BY <3>2, <3>4, DisjointUnion
    <3>8. BitmapBits = Cardinality(a) + Cardinality(c)
      BY <3>3, <3>4, <3>6, DisjointUnion
    <3>9. mem.free = Minus(Available, Cardinality(a) + Cardinality(b))
      BY <2>1, <3>7
    <3>10. Minus(Available, Cardinality(a) + Cardinality(b))
             = Minus(Cardinality(c), BitmapBits - Available + Cardinality(b))
      <4>1. CounterLimit \in Nat
        BY AvailableAssumption
      <4>. HIDE DEF a, b, c
      <4>. QED
        BY <3>5, <3>6, <3>8, <4>1 DEF Minus
    <3>. QED
      BY <3>9, <3>10
  <2>. QED
    BY <2>1, <2>2 DEF CountersTrue
<1>. QED
  BY <1>1, Invariance, PTL
=============================================================================
