--------------------------- MODULE VirtualMemory ---------------------------
(***************************************************************************)
(* The page directories of the kernel and of the processes, and the frames *)
(* behind their pages (virtualMemory.cpp, newKernelTask and the reaper of  *)
(* processManager.cpp, pagefaultHandler).  A page is known by its number,  *)
(* and the identity mapping puts page n in frame n.                        *)
(*                                                                         *)
(* newKernelTask and the reaper work with interrupts off, one page after   *)
(* the other: while job is not Idle nothing else runs.                     *)
(***************************************************************************)
EXTENDS PageFrames

CONSTANTS
    Procs, Kernel,
    PageSize,
    KernelEnd,          \* TOTAL_KERNEL_END_ADDR
    BitmapFrames,       \* where the bitmap lies, below KernelEnd
    Reserved,           \* frames of the regions that are not available
    FbPage, FbLength,   \* the framebuffer's first page and its length
    ProcPages,          \* PROCESS_STACK_START and PROCESS_HEAP_START onwards
    StackTop,           \* the last page of a new process's stack
    FaultPages          \* pages that somebody writes to although nobody mapped them

Spaces == Procs \union {Kernel}

\* Mutant: a page that is only partly inside is left out.
PagesFromWhole(first, end) == {v \in first..end : (v + 1) * PageSize <= end}

\* The while of identityPaging from the start of page first.
PagesFrom(first, end) == {v \in first..end : v * PageSize < end}

KernelPages == PagesFrom(0, KernelEnd)
FbPages == PagesFrom(FbPage, FbPage * PageSize + FbLength)
IdentityPages == KernelPages \union FbPages
Pages == IdentityPages \union ProcPages \union FaultPages

\* What kernelInit locks: one page more than length has.
LockedFor(first, length) == first..(first + length \div PageSize)
FbFrames == LockedFor(FbPage, FbLength)

\* Frames nobody may be given: the kernel's with its heap, the framebuffer's,
\* and those reserved.
BootFrames == LockedFor(0, KernelEnd) \union FbFrames \union Reserved

ASSUME MemoryAssumption ==
    /\ Kernel \notin Procs
    /\ PageSize \in Nat \ {0} /\ KernelEnd \in Nat \ {0} /\ FbPage \in Nat /\ FbLength \in Nat
    /\ BitmapFrames \subseteq KernelPages
    /\ Reserved \subseteq Nat /\ IsFiniteSet(Reserved)
    /\ ProcPages \union FaultPages \subseteq Nat \ {0}
    /\ (ProcPages \union FaultPages) \cap IdentityPages = {}
    /\ StackTop \in ProcPages
    /\ Cardinality(Frames \union BootFrames) < CounterLimit

VARIABLES
    mem,    \* the allocator: locked bits and counters
    dirs,   \* of every space, the entry of every page
    state,  \* of every process: "none", "making", "alive" or "dead"
    job,    \* the pages that newKernelTask or the reaper still has to visit
    boot,   \* "off", "phys" or "done"
    \* History of what happened, for the properties only.
    garbage, \* the bits beyond the bitmap that were set at power-on
    starved  \* pages of the kernel's that a fault found no frame for

history == <<garbage, starved>>
vars == <<mem, dirs, state, job, boot, history>>

NoPage == [frame |-> 0, present |-> FALSE]
Mapped(f) == [frame |-> f, present |-> TRUE]
EmptyDir == [v \in Pages |-> NoPage]
IdentityDir == [v \in Pages |-> IF v \in IdentityPages THEN Mapped(v) ELSE NoPage]

Idle == [kind |-> "none", proc |-> Kernel, left |-> {}]
Job(kind, p) == [kind |-> kind, proc |-> p, left |-> ProcPages]

\* Bits beyond the bitmap are what that memory happens to hold.
Beyond == BootFrames \ Frames

Init ==
    /\ garbage \in SUBSET Beyond /\ starved = {}
    /\ mem = [locked |-> garbage, free |-> Available, used |-> 0, reserved |-> 0]
    /\ dirs = [s \in Spaces |-> EmptyDir]
    /\ state = [p \in Procs |-> "none"]
    /\ job = Idle
    /\ boot = "off"

\* phys_mem.init: the bitmap's own frames, then what is not available.
PhysInit ==
    /\ boot = "off" /\ boot' = "phys"
    /\ mem' = ReservePages(LockPages(mem, BitmapFrames), Reserved)
    /\ UNCHANGED <<dirs, state, job, history>>

\* kernelInit: the kernel with its heap and the framebuffer, each rounded up by
\* one page, are locked and mapped.
KernelInit ==
    /\ boot = "phys" /\ boot' = "done"
    /\ mem' = LockPages(LockPages(mem, LockedFor(0, KernelEnd)), FbFrames)
    /\ dirs' = [dirs EXCEPT ![Kernel] = IdentityDir]
    /\ UNCHANGED <<state, job, history>>

Running == boot = "done" /\ job = Idle

\* newKernelTask up to init(): a new directory that shares the kernel's pages.
NewKernelTask(p) ==
    /\ Running /\ state[p] = "none"
    /\ state' = [state EXCEPT ![p] = "making"]
    /\ dirs' = [dirs EXCEPT ![p] = IdentityDir]
    /\ job' = Job("alloc", p)
    /\ UNCHANGED <<mem, boot, history>>

Next1(left, v) == v \in left /\ \A w \in left : v <= w

\* Mutant: the frame is not locked.
LockNothing(m, f) == m
LockFrame(m, f) == LockPages(m, {f})

\* allocFrame: a frame it has is kept; with no frame free it prints a panic and
\* leaves the page as it is.  Frame 0 is never free after kernelInit.
AllocFrame(s, v, entry) ==
    \/ /\ dirs[s][v].frame # 0
       /\ dirs' = [dirs EXCEPT ![s][v] = entry] /\ mem' = mem
    \/ /\ dirs[s][v].frame = 0
       /\ \E f \in Frames :
            /\ IsFirstFree(mem, f)
            /\ mem' = LockFrame(mem, f)
            /\ dirs' = [dirs EXCEPT ![s][v] = Mapped(f)]
    \/ /\ dirs[s][v].frame = 0 /\ NoneFree(mem)
       /\ dirs' = [dirs EXCEPT ![s][v] = entry] /\ mem' = mem

\* One turn of the loop of allocAddresses, over the stack and then the heap.
AllocAddress ==
    /\ job.kind = "alloc"
    /\ \E v \in job.left :
        /\ Next1(job.left, v)
        /\ AllocFrame(job.proc, v, dirs[job.proc][v])
        /\ job' = [job EXCEPT !.left = @ \ {v}]
    /\ UNCHANGED <<state, boot, history>>

\* pageFaultHandler: the page of the kernel's directory is repaired, for
\* _currentPagingSys is never anything else, and is present even when no frame
\* was left: it is then mapped to frame 0, the kernel's.
Repair(v) ==
    /\ AllocFrame(Kernel, v, [dirs[Kernel][v] EXCEPT !.present = TRUE])
    /\ starved' = IF dirs[Kernel][v].frame = 0 /\ NoneFree(mem)
                    THEN starved \union {v} ELSE starved \ {v}
    /\ garbage' = garbage

NewStack == dirs[job.proc][StackTop]

\* newTask, which writes to the new stack and ends with sti.
TaskMade ==
    /\ job.kind = "alloc" /\ job.left = {}
    /\ NewStack.present
    /\ state' = [state EXCEPT ![job.proc] = "alive"]
    /\ job' = Idle
    /\ UNCHANGED <<mem, dirs, boot, history>>

\* The new stack got no frame: newTask's write faults with interrupts off, and
\* again each time it is resumed.
StackFault ==
    /\ job.kind = "alloc" /\ job.left = {}
    /\ ~NewStack.present
    /\ Repair(StackTop)
    /\ UNCHANGED <<state, job, boot>>

\* Exit or kill; the queues of ProcessManager are not looked at here.
TaskEnds(p) ==
    /\ Running /\ state[p] = "alive"
    /\ state' = [state EXCEPT ![p] = "dead"]
    /\ UNCHANGED <<mem, dirs, job, boot, history>>

\* The timer interrupts the kernel and finds p in _to_delete.
Reap(p) ==
    /\ Running /\ state[p] = "dead"
    /\ job' = Job("free", p)
    /\ UNCHANGED <<mem, dirs, state, boot, history>>

\* Mutant: the bit stays.
FreeNothing(m, f) == m
\* freeFrame: the bit goes, the entry stays present.
FreeFrame(m, f) == IF f = 0 THEN m ELSE FreePages(m, {f})

FreeAddress ==
    /\ job.kind = "free"
    /\ \E v \in job.left :
        /\ Next1(job.left, v)
        /\ mem' = FreeFrame(mem, dirs[job.proc][v].frame)
        /\ dirs' = [dirs EXCEPT ![job.proc][v].frame = 0]
        /\ job' = [job EXCEPT !.left = @ \ {v}]
    /\ UNCHANGED <<state, boot, history>>

\* The paging system and the PCB go back to the kernel's heap.
Reaped ==
    /\ job.kind = "free" /\ job.left = {}
    /\ state' = [state EXCEPT ![job.proc] = "none"]
    /\ dirs' = [dirs EXCEPT ![job.proc] = EmptyDir]
    /\ job' = Idle
    /\ UNCHANGED <<mem, boot, history>>

\* A write to a page that is not present, by the kernel or by a process.
PageFault(s, v) ==
    /\ Running
    /\ s \in {Kernel} \union {p \in Procs : state[p] = "alive"}
    /\ ~dirs[s][v].present
    /\ Repair(v)
    /\ UNCHANGED <<state, job, boot>>

Next ==
    \/ PhysInit \/ KernelInit
    \/ \E p \in Procs : NewKernelTask(p) \/ TaskEnds(p) \/ Reap(p)
    \/ AllocAddress \/ TaskMade \/ StackFault \/ FreeAddress \/ Reaped
    \/ \E s \in Spaces : \E v \in FaultPages : PageFault(s, v)

Spec == Init /\ [][Next]_vars

----------------------------------------------------------------------------
LiveSpaces == {p \in Procs : state[p] # "none"} \union (IF boot = "done" THEN {Kernel} ELSE {})

\* <<space, page>> of the pages that were given a frame of their own.
Owners == {o \in LiveSpaces \X (Pages \ IdentityPages) : dirs[o[1]][o[2]].frame # 0}
FrameOf(o) == dirs[o[1]][o[2]].frame

\* Those that are mapped without one: frame 0 is behind them.
OnFrameZero ==
    {o \in LiveSpaces \X (Pages \ IdentityPages) :
        dirs[o[1]][o[2]].present /\ dirs[o[1]][o[2]].frame = 0}

\* A frame behind a page is locked, is no other page's in any space, and is
\* none of the kernel's and none of the reserved.  A present page that has no
\* frame of its own is mapped to the kernel's frame 0: that is so for the pages
\* a fault found no frame for, which alias each other and the kernel, for as
\* long as they go without, and for what the reaper has taken from a dead
\* process, and for no other page (allocFrame, freeFrame and the faults that
\* repair the kernel's directory for a process).
FramesOwned ==
    /\ \A o \in Owners : FrameOf(o) \in Frames \cap mem.locked /\ FrameOf(o) \notin BootFrames
    /\ \A o, q \in Owners : FrameOf(o) = FrameOf(q) => o = q
    /\ \A o \in OnFrameZero :
        \/ o[1] = Kernel /\ o[2] \in starved
        \/ o[1] \in Procs /\ state[o[1]] = "dead"

\* No frame is lost: one that is locked was locked at boot or is behind a page
\* of a space that still exists (the reaper frees all that newKernelTask took).
LockedIsOwned ==
    boot = "done" =>
        \A f \in mem.locked \ BootFrames : \E o \in Owners : FrameOf(o) = f

\* The pages of every byte that the kernel, its heap and the framebuffer have.
NeededPages ==
    {a \div PageSize : a \in 0..(KernelEnd - 1)}
        \union {FbPage + a \div PageSize : a \in 0..(FbLength - 1)}

\* The kernel, its heap and the framebuffer are at their physical addresses in
\* every space: an interrupt runs in the space of whoever it interrupted
\* (mapKernelMem, and what faults and the reaper change).
IdentityKept ==
    \A s \in LiveSpaces : \A v \in NeededPages : v \in Pages /\ dirs[s][v] = Mapped(v)

\* The counters of pmem: used and reserved are the bits set since the bitmap
\* was cleared, and free is what is left of the available pages.  It is not the
\* number of free frames: it lacks the bits that pad the bitmap and every bit
\* beyond it that boot found clear, and once fewer frames than that are left it
\* has wrapped to an enormous number.
CountersTrue ==
    /\ mem.used + mem.reserved = Cardinality(mem.locked \ garbage)
    /\ mem.free = Minus(Available, mem.used + mem.reserved)
    /\ boot = "done" =>
        mem.free = Minus(Cardinality(Frames \ mem.locked),
                         BitmapBits - Available + Cardinality(Beyond \ garbage))
=============================================================================
