# Kibro OS in TLA+

Kibro is a 32-bit x86 kernel with a preemptive scheduler, paging, a heap, an
AHCI disk with a small ext2-like file system, a keyboard, a screen and a shell
that runs inside the kernel task. This directory models its parts in TLA+,
checks them with TLC on small instances and proves what matters most with TLAPS.

## Inventory

| part | state | operations | interacts with |
|---|---|---|---|
| process manager (`cpu/processManager.cpp`) | high, low and to-delete lists, current task, two history flags, a PCB per process | `initMultitasking`, `newKernelTask`, `startTask`, `killTask`, `taskEntryFunction`, `runNextTask` | called by the timer interrupt and the shell; frees memory through the virtual memory and the heap |
| intrusive queue (`headers/queue.h`) | head, size, one `next` per PCB | `push`, `pop`, `remove`, `rotate`, `peekEnd`, `clear` | the lists of the process manager share the `next` field |
| keyboard (`drivers/keyboard.cpp`) | modifiers, ring of characters, two indices | interrupt handler `sendToQueue`; reader `getFromQueue`, `reset` | the shell reads while the handler writes |
| shell input (`user_shell/cmd.cpp`) | the line being typed | `getInput`, `startShell` | keyboard, screen, every command |
| heap (`memory/memoryAllocator.cpp`, `libs/dList.cpp`) | tags in the pool, free list, three counters | `malloc`, `mallocAligned`, `free`, coalescing | page tables, PCBs, disk buffers; every process has a heap too |
| disk port (`drivers/diskPort.cpp`) | the disk, a temporary buffer | `read`, `write`, `access` | file system above, AHCI device below |
| page frames (`memory/pageFrameAllocator.cpp`, `bitmap.cpp`, `memoryMap.cpp`) | one bit per frame, three counters | request, free, lock, reserve | virtual memory |
| virtual memory (`memory/virtualMemory.cpp`) | a directory of pages per process and one of the kernel | map at boot and for a process, free, page-fault handler | frames, heap, process manager |
| file system (`fs/`) | super block, bitmaps, inodes and blocks on the disk; current directory, its list and its path in memory | format, mount, create, remove, move, rename, read, write, append | disk port, heap, shell commands |
| screen (`drivers/screen.cpp`) | cursor, shown and printing flags | print a character, clear, cursor width, blink from the timer | everything prints |
| shell commands (`user_shell/shellCommands.cpp`) | none | one function per command | process manager, file system, screen |
| timer (`cpu/PIT.cpp`) | milliseconds since boot | tick, sleep | drives the scheduler and the blinking |
| GDT, IDT, PCI, AHCI discovery, serial line, string helpers | tables | boot-time set-up, output | - |

What is hard in it: the timer interrupt cuts into the shell anywhere, calls
itself recursively and frees memory; the keyboard handler shares a ring with a
reader that takes no lock; the allocator trusts words at the ends of its
blocks; a disk write is up to three commands, each of which may fail; a file
command is several disk writes, and the power may go between them; the list of
the current directory is kept twice, in memory and on the disk; page faults and
processes take frames until there are none; the cursor blinks in the middle of
a character; `cli` and `sti` do not nest. `PROJECT.json` lists these hazards
line by line.

What makes each part correct: every process is on exactly one list until its
memory is freed, runs if it is alive and never again once it is dead; the ring
is a first-in first-out queue and the line is what was typed; the blocks of the
heap tile the pool and nobody's data is overwritten; a write to the disk
changes its own bytes only; a frame has one owner and comes back when the owner
dies, and the kernel is mapped whoever runs; a directory entry leads to a live
inode, whatever was cut short, and the files are a tree that a command changes in
one step; no pixel is drawn outside the framebuffer and the cursor goes on
blinking.

## Modules

| module | what it models |
|---|---|
| `ProcessManager` | the three lists, the scheduler, `exec`, `kill`, process exit; one action per call, the four ways `runNextTask` can go as `RetireCurrent`, `SwitchToChosen`, `RetireChosen`, `KeepRunning` |
| `ProcessManager_proofs` | its theorems |
| `TaskLists` / `IntrusiveQueue` / `IntrusiveQueue_proofs` | what the scheduler expects of lists / `queue.h` at the level of pointers, with stale `next` fields / theorems |
| `InputQueue` / `Keyboard` | what the keyboard promises / the driver with its interrupt handler and a reader cut between its two accesses |
| `CommandLine` / `CommandLine_proofs` | `getInput` on top of `Keyboard` / theorems about both |
| `Heap` / `Heap_proofs` | the boundary-tag allocator, counted in words of four bytes; tags outside blocks keep whatever was written last / theorems |
| `ByteDevice` / `DiskPort` / `DiskPort_proofs` | what a disk promises / sectors, read-modify-write and failing commands / theorems |
| `PageFrames` | the bitmap and the counters as operators on one record |
| `VirtualMemory` / `VirtualMemory_proofs` | the directories, creation and reaping of processes page by page, page faults / theorems |
| `FileTree` | what a user expects: a tree of files, changed by one command in one step |
| `Inodes` | the lower half of the file system: bitmaps, inodes and blocks, and the writes that reach the disk, as operators |
| `FileSystem` | the upper half and the shell's file commands, mount and format, loss of power; it implements `FileTree` |
| `FileSystem_proofs` | theorems about `Inodes` and `FileSystem` |
| `Screen` / `Screen_proofs` | a task that prints a character, clears or changes the cursor's width, cut by the blink between any two steps / theorems |
| `MC...` | instances for TLC |

Correspondence that is not one to one:

- `ProcessManager` treats each list as a sequence. `IntrusiveQueue` shows that
  the linked lists are such sequences while an item is pushed only when it is on
  none, and `ListsDisjoint` shows that the scheduler does just that.
- A tick is one step: the handler runs with interrupts off. Its recursive call
  is a step of its own with `inISR` true in between, when nothing else may run.
- The `CREATED` and `BLOCKED` cases of `runNextTask` are not actions: nothing
  sets `BLOCKED`, and by `AllocatedIsListed` no list holds a `CREATED` PCB.
- Ids of processes are their PCBs; a PCB is used again once freed.
- When the allocator has no room, `newKernelTask` returns `nullptr` with the
  interrupts off and `exec` goes on with it; page 0 is mapped, so nothing is
  linked (`NewKernelTaskFails`, `StartTask`). When there is room for the paging
  system but not for the PCB, `newTask` writes to page 0 and turns the interrupts
  on, and the paging system is lost (`NewTaskFails`).
- `getFromQueue` and `reset` are two steps each (read the cell, move the index;
  clear one index, clear the other). The handler may run between the two, and
  `hasBeenPressed` is evaluated with the first read. `ctrl` and `alt`, which
  nothing reads, are left out, and so are keys that give no character.
- The heap's free-list nodes live in words that the model does not give content:
  the list is a sequence. A refused `malloc` is a step that changes nothing.
- In `DiskPort` interrupts are off during a command and the shell is its only
  caller, so one write is in progress at a time; the device writes sector by
  sector and may stop after any of them. The temporary buffer is always there.
- `PageFrames` has a bit for every frame that is locked or reserved at boot, also
  for those beyond the bitmap, for `BitMap::get` and `set` check no index. What
  such a bit holds at boot is whatever the memory holds: `Init` chooses. The
  counters are unsigned and wrap at `CounterLimit` pages (`Plus`, `Minus`).
- `VirtualMemory` works page by page where the code does, with interrupts off:
  while `job` is not `Idle` nothing else runs. Page tables, which come from the
  kernel's heap, are entries of `dirs`; of the flags only `present` is kept.
- A page fault is repaired in the kernel's directory, whoever made it. The
  handler makes the page present before it asks for a frame, so with none left
  the page is mapped to frame 0, the kernel's own: `starved` remembers which
  pages that happened to, and `FramesOwned` says that it happens to no others.
  When it is the new stack of a process that has no frame, the write of `newTask`
  faults again and again with interrupts off (`StackFault`).
- A command of `FileSystem` is one step when it is finished: the shell waits for
  it and nobody else uses the files. Its writes are kept in a log, so that in a
  step of the other kind the power is lost after any of them, and only the disk
  is left. The writes are those of `disk.write`, one for each bitmap, inode and
  block; each lies inside the sectors for which `DiskPort` implements
  `ByteDevice`. The free-block and free-inode counters in the super block and
  the group descriptor, which nothing reads to decide anything, are left out, and
  so are the writes that store nothing else.
- `deleteDir` calls itself; `DeleteDir` keeps the calls that are still to be made
  in a list and takes its steps one by one. A step that `DeleteDir` has no more
  use for changes nothing.
- `getInode` takes an inode number modulo the table's length and `setInode` takes
  it as it is, so number `NumInodes` is written behind the table and read from
  slot 0. Its bit lies behind the buffer of the bitmap: `HeapBit` is what the heap
  holds there, and what is set there is not stored (`SetInodeBitmap`).
- Names are values with one relation between them: `Begins` says which is the
  beginning of which, for `addDirEntryToPath` compares only as many characters as
  the new name has. A content is a sequence of units, several to a block; an
  entry of a directory is one unit.
- The steps of `Screen` are those between which the flags or the cursor change.
  A loop over pixels is one step that leaves the rectangle it drew; a blink in
  the middle of one draws the same as a blink before or after it.

## Input left out

A model is given the input for which its program is meant. What follows goes
wrong in the program, by reading or by running the module with the constant
named; the runs and the theorems leave it out.

- `kill 0`, and `kill` of anything that `atoi` reads as 0, marks the kernel task;
  the next tick switches through `nullptr`. (`KillIds` with `Kernel`: `NoFault`
  fails.)
- A HIGH process started while the kernel is alone in the high list never runs;
  `exec` makes LOW ones only. (`FairSpec` with both priorities: `StartedRuns`
  fails.)
- A ring of the keyboard that is full reads as empty. (`Backlog` =
  `BufferSize` - 1: `ImplementsInputQueue` fails.)
- A cut of `mallocAligned` loses the last words of the block, which end with the
  footer that it had as a free one. `free` of the block right behind them trusts
  that footer and merges with a free block that is not there. `free` of one word
  between two blocks that are not free makes its size wrap. (`UnsafeFrees`:
  `BlocksTile` fails.) All other frees, before and after cuts, are in the run and
  the proofs. A pointer freed twice is recognised only while its tag survives;
  callers free what they hold. `malloc` gives up at the first block that fits and
  is too small to split, as `MallocFails` does.
- Erasing back over the left margin on the top line puts the cursor above the
  framebuffer; it takes a line that wraps at the bottom of the screen.
  (`EraseTopLine`: `PixelsInFramebuffer` fails.)
- The last inode number, 8192 on the real disk: a name would lead to an inode of
  no kind, which the next `touch` takes again. The program takes it when all
  others are gone, and every `touch` of a name that exists uses one up.
  (`InodeFree` up to `NumInodes`: `EntriesLive` and `TextArrives` fail.)
- The kernel's heap without room for a page table, a paging system or a PCB is not
  in `VirtualMemory`; `ProcessManager` has the latter two.
- Files, by the guards of the commands in `FileSystem`: `cd ..` in the root;
  `cd` and `mv` into a directory that a power loss left without its two entries,
  and `rmdir` of one or of one that holds one; `rename` and `mv` onto a name that
  is taken or that a longer name begins with, which lose the file; `mv` of a
  directory, whose `..` stays; `mv` to anything but a directory here or `..`;
  `write` to a directory; `append` to an empty file, which writes in front of its
  buffer, or to one that would outgrow its blocks; a new entry with no inode
  free or no room in the directory; `.`, `..` and `/` as anything but the target
  of `cd` (`rmdir .` follows a null pointer).
- `append` counts one character too many, so the second `append` to a file is cut
  off by the first one's terminator: `TextArrives` speaks of the others. The
  command is written but commented out of the shell's table (`cmd.cpp:43-45`).
- The power lost in `rm`, `rmdir`, `rename`, `mv` or during the format: an entry
  may lead to an inode that is free, a file may be gone, a disk may pass for
  formatted. (`CrashIn` with `rm`: `EntriesLive` fails.)
- A disk that is full or refuses a write; more than one block group.

## Runs

| run | instance | shows |
|---|---|---|
| `scheduler` | 3 PCBs, both priorities, any process killed, symmetric | `IInv`, the lists are disjoint and complete, one task runs, no switch through `nullptr`, memory freed only by the kernel |
| `shell_scheduling` | 3 LOW PCBs, fair ticks | dead stays dead; the kernel has every other turn; started processes run; dead ones are reaped; the shell always comes back |
| `queue` | lists of a few items | `queue.h` implements disjoint sequences; `_size` is right |
| `shell_input` | ring of 4, line of 3, 5 characters per prompt | FIFO; the line is the edited text; no character dropped at a prompt; Enter returns; no stuck shift key |
| `heap` | 30 words, blocks of 1, 2 and 17, aligned ones of 2 and 3, alignment 8, frees before and after cuts | tiling, tags, data, coalescing, counters |
| `disk` | 3 sectors of 3 bytes, failing commands | `DiskPort` implements `ByteDevice`; reads return their range |
| `memory` | 8 frames, 4 of them free after boot, 2 processes of 2 pages, 2 pages to fault in, a framebuffer beyond the bitmap | frames have one owner, none is lost, only starved pages are on frame 0, kernel and framebuffer stay mapped, the counters follow the bits and the free frames and wrap where the code's do |
| `file_system` | 7 inodes, the last of which is not used, 10 blocks of 4 units, 2 names of which one begins the other, power lost in `touch`, `mkdir`, `write` and `append` | entries, dots and blocks; list and path in memory; texts arrive; the disk implements `FileTree` |
| `screen` | 7 columns and 4 lines of the real font with the real padding, backspaces that stay off the margin of the top line | pixels in the framebuffer; the cursor rests in the padding; it goes on blinking |

Three runs show where the program departs from what it says; each is a finding in
`PROJECT.json`: `killed_runs_again` (the switch away from a dead task does not
look at the state of the next one), `disk_cross` (a short write across a sector
boundary zeroes the rest of the next sector) and `shared_block` (a macro without
parentheses makes `deleteInode` clear the bits of other blocks, and two files
come to share one).

Bounds. Three processes are enough for every pair of lists to be non-empty
while one more is running, and for two dead ones to wait for the reaper. A ring
of four cells wraps after three characters and `MaxTyped` lets it wrap within
one prompt. 30 words hold seven blocks and more, so that a block is freed with
its left, right, both or no neighbours free; a free block is long enough to be
cut at 8, at 16 or at both, and one of 17 words, given back, is cut once more,
so that frees come before, between and behind the halves of a cut. In the
program sizes need not be a multiple of four bytes; that shifts tags and
changes no step. Three sectors allow a write with a first, a middle and a last
one. Four free frames are too few for two processes and two faults, so the
allocator runs out in every order, and `CounterLimit` is small enough for the
free counter to wrap as a 64-bit one would. Six inodes leave two beyond what
the format makes, so that a file and a directory in it can be made, moved,
removed and made again, and blocks of four units make a directory of more than
two files and a file that was appended to need a second one. In `file_system`
the bit that `deleteInode` clears lies beyond every block in use, as on the
real disk until 1029 blocks are in use, so no block comes back and `MaxBlocks`
ends a run; in `shared_block` the blocks reach that far. A line of seven glyphs
wraps, and four lines reach the bottom. Sizes and counts that could grow for
ever (`Backlog`, `MaxTyped`, `MaxBlocks`, `Erasable`) are named constants.

`heap` uses a view: two states are the same if they differ only in words inside a
free block or inside the words a cut lost, other than the first and the last, for
`free` reads none of them before it writes them.

`file_system` uses a view: two states are the same if they differ only in inodes
and blocks that no name leads to, or in what lies behind a file's size. Every
command that takes an inode writes it first, and every command that makes a file
longer writes the new units first, so neither is read again.

Fairness. `FairSpec` assumes that the code of the shell and of the boot goes on
(`WF` of `InitMultitasking` and `StartTask`), and strong fairness of
`RunNextTask`: the timer never stops, and a tick that comes while interrupts are
off is kept by the interrupt controller until they are on. Nothing obliges a
process to return or a user to type. `FairShell` assumes only that `getInput`
goes on with its loop: it is straight-line code that polls. The scheduler's
fairness is what would give it the processor again. `Screen` assumes the same of
the task that prints (`WF` of `Step`) and that the timer goes on (`WF` of
`Blink`): what is between two blinks is at most a character. `Screen` has one
task that prints; a character of a second one, and the line that the page-fault
handler prints, would move the cursor in the middle of the first.

## Proofs

`ProcessManager_proofs` proves, for any set of processes and any bound-free
behaviour, the inductive invariant `IInv` and from it `ListsDisjoint`,
`AllocatedIsListed`, `OneRunning`, `TypeOK` and `FreedOnlyByKernel`. `IInv` adds
to them `Booting` and `CreatedIsPending`: without these a process in the window
between `newKernelTask` and `startTask` could be pushed twice or be current. The
argument has one lemma per action; `contextSwitch`, reaping and the choice of a
list have a lemma each that the four ways of `runNextTask` cite.
With the assumption that the kernel's own id is never killed, `NoFault`
(`SwitchIsSafe`: the kernel stays in the high list); if besides every process is
LOW, as `exec` makes them, `DeadStaysDead` and `LowNeverTwice` (the head of the
high list is the kernel, and a low task has the processor only just after a low
turn).

`IntrusiveQueue_proofs` proves, for any number of lists and of items, that
`queue.h` implements `TaskLists` (`Refinement`) and that `_size` is the length
(`SizesAreLengths`). Its `IInv` says that each list has a chain: a sequence of
different items that the pointers follow from the head to `Null`, and no item is
on two. The content that `Content` reads by walking is that chain, because a walk
of as many steps as there are items passes a chain's end; one lemma per
operation then says what becomes of the chains.

`CommandLine_proofs` proves for every buffer size that the keyboard driver
implements `InputQueue` if fewer than `BufferSize - 1` characters are unread
(`RoomAhead`); `IInv` says that the unread cells hold characters and that a
fetched one is still the first. It then proves that the shell drives the keyboard
as `Keyboard` allows, so the same holds under the shell, that no shift key is
ever stuck, that no character is dropped at a prompt (`NothingIsDropped`), and
that the line is the text typed as edited by the backspaces (`LineStaysEdited`,
for all lengths of line). For the last `Edited` is a recursive function over the
places of what was typed, whose existence and uniqueness are lemmas; the
invariant carries the trace of the line from one character to the next, and
needs `Newline # Backspace`.

`DiskPort_proofs` proves, for any disk and any requests whose two ends lie in a
sector that is read back or is written whole (`EndsAreKept`; `disk_cross` shows
what comes of the others), that the port implements `ByteDevice` (`Refinement`)
whatever command fails: at every step of a write the buffer agrees with the disk
outside the request, and the sectors that were moved agree with the buffer.
`ReadsAreTrue` needs no hypothesis.

`Heap_proofs` proves, for a pool of any length up to `SizeLimit` words and any
sequence of `malloc`, `mallocAligned` and `free`, the five invariants of the
heap. `IInv` says that there is a layout: two functions `k` and `e` on the
words of the pool, the kind of the block that starts at a word and where it
ends, with which the tags, the free list, the caller's blocks and the counters
agree. A lemma each for a split, a merge and a change of kind gives the next
layout, and the counters follow by counting the words of each kind. The only
hypothesis is `UnsafeFrees = FALSE`: no caller frees the block right behind the
words a cut lost, nor one word between two blocks that are not free, see above.
Every other free is covered, after any number of cuts. What makes a free in
front of lost words safe is that `malloc` never gives out the end of a free
block: it splits or it refuses, so the words a cut lost, which began as such an
end, never have a used block before them. `Coalesced` makes one exception,
which the history variable `seams` keeps: a cut whose second half turns out too
short to be split gives out nothing and leaves its two halves free side by
side.

`FileSystem_proofs` proves, for a disk of any size, any names, texts and tree of
directories, and with the power lost after any write of any command,
`BlocksOwned` (`OwnedBlocks`), if no command is given that uses
`DataStart - 1` blocks or more: 1028 on the real disk, behind which
`shared_block` shows two files with one block. `Intact` says that the blocks in
use are the first ones, as many as were ever taken, and that no two pointers of
the whole inode table are the same. A command is many writes, and each has to
keep this: `Sound` says it of the machine a command works on and of every disk in
its log. Since a command may pass the bound before its guard sees it, `Sound` is
weaker by one case, a disk that is `Spent`; that case is never left, so what the
guard lets through, and all that the command left on the way, is not spent. One
lemma per operator carries `Sound` up from `DiskWrite` to the commands;
`writeInode`, `deleteDir` and the directories of `createFS` are recursive
functions, each with a lemma that it exists and one by least counterexample along
its steps.

The same module proves what the directories say: `EntriesLive` (`LiveEntries`),
`DotsTrue` (`TrueDots`), `ListIsDisk` (`ListStaysDisk`), `PathLeads`
(`PathStays`) and `TextArrives` (`TextAlwaysArrives`). The invariant is `Settled`:
`Intact`, and the disk is as it came or holds a tree (`Tidy`) in which the machine
is (`Within`). `Tidy` speaks of a `View` of the disk, the inodes in use, their
types and the lists of the directories; it says that there is a rank that rises
from each directory to what it names, which keeps cycles out, that every entry
from the third on leads to a live inode of its kind whose `..` leads back, and
that no inode is named twice. `Within` says that the names of the path lead along
directories from the root to the current one, whose list is the one in memory.
Neither holds in the middle of a command, so for each write there is a lemma that
says what becomes of the view (`Relisted`, `Loses`, `Frees`), and below them, for
`writeInode`, that what is written is what is read of that inode and that no
other changes (`WriteInodeWrites`). `rmdir` carries through its steps what is
still to do: each entry on its list belongs to a directory on the way from the
current one down, so that the `cd ..` after it ends where it began (`Stacked`).
A power loss keeps the tree because `Tidy` holds of every disk in the log
(`Kept`).

The hypotheses are facts about the constants (`Usable`). `BlocksLeft`: no
command is given that would use `DataStart - 1` blocks, as above, or the last
block. `RoomToFormat`: the inode table has room for what the format makes, four
inodes and those of `SubDirs`, and for one number more, the last, which is not
used, and a directory for four entries and for those with its own two; the real
disk has 8192 inodes and the format makes eight. `PlainNames`: no name is `.`,
`..` or `/`. `NewNames`: the first file's name is not that of the home
directory, and `..` does not begin with the latter. `CrashesKeep`: the power is
lost only in `touch`, `mkdir`, `write` and `append`; in `rm` the properties
fail (see above). `TextsFit`, for `TextArrives`: a text has no zero in it and
fits into the blocks of an inode. The run satisfies all of them.

`VirtualMemory_proofs` proves, for any number of processes, any memory map and
any sizes of kernel, framebuffer, stack and heap, that frames have one owner
(`NoFrameShared`), that none is lost (`NoFrameLost`), that the kernel and the
framebuffer stay where they are in every directory (`KernelStays`) and that the
counters add up (`CountersAddUp`). A page that was given no frame may be mapped
to the kernel's frame 0, and `NoFrameShared` says which: those a fault of the
kernel's directory found no frame for, and what the reaper took from a dead
process. `CountersAddUp` ties the free counter, with its wrap, to the frames
that are free: it is short of them by the bits that pad the bitmap and by the
bits beyond it that boot found clear, so once fewer frames than that are left
it shows an enormous number. It assumes `MemoryAssumption`: the bitmap lies in
the kernel's pages, and stack, heap and faulting pages are apart from the pages
of kernel and framebuffer. `IInv` adds to these properties the order of the
boot (what it locks stays locked), that a directory nobody uses holds no
frames, that a process has frames for its stack and heap only, and, for the
time a process is made or reaped, which of its pages have been visited: without
the last a page the reaper has passed could keep its frame. The theorems are
those that a run would miss beyond its sizes, the rounding of the framebuffer
and of the end of the kernel above all.

`Screen_proofs` proves, for any screen that has room for more than one glyph in
both directions, `PixelsInFramebuffer` and `RestsInBounds` as long as no backspace
leaves the top line (`EraseTopLine = FALSE`). Its `IInv` says for every place
the task may be cut by a blink how far the cursor may have gone: four columns
beyond the right edge after a tab, where the rows kept free at the bottom catch
what wraps, and one line below the last after a newline. `FontAssumption` is
what the second needs: the font is no higher than the padding, and no line
begins one row above the bottom, else a blink before `curserCheckBounds` clears
a row that is not there.

Model-checked only: liveness (`StartedRuns`, `DeadIsReaped`, `KernelRuns`,
`EnterReturns`, `CursorBlinks`), for fairness is out of the prover's reach; and
`ImplementsFileTree`, which is not out of reach but is not proved. What it would
take beyond `Settled`: that every command maps to one step of `FileTree`, and in
particular that the many passes of `rmdir` over its list of pending paths end, with
every inode below the directory freed and none beside it touched. `Amid`, which
holds between the passes, bounds what a pass may disturb; it does not say that the
list is empty at the end.

## Not modelled

- The timer's own state: a millisecond counter of 32 bits, and `sleepMS`, whose
  end may lie beyond its wrap after seven weeks.
- Descriptor tables, PCI and AHCI discovery: straight-line set-up at boot; the
  tables have no state that another part changes.
- The serial line and the string helpers: no shared state; the string helpers
  are used by the models as what they compute.
- Glyphs, colours and wording; commands that only print.
- `appendNewMem`, `requestPages` of several pages, `unreservePages`, `setCursurPosition`,
  `getFreeGroup`, `splitPath`: nothing calls them.

## Plan

1. The scheduler composed with the heap: `free` from the timer interrupt while
   the shell is inside `malloc`; `cli` and `sti` that do not nest.
2. `VirtualMemory` over `Heap`: page tables are never given back, and the
   allocation that fails leaves `newKernelTask` with the interrupts off.
3. `FileSystem` over `ByteDevice` with writes that fail, and `rm` and `mv` with a
   loss of power, against a weaker `FileTree`.
4. Proofs: that `FileSystem` implements `FileTree`, command by command, `rmdir`
   last, with an invariant of its loop that counts the inodes still to free.
