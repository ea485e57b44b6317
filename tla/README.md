# Verification of the Franklin kernel

Franklin is a small x86-64 kernel in C. This directory holds TLA+ models of its
parts, the TLC runs that check them on small instances, and TLAPS proofs for
every value of the constants. `PROJECT.json` maps every definition to the lines
it models.

## The system and its parts

| Part | Source | What it does | Model |
| --- | --- | --- | --- |
| boot | `kernel/kernel.c`, `kernel/cpu.c` | `kmain()` makes three threads, unpacks the files and starts a CPU on slot 0; `cpu()` starts another on slot 1 | `Proc`, `Pmem`, `Boot` |
| scheduler | `kernel/proc.c`, `kernel/apic.c`, `kernel/switch.asm`, `kernel/isr.asm` | process table, timer interrupt, switch of stacks | `Proc` |
| physical pages | `kernel/pmm.c`, `include/franklin/bitmap.h` | bitmap of pages, built from the memory map | `Initbmap`, `Pmm`, composed in `Pmem` |
| heap | `kernel/slab.c`, `include/franklin/list.h` | slabs of blocks, large allocations | `Slab` |
| vfs | `fs/vfs.c` | path walk, vnode references, mounts, calls | `Vfs`, `Readdir` |
| ramfs | `fs/ramfs/` | nodes, directory entries, file contents | `Ramfs`, `RamFile`, `File`, `Readdir` |
| initial file system | `fs/ramfs/initramfs.c` | unpacks a tar archive | `Initramfs` over `Vfs` |
| page tables | `kernel/vmm.c` | maps pages, makes address spaces | `Vmm` |
| exec | `kernel/proc.c` | `loadelf()`, `copyargs()`, the switch to the program | `Exec` over `Vmm`; `Boot` with the files |
| console, timer, keyboard | `kernel/kernel.c`, `time.c`, `interrupt.c`, `kbd.c`, `spinlock.c` | share one spinlock with interrupt handlers | `Console` |
| strings | `kernel/string.c` | | comparison in `Ramfs` |
| hardware tables | `gdt.c`, `idt.c`, `pic.c`, `acpi.c` | straight-line set-up | not modelled |

How they interact: exec and the file systems allocate from the heap, the heap
takes pages from the page allocator, and the scheduler takes stack pages from
it. The CPUs share the process table (under `ptable.lock`), the page bitmap
(its lock is commented out), the heap (`slabber.lock`), the vnodes (a lock
each, and a `ramlock` per node) and the terminal (the global `spinlock`, which
`sleep()` and the keyboard interrupt take as well). A program goes from the boot
archive through the file system into frames that the page allocator gives to its
address space; `Boot` follows that way from end to end.

Much of this kernel reads memory that nobody has written. Where what it reads
decides what it does next and could be anything, the models end the behaviour
(`wild`, or a value of `fs.stop`), and the properties hold up to that point;
the places are named below.

## Modules

**Proc**: CPUs, each with a program counter `pc`, current process `cur` (the GS
register), stack `page`, interrupt flag `iflag` and the point `saved` that a
tick interrupted; the process table `state`, `pid`, `stack`, `rip`; the static
variables `idx` and `nextpid`. The boot sequence of `kmain()` and `cpu()` is there
step by step: `KmainAlloc`, `AllocGetproc` and `AllocStack` are its calls of
`allocproc()`, then come `sti` (`KmainInit`), `init_apic()`, `init_cpu()` and
`init_proc()`. `kmain()` has the calls of `init_apic()` and `init_cpu()` commented out; the
model is the configuration that `apic.c` and `cpu.c` are written for. A tick is
taken whenever the timer of a CPU is started and its interrupts are on, which on CPU 0
is before it has a current process. Stack pages are fresh, because
`allocproc()` is called by `kmain()` only, before there is another CPU and with
interrupts off, so that the missing lock of `palloc()` does not matter. A CPU that
loads a null stack, or writes through a GS register that nobody set, goes `wild`
and does nothing any more. The threads that get to run are empty loops:
`thread1()`, the one that calls `exec()`, is overwritten in its slot
(`ThreadsRun` below), and so no process makes a system call. The switch from one
thread to another in `scheduler()` is in the model and never happens, as a
CPU only ever meets the process it has just interrupted.

**Initbmap**: the three passes of `initbmap()` over the memory map, one entry
per step. The boot protocol guarantees sorted entries that do not overlap.

**Pmm**: `palloc()` and `freepg()`, one load or store of a byte of the bitmap
per step. `owned` records what was given out and not freed. A scan that leaves
the bitmap goes `wild`, since what it reads there is unknown.

**Pmem**: the two in sequence, as `kmain()` calls them. `Initbmap` is an
instance whose `bits` are the `reserved` pages of `Pmm`. `kept` is the page of the
`palloc(1)` at the start of `kmain()`.

**Slab**: `kalloc()` and `kfree()`. Addresses count words. The heap goes wild, which
ends the behaviour, where `kalloc()` takes a next pointer that `newslab()` did not
write (`Stale`), or where a client writes to an allocation that covers a word of
the heap's own (`Write`; `HeapWords` are the structs, the next pointers of free
blocks and the metadata of large allocations). The two calls for large
allocations do not take `slabber.lock`; what they share with the slabs is the
page bitmap only. `kalloc()` is not called when no page is left (`Pmm!ScanBeyond`
is what happens then).

**Ramfs**, **Vfs**: one operator per function of `ramfs.c` and `vfs.c`, from a
state of the file layer to the next, so that a call chains them as the C code
does. A call is one step, because only the boot thread makes such calls. Memory
is the mildest the allocator can do: it is never used a second time, and freed
memory keeps its contents. Of what the code reads uninitialised, the `VROOT` bit of a new vnode and
the `FOLLOW` bit of `nameidata` are any value; `prev` of a new node is what the heap
leaves in a block, the address of the block it gives out next, which is the node's
first vnode (`SetNext` is what a removal then writes there); and the entries of a new directory, which
`ramfs_alloc_node()` does not clear, are null or end the behaviour. So `LinkCounts` and
`TreeIsSound` are conditional on directories that happen to start empty. The list
of nodes of a new file system is taken for empty as well. Paths are absolute, as in every
call of the kernel. `Careful` restricts a client to paths that run through
existing directories; run `vfs_careless` is without it. The model was compared with
the sequence of calls, and the reference counts and link counts, of `ramfs_t()`
in `ramfs.c`.

**RamFile**: `vfs_read()` and `vfs_write()` over `ramfs_read()` and
`ramfs_write()` by concurrent threads, with both locks and a step for the new
buffer, the exchange and the copy. New memory holds any bytes. Requests are of
at least one byte and on a regular file; `offset + count` does not overflow.

**File**: what a file promises. A write takes effect at once, and a read that
succeeds returns, for every position written before, the value written last.
`RamFile!Content` is the refinement mapping: a position in `written`, a history
variable, has the byte of the buffer, any other is a hole.

**Readdir**: one directory, its list of entries with their sequence numbers, and
a reader that calls `vfs_readdir()` with buffers of any size. Between the calls
entries are attached and detached. A call is one step (it holds both locks). A
record has the length of its name and nothing else; `resid` may go below 0, where
the loop no longer stops before the end of the list. `seen`, `again` and
`stayed` are ghosts.

**Vmm**: physical frames, and page tables as functions from the indices that are
present to entries. `va2pte()` goes down one level per step, `mappages()` is the list
`todo`, and `palloc()` is a step of its own that returns the lowest free run (the
specification that `Pmm` meets: `LowestRun`). `home`, a ghost, says of every frame
which entry leads to it. `NewvmMap` is the case that the lower half of a new top level
is clear; the code does not clear it, and `ExecOnStale` of `Exec` ends the behaviour
in the other case. The kernel
maps every frame of the model; the real one maps 2 GiB.

**Exec**: `exec()`, `loadelf()` and `copyargs()`. A program is its entry point and
its program headers, with `p_vaddr` in bytes; `content` has the cells of the frames
that were written, so that what a program reads at an address is the page walk
(`Translate`) and then the cell. `aux.at_phdr` starts with any value of `Garbage`.
`copyargs()` is a step per string (`CopyString`), one for the auxiliary vector
(`PushAuxv`), one per pointer (`PushPointer`), and the count with the stack pointer that
`exec()` computes from it (`PushArgc`); `sp` and `oldrsp` are its two pointers, which the
two loops move on their own. That the arguments fit the stack, which the code does not
check, is `ArgsAssumption`; that programs are well formed and keep clear of the stack is
`ImageAssumption`. The one call of `exec()` in the kernel passes no `argv` at all; what
the loop over it finds then is a list by chance, or ends the behaviour (`CopyNoList`).
The memory that `kalloc()` takes for `struct vm_map` and `struct tss` is left out.
The map of the boot loader stays loaded until the first `exec()`.

**Initramfs**: the loop of `initramfs()` over the blocks of an archive: octal
sizes, padding, and entries that create no file, for which `vn` is stale or
uninitialised. Files are created and closed by the operators of `Vfs`; their
bytes are kept beside them in `data`, with the size that `ramfs_write()` gives the
buffer (`Buffer`). The root directory is as the test `ramfs_t()`, which `kmain()` calls
before, leaves it: a directory that is mounted on, another one, a dangling symbolic link,
and a mount on the root. They stand for its nine entries; the calls of
`ramfs_t()` that leave nothing behind, and the vnode it gives back twice, are not followed.

**Boot**: `initramfs()`, the lines of `kmain()` that read `/main.c`, `init_vm()` and
calls of `exec()` by name, over one file system and one memory.

**Console**: threads in `print()` and `sleep()`, the timer and the keyboard
interrupt on CPU 0, and the keyboard. The timer handler is one step: it takes no
lock, and CPU 0 does nothing else meanwhile. What the person at the keyboard
means by a byte travels with it as a ghost, so that a late handler can be compared with
it. Keys repeat while they are held. The driver takes a repeated shift or caps lock
key for a change, so what is meant is then the letter in either case (`muddled`).
`sleep()` is called on CPU 0 only, because
only the first CPU calibrates its timer.

## Runs

Passing runs:

| Run | Checks | Instance |
| --- | --- | --- |
| `proc` | the lock has one holder across `switc()`; no two CPUs on one stack; a RUNNING process is current on one CPU; a tick is served unless the kernel hangs in one of three ways | 2 CPUs, 3 slots |
| `pmem` | usable memory is free after `initbmap()` and nothing else is; usable memory alone is handed out, no page twice, never the bitmap; the bitmap is exact, the lowest run is found, every call ends | 1 CPU, all maps of 3 entries of up to 4 pages, pages of 2 units, bytes of 2 bits, runs of 1 to 3, up to 3 allocations |
| `slab` | aligned addresses are large allocations, pages serve one purpose, until the heap goes wild | pages of 8 words, 4 pages, 3 sizes, 3 allocations |
| `vfs_calls` | link counts, soundness of the tree, references, deletion exactly with the last reference; with hard links and dangling symbolic links | 4 nodes, 1 vnode held |
| `vfs_mounts` | deletion exactly with the last reference, and mountpoints that agree with what is mounted, with mounts inside mounts, entered, left and removed, vnodes of theirs held or not | 4 nodes, 3 file systems, 2 vnodes held |
| `ramfile` | the copy fits, the file implements `File`, the vnode lock is released | 2 threads, 2 byte values, 4 requests that grow the file once, twice or not, and overlap |
| `readdir` | entries that stay are not skipped, only the entry at the offset is given again, `printdir()` prints everything once | 3 names of 2 lengths, 3 entries made at most, 7 buffer sizes |
| `boot` | an archive of files with names that do not begin one another is unpacked completely and correctly; the right program is loaded, with its bytes and rights at its addresses for the segments that start at a page and share none, its arguments and auxiliary pairs where `copyargs()` lays them out, and stays so; address spaces are apart, the kernel is in each of them; files keep exactly the references of `exec()` | 29 archives of up to 3 members, 2 programs and 2 argument lists, 2 calls of `exec()`, tables of 8 entries, 112 frames of 8 bytes |
| `console` | one writer; `sleep(n)` takes exactly n ticks; keys print what was meant, up to the case after a repeated shift or caps lock; sleeps end and keys are served | 2 CPUs, a counter of 2 bits, 1 letter with shift and caps lock, 3 key events, 2 calls per CPU |

The type invariants are not spent a run's property on: those of `Proc`, `Pmm`,
`RamFile`, `Readdir` and `Console` are proved, and the others (`Slab`, `Vfs`,
`Exec`) hold on the instances above when added to their configurations.

The bounds reach the interesting cases: three slots are the least that
`scheduler()` can start its search in, and two CPUs the most that `init_cpu()`
starts; bytes of two bits put two pages in a byte and runs across a
byte boundary, and a bitmap of less than a page and of more than one; two
growths of a file are needed to lose old bytes; four nodes
hold a directory in a directory with a file, and three file systems a mount
inside a mount; buffers end between records, inside one and behind all; one
program has segments that cross a page, share one and start inside one, and
the first program must survive the second; the counter of the timer
wraps around within a few ticks. A slab of run `slab` has a block that
reaches over the end of its page, and its pages are few enough that slabs,
large allocations and freed pages follow each other in the same place. Archives have an empty file, one that fills its
last block, names that begin another one, names that `ramfs_t()` has used,
links and directories. `MaxSteps` bounds the components that one
`namei()` visits, `MaxHeld` and `MaxRef` the references (some calls leak one each
time), `MaxNode` the nodes ever made, `MaxSeq` the directory entries ever made,
`MaxExec` the programs started, `MaxCalls` and `MaxEvents` the calls and the
keys. A deadlock is not checked where the bounds, a panic, or a CPU that spins
for ever end the behaviour; it is in `ramfile` and `readdir`.

Runs that find a comment, a test or an assertion of the repository violated by
the code, each with a finding in `PROJECT.json`:

| Run | Shows |
| --- | --- |
| `slab_overlap` | `kfree()` frees the slab on the following page, with a block in use |
| `vfs_lost_mount` | a mount is forgotten with the last reference on its directory |
| `vfs_careless` | a path through a regular file frees a vnode that a client holds |

Six more statements of comments are defined in the modules, without a run of their own.
TLC finds each of them violated when it takes the place of the properties of the
configuration named:

| Definition | Comment | Configuration | Shows |
| --- | --- | --- | --- |
| `Proc!OthersGainEntry` | `proc.c:285` | `MCProc.cfg` | a tick before `init_proc()` searches for ever with the lock held, and the other CPU never gets it |
| `Proc!ThreadsRun` | `proc.c:328` | `MCProc.cfg`, `CPUs = {0}` | all three threads of `kmain()` are put into slot 0, and two are never run |
| `Slab!StructsApart` | `slab.c:216` | `MCSlabOverlap.cfg` | the last block of a slab covers the struct of the next |
| `Slab!BlocksOnly` | `slab.c:10` | `MCSlabOverlap.cfg` | `kalloc()` hands out what a page held before |
| `Initramfs!CopiedByName` | `initramfs.c:57` | `MCBoot.cfg` | a file whose name begins another one cannot be opened |
| `Boot!SegmentsInPlace` | `proc.c:117`, `proc.c:121` | `MCBoot.cfg` | a segment that starts inside a page is not where its header has it |

Other places where the models behave unlike a comment says, or where a property
holds only with a restriction (most are among the hazards of `PROJECT.json`):

- The second CPU starts slot 1, which no `allocproc()` fills, and goes `wild`.
- A new thread is entered with `ptable.lock` held and interrupts on; a tick before its
  `r()` waits for ever for the lock that its own CPU holds. The other two ways to
  hang in `TicksServed` are a CPU that is `wild` and a tick before `init_proc()`.
- With two CPUs in `palloc()`, `NoDoubleAllocation` fails: set `CPUs = {0, 1}` in
  `MCPmem.cfg` to see it. The lock is commented out.
- The scan of `palloc()` leaves the bitmap when no run is free (`wild`), and the
  bitmap has no bits for the last pages.
- The page that the bitmap fills in part is free. If the bitmap lies in the first
  usable entry, it is the page that `kmain()` takes and never uses; otherwise a
  caller of `palloc()` is given part of the bitmap (the premise of `BitmapKept`).
- A path with a trailing "/" and a hard link to a missing target lose or keep a
  reference as well, which is why the clients of
  the passing runs are `Careful`; unlinking a name that begins another one panics; the
  node at the head of the node list stays there when it is removed, and is freed a
  second time with its file system.
- An archive with anything but regular files of different names in its root ends
  in a close of a stale vnode (the premise `Plain`); so does an archive without
  `/main.c`, where `kmain()` reads through an uninitialised pointer.
- What `copyargs()` lays out is less than the ABI asks for: there is no terminator for
  the environment, the key `AT_NULL` is not stored, the stack is not aligned; the pointers to arguments are addresses of the
  kernel, which programs can read because the kernel maps everything for users.
- A reader whose buffer is exactly the record at its offset never moves on, and
  `ramfs_readdir()` never says end of file for a directory with entries.
- The keyboard interrupt on the CPU that holds `spinlock` waits for ever
  (`SelfDeadlock`, the exception in `SleepEnds` and `KeysServed`).
- `sleep()` ends only if its loop sees the counter at 0 between two ticks (`Prompt`):
  a CPU that is held up for a millisecond there waits for 2^32 ticks more, and
  for ever if that happens each time. With `Prompt = FALSE` both `SleepExact` and
  `SleepEnds` fail.

### Fairness

`Proc!FairSpec`: a CPU that can take its next step takes it, and its periodic
timer fires while interrupts are enabled. `Pmem!PmemSpec` and `RamFile!FairSpec`:
a CPU or thread inside a call goes on. `Console!FairSpec`: a CPU goes on with the call or
the handler it is in, the periodic timer goes on, and a byte of the keyboard
raises its interrupt. Spinning for a lock is a step that is
disabled while the lock is held, so weak fairness does not promise the lock to a
particular CPU, as the exchange loop of `acquire()` does not. `KeysServed` therefore rests on
the bound on the calls of the other CPU (`MaxCalls`): if it printed for ever, the
handler could lose every time. No call is ever
assumed to be made.

## Proofs

| Module | Proves, of the properties that runs check | Under |
| --- | --- | --- |
| `ProcProofs` | `LockHasOneHolder`, `NoSharedStack`, `RunningIsCurrent` | 3 to 255 slots, any CPUs that fit the table |
| `PmemProofs` | `NoDoubleAllocation`, `BitmapExact`, `LowestRun`, `UsableOnly`, `FreeAtFirst`, `BitmapKept` | one CPU; the last two, a map that keeps the boot protocol |
| `SlabProofs` | `DispatchByAlignment`, `PagesOwned` | until the heap goes wild |
| `RamFileProofs` | `WriteFits`, `Implements` (refinement) | |
| `ReaddirProofs` | `NothingSkipped`, `OnlyCursorAgain`, `PrintdirComplete` | |
| `ExecProofs` | `Isolation`, `KernelShared` | new top levels with a clear lower half; programs in the lower half; for the second, the layout of the kernel's linker script |
| `LoadProofs` | `ArgsOnStack`, `Loaded` (the image in `RightProgram`) | the same; well-formed programs, and of their segments those that start at a page and share none; a list of arguments that fits the stack |
| `ConsoleProofs` | `OneWriter`, `SleepExact`, `Echo` | for `SleepExact`, a prompt loop |

The assumptions about constants are `ASSUME`s of the modules, which TLC evaluates
in the runs, or hypotheses of the theorem itself.

`ProcProofs`: for every set of CPUs that
contains 0 and fits the table, and every table of 3 to 255 slots, the
invariants of run `proc`. They rest on `IInv`. `NoSharedStack` alone is not
inductive: CPU c only ever runs slot c (`Own`), because the only RUNNABLE process it can meet under the lock is the
one it has just interrupted (`Runnable`), and a page is the stack of one slot
only (`Pages`). The lock must have one holder across the switches for that
(`Frames`, `Boot`).

`PmemProofs` is first about `Pmm`: for one CPU and any bitmap, byte width, reserved set and request
lengths, no page is given out twice, the bitmap is exact, and `palloc()` returns
the lowest run. The assumption `CPUs = {boot}` is part of each theorem and cannot
be dropped. The invariant says what a scan has
seen so far, that the byte in a register is the byte in memory between load and
store, and that the run a call works on is apart from all allocations.
Then it is about `Pmem`: for every memory map and page size, on one CPU,
`palloc()` hands out usable memory only (`OneCpuUsableOnly`), and the
invariant of the first part holds from the end of `initbmap()` on. While `initbmap()` runs,
a clear bit is the bit of a usable page (`BitsInv`), because the entries it
changes stay inside the ones it was given (`MapInv`) and nobody has called the
allocator yet (`QuietInv`). After that a page is handed out only if its bit was
clear, and the reserved pages stay set (`BitmapExact`). For a memory map that keeps
the boot protocol (`BootProtocol`: usable memory in whole pages, its entries sorted and
apart) the free pages after `initbmap()` are exactly the usable ones that the bitmap
does not fill (`OneCpuFreeAtFirst`). This needs to know which entry the bitmap was
cut from, and that every pass leaves the others as they were (`PlacedInv`), and which
entries the third pass has freed so far (`FreedInv`). `OneCpuBitmapKept` adds what the
first call of `kmain()` was given (`KeptInv`): the page that the bitmap fills in part is then the lowest
free page, so `LowestInv` makes it the page of that call.

`SlabProofs`: for every page size that is a power of two up to 512 words (the
4096 bytes of the kernel), every size of the header, all requests and any
number of allocations. `PagesOwned` is not inductive: it says nothing of the
free lists, from which `kalloc()` takes its addresses. `Inv` adds that no block,
free or in use, is page aligned (`BlocksInv`), so that the second half of `kfree()`
only ever sees blocks and the first half only the page behind the metadata of an
allocation (`LargeInv`). That the blocks that `newslab()` carves are not aligned
is arithmetic on powers of two: a block starts behind the header and ends, but for the
last one, inside the page. The heap's own words are as the heap wrote them up to the point
where it goes wild, so no assumption on clients or on old contents of pages is
needed. It is also proved that a slab on the list counts at least one block in use and that
the panic of `kfree()` is not reached (`SlabsInv`), although `kfree()` may credit a block to the wrong
slab (run `slab_overlap`).

`RamFileProofs`: for any threads, bytes and requests, the buffer has the size the
node records (`TypeCorrect`), the copy stays inside (`WritesFit`), and
`Spec => F!FileSpec` (`Refinement`). The copy is the abstract write, the two ends
of a read are the abstract ones, and every other step is a stutter. The
exchange of buffers is a stutter because the new buffer holds the old bytes
(`SwapInv`), and a failed read reached a hole because nothing is written beyond
the buffer (`WrittenInv`). Both need that a thread inside holds the vnode lock
(`LockInv`).

`ReaddirProofs`: for all names, lengths of records, sizes of buffers and any
number of entries. The sequence numbers go down along the list and stay below the next one to be
given (`Order`), so an offset cuts the list in two; what the reader was given
has numbers from its offset on (`Place`). With this, a call that starts at the
offset gives a segment of the list without a gap, whatever was attached (in front)
or detached since. The lengths of segments are sums, `Bytes`, and the facts
about them (that they add up, that a longer segment has more bytes) need
induction. The library's induction rules take an operator as parameter, so the
induction is done in the form of sets: a set of numbers that has 0 and the successor of each
member is all of `Nat` (`NatSet`), which follows from the well-foundedness of `<` (`Least`).

`ExecProofs`: for every size of the tables and of memory, all
programs in the lower half and any number of calls of `exec()`, two pages of
programs never share a frame, and no program has a page table or a free frame
mapped (`AddressSpacesApart`). `Isolation` alone is not inductive. `Inv` says that
every entry of a table agrees with the ghost `home` of the frame it leads to (`Tree`),
that frames with a home are allocated (`Homes`), where `va2pte()` is (`Walking`), and
that the pages still to be mapped have no home yet and are different (`Todo`). Then
the way from a frame back to its top level is unique (`Up`, `Back`, `OneWay`),
so two addresses with one frame have the same indices in the same map. The
theorem is about `ExecSpec`, whose actions `Boot` calls. TLC
finds `Inv` to hold on the instance of run `boot` as well.

The second half of `ExecProofs`: every address space has every page of the kernel,
at the frame and with the rights that `init_vm()` gave it (`KernelInEveryMap`).
`mappage2()` leaves a page that is present alone, so the pages that `init_vm()` maps must have
different indices (`IndicesUnique`, from the division of addresses by powers of the
table size, and `KernelLayout`: the image of physical memory starts
at `HHDM` and the segments of the kernel are above it, on pages of their own, as the
linker script puts them). `SharedInv`, inductive with `Inv`, says how far the list is mapped, and that
no page is present that is not among those done (`MappingKernel`), that the pages stay as they are
afterwards (`KernelMapped`), and that each map has the upper half of the
kernel's top level (`UpperShared`), which is complete before the first page is
mapped (`Early`). Entries of tables are never changed (`Grown`), so what was
reached stays reached. TLC finds `SharedInv` to hold on the instance of run `boot`.

`LoadProofs`, over `ExecProofs`: every program that was started has its image
(`ImagesStay`) and its arguments (`ArgumentsStay`), and keeps them through every later
`exec()`. Both properties speak of started programs only, so they say nothing of the one that
is being loaded; `LoadInv`, inductive with `Inv`, does:

- `Mapping`: the first pages of the area that `palloc()` returned last are at their place,
  and `todo` is the rest of it, in order.
- `Presence`: in the lower half of the new map no page is present but those of the program's segments so far and of
  the area. Therefore a page of a `Loadable` segment or of the stack is absent when
  `mappage2()` comes to it, and is not passed over.
- `Loading`: the segments before header `i` are placed with their bytes and rights.
- `Pushing`, `Pointing`: the strings pushed so far end below each other from the top of the
  stack, at the sums of their lengths (`Size`); the words are below them. The second
  loop of `copyargs()` computes the same sums again, so its pointers are where the
  first one put the strings.
- `Ready`: every started program has all its segments, and its stack pointer is as far below
  the top of the stack as the kernel's was.

A step keeps what is placed because entries of tables are never changed (`Grown`), `palloc()` returns
only frames that are not allocated, and `exec()` writes to no frames but those of the area it
allocated last (`Settled`). What the program then reads is the page walk for the words of the
stack, and, for the strings, whose pointers are addresses of the kernel, the image of
physical memory in the upper half: `ArgumentsStay` rests on `KernelShared`. The
sums of lengths need no induction: `ArgsAssumption` says that there is a function with their
recursion, and `Size` chooses it. TLC finds `LoadInv` to hold on the instance of run
`boot`, with `Size` computed and the address of the headers in `StackReady` taken
from the values that `at_phdr` has there.

`ConsoleProofs`: for any number of CPUs, widths of the counter, letters, calls and
keys. `OneWriter` is inductive with the types. `SleepExact` needs that the counter is what is left
of the argument, and that a counter at 0 has not been read yet (`Countdown`), so
that no tick makes it wrap around; the hypothesis `Prompt` cannot be dropped
(see above). `Echo` is about the letter always and about its case until a held shift or caps
lock key is sent again. It needs that the bytes on their way form a
chain from the state of the driver to what the keys that are down mean now (`Chain`).

Only model-checked:

- the liveness properties `TicksServed`, `CallsEnd`, `LockIsReleased`, `SleepEnds` and `KeysServed`,
  which are beyond the prover;
- the properties of `Vfs` and `Initramfs` (link counts, the soundness of the tree,
  references, deletion, mounts, `AllCopied`): a call chains many operators on the whole state of
  the file layer, some of them recursive functions over paths, lists and digits, and
  every link of the chain would need an invariant of its own;
- of `Boot` what relates the memory to the files (`StopsOnlyIfMissing`, `FilesReferenced`, and in
  `RightProgram` that the image is that of the file with the name given), for the same reason;
- that the steps of `Boot` on memory are steps of `ExecSpec`, which the theorems of
  `ExecProofs` and `LoadProofs` are about: `Boot` calls the actions of `Exec` and adds
  guards, as its text shows.

## Not modelled

- The locks inside vfs calls other than read and write, with two threads: the
  order of `ramlock` and the vnode lock in `ramfs_vget()`, `trylock()` in
  `vfs_close()`, and `vfs_link()` to its own target. Only the boot thread makes these
  calls, so no interleaving of them is a behaviour of this kernel. The lines
  to look at if that changes are `ramfs.c:631` on and `vfs.c:626`.
- `destroyvm()`: its only call is commented out. `pallocaddr()`, `vm_alloc()` and
  `vfs_readlink()` have no caller.
- `vfs_read()` inside `loadelf()` is the effect that `RamFile` proves it has; the
  contents of files in `Boot` are not stored through `RamFile`. `Exec` has one caller of
  `exec()` at a time; a joint model with `Proc` is far beyond the reach of TLC, and
  `thread1()`, which would call `exec()` under the scheduler, is never run. System calls
  are not modelled for the same reason.
- Symbolic links in a cycle, and vnodes used after their file system was
  unmounted: a call is one step, and what freed memory holds is unknown.
- The 2 GiB that the kernel maps of physical memory, the memory of a segment behind
  its file bytes (`loadelf()` does not clear it), and the call of
  `freepg()` at `cpu.c:49`, which passes a virtual address.
- The string functions, `panic()` beyond the fact that it ends the behaviour,
  and the test `test_slab()`, whose calls are among those of `Slab`.
- The descriptor tables, the PIC, the PIT and ACPI set-up and the port I/O of the
  keyboard controller, which are straight-line writes to hardware, and the
  declarations of the boot protocol.
