# OS/161 "C1_PAG": a TLA+ model of the kernel

This directory models the kernel under `kern/`: OS/161 with the paging project
C1 (demand paging, a coremap with victim replacement, a swap file, a round-robin
TLB) built from the configuration `kern/conf/C1_PAG`. Paths below are relative to
`kern/` unless they start with `README.md`, which is the repository's README (in
Italian). Only what that configuration compiles is modelled, with one exception (the
deadlock detector `hangman.c`, which spinlocks call when it is configured):
`dumbvm*.c`, the `*Old.c` and `*OldLess.c` files and `compile/` are out.

Contents: 1 inventory, 2 how to run, 3 the modules, 4 the runs, 5 bounds and
fairness, 6 proofs, 7 disagreements found while modelling, 8 not modelled.

## 1. Inventory

What each part keeps, what is hard about it, and when it is correct. Every part is in
`PROJECT.json` under "components" with its files and status; the points where the code
is hard to test are there under "hazards", each at its line with its properties.

| Part (source) | State | Hard | Correct when | Module |
|---|---|---|---|---|
| Coremap (`vm/coremap.c`, `ram.c`) | an entry per frame, the hand, the frontier | two critical sections per allocation, an unlocked scan, evictions that sleep | no frame has two users, blocks are freed whole, the scan ends | `Coremap` |
| Swap file (`vm/swapfile.c`) | slots, the file | slots are chosen and marked apart, given up before they are read, and reset by each `as_create` | what comes back is what went out | `Swapfile` |
| Kernel heap (`vm/kmalloc.c`) | pages, lists per block size, reference pages | the lock is released around `alloc_kpages` | no byte is given out twice, no page lost | `Kmalloc` |
| Page table, faults, TLB (`vm/pt.c`, `vmc1.c`, `vm_tlb.c`) | two-level table, a TLB per CPU, a hand | a page is entered before it is filled; threads change CPU while they sleep | a store is read back; a TLB entry never outlives its page | `PageTable`, `Vm` |
| Address spaces, segments (`vm/addrspace.c`, `segments.c`) | three segments and a page table | pages partly filled at both ends | the bytes of the file, then zeros | `Segments`, `Vm` |
| Statistics (`vm/statistics.c`) | counters | counted on many paths | the printed identities hold | `Vm` |
| User copies (`vm/copyinout.c`) | `tm_badfaultfunc` | faults inside the kernel | a bad address ends the copy only | `Vm`, `Traps` |
| Processes (`proc/`, `syscall/proc_syscalls.c`, `runprogram.c`, `loadelf.c`, `main/menu.c`) | the process table, per process its thread, files, status, semaphore | the exiting thread, the waiter and the table; failures of fork | a pid names one process, a waiter gets its status, nothing is used after it is freed | `Procs` |
| Open files (`syscall/file_syscalls.c`) | the system table, descriptors | no lock; offsets read before and written after a sleep | an entry belongs to one open file | `OpenFiles` |
| Threads, scheduler, clock (`thread/thread.c`, `clock.c`, `cpu.c`) | a run queue, zombies, IPI word per CPU; wait channels | switches that pass a lock on, migration, interrupts | a thread is in one place; a wake-up arrives | `Thread` |
| Synchronisation (`thread/synch.c`) | counts, owners | sleeping and waking on other CPUs | no lost wake-up; tests end | `Synch` |
| Spinlocks, levels, detector (`spinlock.c`, `spl.c`, `hangman.c`) | word, holder, counts | levels nest with locks and interrupts | exclusion; levels tell the truth; deadlocks are found | `Spinlock` |
| Traps (`locore/trap.c`, `exception-mips1.S`, `cpu.c`, `switch.S`) | registers, saved frames, `cpustacks`, `cputhreads` | a stack found by CPU number, switches in handlers | one CPU per stack; levels restored | `Traps` |
| VFS (`vfs/*.c`) | device list, references, current directory, big lock | paths hold up to three references, each step fails | each reference is given back once | `Vnode`, `Vfs` |
| sfs (`fs/sfs/`) | blocks, free map, inodes | disk failures half way | blocks have one use; the volume is a set of named files | `Sfs` |
| semfs (`fs/semfs/`) | semaphores, names, vnodes | three locks taken in turn, last closes against opens and removes | an object lives while named or open | `Semfs` |
| Bus, disk, console, emufs (`dev/lamebus/`, `dev/generic/console.c`) | cards, rings, semaphores, handles | interrupts against threads; polled and interrupt-driven output | what was asked for is moved once; calls end | `Bus`, `Lhd`, `Console`, `Emu`, `Devices` |
| Boot, menu, shutdown (`main/`, `lib/kgets.c`) | the line, the steps of a shutdown | other CPUs are stopped anywhere; the swap file is closed on emufs, or was never opened | the last words come out; the power goes, or the null vnode stops the kernel | `System` |
| Library (`threadlist.c`, `lib/bitmap.c`, `lib/array.c`, constructors) | links, words, blocks | links of both directions; refused memory | they are the sequences and sets they stand for | `Threadlist`, `Bitmap`, `Arrays`, `Creation` |

How they meet: a fault (`Traps`) runs `vm_fault` (`Vm`), which asks the coremap for a frame
and the swap file for a page; the coremap calls the swap file to evict and is also what
`kmalloc` gets its pages from; processes own an address space, open files and a thread;
threads sleep on wait channels, on which semaphores, locks and the drivers stand; a path
goes through the VFS to sfs, semfs or emufs, and from there to a driver. Four of these
joints are composed (`Vm` of segments, page table and TLB; `Procs` of processes and open
files; `Synch` of threads, interrupts and locks; `System` of boot, bus and drivers); at the
others one module stands on the contract another one is shown to keep: `Vm` and `Kmalloc`
on `FramePool` (a free run of frames or none), `Vm` on `UserMemory`'s promise for the swap
file, `Thread` on `Deque` (lists are sequences), `Procs` on the reference counts of `Vnode`.

## 2. How to run

    tlc -workers 2 -config Vm.cfg MCVm.tla
    tlapm CoremapProofs.tla

A run is a module and a cfg; `PROJECT.json` lists them with their properties and the
expected result. Every module states its grain at the top: in the concurrent modules a
step is one critical section, one transfer, or one access outside the locks, and
whatever may sleep or be interrupted ends a step. Definitions keep the source's names;
those named `X_Something` next to an `X` ("Mutant") are plausible bugs used to test the
properties and are part of no specification.

## 3. The modules

### 3.1 Memory

**`Coremap`** (coremap.c, ram_stealmem, the frame column of the page tables).
`status`, `as`, `vaddr`, `alloc_size` are the fields of `coremap[]`; `firstpaddr` is
ram.c's frontier in frames; `current_victim` the hand; `pfn[t][v]` the frame number in
t's page-table entry (0 = valid but evicted, -1 = not valid). `kheld`, the set of
blocks handed to the kernel and not freed, is what kmalloc knows. `call[t]` is the
program counter and the local variables of the allocator call of thread t.

| Action | Code |
|---|---|
| `UserSearch`, `KernSearch` | getppage_user and getppages: the search of freed frames; the kernel's search also fixes the run (getfreeppages), the user's does not |
| `Steal` | ram_stealmem |
| `ScanWrap`, `ScanTake`, `ScanTest` | one iteration of get_victim_coremap, in three steps because the hand is shared and unlocked |
| `Evict`, `Unmap` | swap_out of one victim, and the page table afterwards |
| `Claim`, `Map` | the coremap entry of a user frame, and pt_set_pa in vm_fault |
| `Mark` | the entries of a kernel block |
| `FreeKpages`, `ExitBegin`/`ExitFree`/`ExitEnd` | free_kpages; as_destroy and pt_destroy, one entry at a time |

Every `alloc_kpages` by a thread without an address space that finds nothing gets 0
after the scan (`Chosen`), as in the code.

The same actions are run under three disciplines. `Spec`: any thread at any time.
`AtomicSpec`: one allocator call at a time, several address spaces. `SerialSpec`: one
call at a time and one populated address space. The last is how the kernel is used
from the menu (`common_prog` starts one program and waits for it), and what the runs and
the proofs are about; what the other two break is in section 7.

`FramePool` is the abstract allocator: Place, Displace, Take and Give of frames nobody
uses. The inductive invariant stands at the end of `Coremap`, the proofs in `CoremapProofs`.

**`Swapfile`** (swapfile.c, the offsets in the page tables, as_create and as_destroy).
`free` and `swap_offset` are the fields of `swap_list[]` that anybody reads (the recorded
addresses are written and never read); an offset is named by its slot. `file` is the
content of the swap file, `mem[p][v]` that of a page in memory, wherever its frame is;
`offset[p][v]` is the page-table column (-1 = resident). `opens` counts the references
taken by `vfs_open` on the file; `stopped` says why the kernel stopped. `event` is a
history variable: the last store or exit of a program. It is there so that the
refinement below cannot explain a lost page as a store nobody made.

| Action | Code |
|---|---|
| `OutFind` | the search under `filelock`, or the panic for lack of space |
| `OutWrite` | VOP_WRITE, which sleeps, or the panic if it was short |
| `OutMark` | the second critical section |
| `OutReturn` | the unlocked read of the returned offset, and pt_set_offset by the caller |
| `InFree` | swap_in's critical section: the slot is free again |
| `InRead` | VOP_READ |
| `InReturn` | the unlocked read of the result, the KASSERT of vm_fault, pt_set_offset(-1) |
| `as_create` (`swapfile_init`), `as_destroy` | the reset of the list and the open; the end of the address space, which frees no slot |
| `UserStore` | a store of the program to a resident page |
| `swap_shutdown` | vfs_close and the reset |

Which page is evicted and when is left open: any resident page of a process can go out
at any time. That covers every choice of the coremap.

Disciplines: `SerialSpec` (one address space at a time, as from the menu), `ForkSpec`
(address spaces come at any time, one swap call at a time), `OverlapSpec` (address spaces
come only while nothing is out, so that the reset is harmless, but calls interleave).

`UserMemory` is what the programs are promised: a page changes only when its process
stores to it. The inductive invariant stands at the end of `Swapfile`, the proofs in
`SwapfileProofs`.

**`Segments`** and **`PageTable`** are pure: the plan of `seg_load_page` (what is read from
the file, what is zeroed) against the definition of what a byte of a segment should be,
and the two-level table as a function of functions with the growth of inner tables.

**`Vm`** composes them with the TLBs. One program at a time, from `runprogram` over faults
to `Exit`. `access` is the access under way, by the program or by a copy of the kernel
(`copyin`, `copyout`, `copystr`), `fault` the `vm_fault` it caused, in as many steps as it
can sleep: `vm_fault` (checks and what the table says), `page_alloc`, `swap_out`, `Evicted`,
`UseEvicted`, `swap_in`, `seg_load_page`, `tlb_write`. `thread_switch` may put the thread on
another CPU at every sleep; `as_activate` then flushes that CPU's TLB. `balance` holds the
differences of the counters that `print_all_statistics` compares. Its proofs are in
`VmProofs`.

**`Kmalloc`** is kmalloc.c as compiled. A step is a piece of code between two operations on
`kmalloc_spinlock`: the search of the lists (`kmalloc`), the return of `alloc_kpages`
(`SubpageGetPage`, `GetRefPage`, `KmallocBig`), the reference that is taken
(`allocpageref`, `allocpagerefpage`, `DropSpare`), the failure (`SubpageUndo`), `kfree` and
`free_kpages`. `Owners(p)` lists who has page p; `NeverRefused` says which of kmalloc.c's
assertions can fail and when. The inductive invariant and the proofs are in `KmallocProofs`.

### 3.2 Processes

**`Procs`** with **`OpenFiles`**. `proc` holds the process structures (a structure is memory:
once freed it may be the next process's while a waiter still has its address), `table` and
`last_i` the process table, `thread[p]` where the only thread of p is, `menu` whom the menu
waits for. `common_prog`, `runprogram` and `load_elf` walk the header of one of four images
with every way out; `sys_fork`, `sys__exit` (in two steps: out of the process,
then `proc_signal_end`), `sys_waitpid` and `proc_wait` follow the code's order, with
`MaxFail` failures of an allocation or a read. `OpenSearch`/`OpenTake` and
`BeginIO`/`EndIO` are sys_open and file_read/file_write, in two steps each; a close of a vnode
that nobody holds any more (`overclosed`, `open_overcloses`) stops the kernel. The proofs
are in `ProcsProofs`.
`kids`, `ended`, `foreign`, `forked`, `moved` and `raced` are history variables.

### 3.3 Threads

**`Thread`**. `todo[t]` is what thread t has still to do, a sequence of operations, each one
critical section; the current thread of a CPU does its first, a function call puts the
callee's operations in front, an interrupt (timer, interprocessor, lbolt) its handler's.
Switching is `thread_switch` (off the CPU), `pick` (next thread or idle), `resume` (the other
side, which releases the lock the switch was entered with, then `exorcise`). Migration is
`CountQueue`, `TakeVictims`, `SendVictims`, `PutBack`. **`Synch`** adds P, V, locks and condition
variables and the programs of `test/synchtest.c` that the runs execute.

**`Spinlock`** looks into one spinlock operation: level, detector, test-and-set, holder, each
a step, with handlers that take locks too. **`Traps`** looks into one exception: the frame
that is pushed, the level it sets, the handler, the way back (`done`, `done2`,
`exception_return`), `kill_curthread`, `mips_usermode`, switches and migrations in between.
Their proofs are in `SpinlockProofs` and `TrapsProofs`.

### 3.4 Files

**`Vnode`** and **`Vfs`**. A path operation is the sequence of its steps with what its caller
does on failure; the big lock, each count's spinlock, `vnode_decref`'s gap before
`VOP_RECLAIM`, and a second thread of the same process are there. The reclaim of a file's
last reference succeeds (`Reclaimed`) or, when the truncation or the writing of the inode
fails, leaves the vnode with that reference (`Stranded`); `stranded`, which no action reads,
remembers where that happened so that the properties can count it. Blocks are left to
**`Sfs`**, where each operation is one step, because it runs from start to end under
`vfs_biglock`, but may fail at each of its disk operations: an operator returns the set of
outcomes. **`Files`** is the abstract volume: names for files, contents; an operation changes
one name or one file, wholly when it reports success.

**`Semfs`**: the steps of lookups, creations, removals, reads, writes and closes between the
three locks, with the table's growth, the reclaiming and the failures of allocations.

### 3.5 Devices

**`Bus`** (probe, attach, dispatch with the count of duds), **`Lhd`** (the disk's P/V of one
buffer), **`Console`** (console.c and lser.c: ring, delayed, interrupt-driven and polled
output, con_io), **`Emu`** (handles, vnodes, retries). Cards are actions marked external in
the map. **`Devices`** composes them under autoconf's boot; **`System`** adds the second CPU,
the menu with `kgets`, a program, and the shutdown. A *plan* says which devices exist, what
each thread does, what is typed, the kernel's arguments, and how many CPUs there are.

Of a program `System` has the opening of `emu0:SWAPFILE` by `swapfile_init`: the menu waits
for the program's thread, so the record of `Boot` stands for both. `SwapRefused` and
`cmd_prog` are its ends: the assertion of `swapfile_init`, or the menu's next line. Of
`vm_shutdown` there is `swap_shutdown`, which closes that file as any last reference goes
(vfs_biglock, e_lock, the card, its retries), and the printing of the statistics, one message
for all its lines; `coremap_shutdown` changes nothing that `System` has. Without a program the
swap file's vnode is null and `vnode_decref`'s assertion stops the kernel (`Panics`).

### 3.6 Library

`Threadlist` (implements `Deque`), `Bitmap`, `Arrays`, `Creation` (constructors and
destructors block by block), `Spinlock`, `Traps` and `Kmalloc` are checked in one run:
`MCLibrary` chooses a `subject` at first and then only that one moves, so the state spaces add
up and do not multiply.

## 4. The runs

| Run | Properties | What it shows |
|---|---|---|
| `coremap_serial` | `NoLostPage`, `PoolSpec` | one process with one-frame requests: a page that is resident to its table is so to the coremap; every step is a step of `FramePool` |
| `coremap_blocks` | `PageFrameSound`, `KernelBlocksIntact`, `IInv`, `ScanTerminates`, `RoundRobin` | two processes one after the other and kernel blocks of up to two frames; the victim scan ends whenever it can return a run, and every frame in use but the last is chosen again and again |
| `swap_serial` | `SlotsDistinct`, `IInv`, `MemorySpec` | more pages than slots, so that the list fills and the panic is reached; the second program finds the slots the first left used; the programs see `UserMemory` |
| `vm` | `PagingSound`, `LoadExact`, `CopyRecovers`, `PagingInvisible` | three pages in two frames, TLBs of two entries on two CPUs: translations, frames and counters agree at every point of a fault, and no page changes but by a store |
| `procs` | `ProcessesSound`, `StatusDelivered`, `VnodesCounted`, `ExitReported` | the menu and two programs that fork, exit, wait for any pid, open, read and close, with a table that wraps and fills |
| `sched` | `CpusSound`, `WakeupsArrive`, `Finishes` | the synchtest programs on two CPUs with timer interrupts and migrations: a thread is in one place, a wake-up is not lost, the tests end |
| `vfs` | `ReferencesExact`, `NamespaceSound`, `OperationsEnd` | two threads with five operations in all on a disk that is mounted, unmounted and swapped to, with a failure anywhere, in the reclaim too: references are counted up to the one a failed reclaim leaves, and every operation ends although the big lock is taken again inside it |
| `sfs` | `BlocksExact`, `VolumeSound`, `FilesSpec` | every operation on a nine-block volume with a disk operation that fails anywhere: the volume implements `Files` |
| `semfs` | `SemaphoresExact`, `CallsEnd` | two threads and two names, with an allocation that fails |
| `semfs_lost` | `NoSleeperLeft` (violated) | three threads: a sleeper is left although a unit is there (section 7) |
| `devices` | `TransfersSound`, `ConsoleShown`, `CallsEnd`, `StopsEnd` | ten plans: disk by two threads, printing by two, a reader, `read` past the console's lock, a stuck line, the menu with one and two CPUs, and programs, one beside a user of emufs and one beside a thread that prints; a shutdown ends with the power off after a program, and with the assertion of `vnode_decref` before any (section 7) |
| `library` | `StructuresExact`, `PromisesKept`, `SpinlocksSound`, `DeadlocksFound`, `TrapsSound`, `HeapKept` | the seven subjects of section 3.6 |

A property is a conjunction of named parts, each with a comment at its definition:
`PagingSound` is `TypeOK`, `TlbSound`, `FramesExclusive`, `StatisticsConsistent`;
`ProcessesSound` is `TypeOK`, `PidsExact`, `DescriptorsSound`, `StopsHonest`; `CpusSound` is
`TypeOK`, `OnePlace`, `RightCpu`, `SplBalanced`, `NoPanic`; `WakeupsArrive` is `NoLostWakeup`,
`IdleCalled`; and so on. Coremap's `IInv` contains `TypeOK`, `NoFixedLeak`, `StealFrontier`;
Swapfile's `TypeOK`, `NoSlotLeak`, `PanicsHonest`. Each property is broken by at least one
changed definition in the same run ("mutants" in `PROJECT.json`).

Five properties compare a module with an abstract one: `PoolSpec` (`FramePool`), `MemorySpec`
(`UserMemory`), `FilesSpec` (`Files`), `PromisesKept` (`Deque`), and `PagingInvisible` as the
action property that `UserMemory` amounts to.

`CHECK_DEADLOCK FALSE` stands where the system does stop: a shutdown or panic
(`swap_serial`, `vm`, `procs`, `sched`, `devices`), or a bound on the number of calls
(`vfs`, `sfs`, `semfs`, `library`).

## 5. Bounds and fairness

### 5.1 Bounds

Bounds on counters are in the guards, as constants, so that every reachable state is one
the code reaches.

| Run | Bounds | Why they are enough |
|---|---|---|
| `coremap_serial` | 4 pages, 3 allocatable frames | more pages than frames: every page goes out and comes back; the proofs remove these bounds |
| `coremap_blocks` | 2 processes of 2 pages, `MaxReq` 2, a kernel thread | full memory, a block joined from freed frames, a run at the end of memory and at a fixed frame, a stale `vaddr`, the hand's wrap in a run |
| `swap_serial` | 3 pages, 2 slots, 2 contents, `MaxOpens` 2 | the list fills; two address spaces reach the reset with a used slot, a third is like the second |
| `vm` | 2 frames, 3 pages, pages of 4 bytes, 2 TLB entries, 2 CPUs, a two-by-two table | each page is evicted, the TLB's hand wraps, the segments begin and end inside pages; with pages of 4 bytes every alignment of a segment's end occurs in `LoadExact` |
| `procs` | 2 program structures, 3 pids, 2 system entries, 1 descriptor (`OpenMax` 4 = 3 + 1), `MaxFail` 1, `MaxRefs` 2 | the table wraps and fills, a structure and a pid are used again while somebody waits, either table of files is full |
| `sched` | 2 CPUs, 4 threads, `MaxTicks` 2, `MaxMoves` 2, `Turns` 2 | a migration in the middle of any step, from a run queue of more than one; idle CPUs on both sides |
| `vfs` | `MaxCalls` 5 (both threads together, closes not counted), `MaxFaults` 1, 3 devices, 2 files | a mount, a file made, linked and removed while it is open, and an unmount meet in any order with a failure at each step |
| `sfs` | `MaxOps` 4, `MaxFaults` 1; 1 direct and 2 indirect blocks, 2 values or entries per block | writes cross from direct to indirect and past the largest file; the volume and the directory's block fill; one failure is a disk's after all its retries |
| `semfs` | `MaxOps` 5, `MaxFaults` 1, `MaxCount` 3 | open, open, remove, close, close on one name; the count overflows |
| `devices` | `MaxDuds` 2, `Ring` 3, `MaxReads` 2, `MaxLine` 2, `MaxChunks` 2, `MaxRetries` 1, `MaxErrors` 2, `MaxRefused` 1, `Width` 3, what is typed per plan | the ring wraps and overflows, the line fills and empties, a close gives up, sector numbers wrap; one program, since a second only opens the file again (section 7) |
| `library` | 3 threads on 2 lists; words of 2 bits, maps of 0..5; arrays of up to 5; 2 objects; 3 processors with 3 spinlocks, one of them a handler's; 2 processors with 3 tasks; a heap of 4 pages of 8 bytes with blocks of 2 and 4, 2 page references, `MaxLive` 3, `MaxFail` 0 | maps that end inside a word; arrays that double twice; a circle of two or three; a heap whose pages and references run out; the proof removes these bounds for the spinlocks, the detector, the traps and the heap |

Symmetry is used on pages (`coremap_serial`), CPUs (`vm`), names and handles (`sfs`) and the
heap's threads (`library`), where no definition names one and no property is a liveness
property.

### 5.2 Fairness

Weak fairness, each for a reason in the code. A thread in the allocator
(`coremap_blocks`) or in a call (`procs`, `vfs`, `semfs`, `devices`) goes on, since it waits for
others only where an action is disabled and `hardclock` makes the scheduler a preemptive
round robin. A CPU does its next step (`sched`), and interrupts that are asserted arrive,
as the processor's wait for an interrupt assumes; a second passes (`Lbolt`). The hardware
finishes what it was asked (`devices`), as drivers that sleep without a timeout assume. Nothing is
assumed of programs, of who types, or of who calls next, and no strong fairness is
used: no lock's queue is assumed to be fair.

## 6. Proofs

Eight modules hold theorems for every value of the constants. TLC evaluates their
assumptions in the runs, and the runs check what the theorems state. Each theorem of an
invariant has the same shape: an inductive invariant `IInv` that says what holds at every
place a call can be interrupted at, one lemma per action, and the property from it.

### 6.1 CoremapProofs

For every number of threads, pages, frames, and every largest request. Assumption:
`CoremapAssumption` (frame 0 and at least one frame of the kernel image lie below the
first allocatable frame; there is an allocatable frame; the null values are not among
the values).

`SerialInvariant == SerialSpec => []IInv`. The safety properties are not inductive: that
a frame about to be claimed has no other user depends on where the call that found it
stands. `IInv` adds what holds at each program point: the shape of the
arguments of each call (`CallShape`), what the scan has found so far (`ScanState`: the last
`len` frames before the hand are victims and the rest of the run still fits before the
end of memory, or nothing was found yet), what the eviction has done so far
(`EvictState`), and that the frames in a call's hands are unused (`TakeState`). One lemma per
action; `Assemble` puts the conjuncts together. From it: `TypeCorrect`, `PagesSound`,
`KernelMemorySafe`, `FrontierAgrees`, `AssertionsHold`, `VictimsSound`.

`PagesAreKept == ASSUME MaxReq = 1 PROVE SerialSpec => []NoLostPage`. The assumption is needed:
with requests of two frames the code does not hold it (section 7, vm/coremap.c:239). Inductive with `IInv`
is that a user frame is in its address space's table unless the call in progress has just
taken it or is about to enter it (`PagesHeld`), and that a call scans for a victim only when
nothing is free (`NoneFree`), so that the victim's `vaddr` is never a stale one.

`PoolImplemented == SerialSpec => PoolSpec`: under the mapping of page-table entries to
homes, a step is Place (`Map`), Displace (`Unmap`, `ExitFree`), Take (`Mark`), Give (`FreeKpages`)
or a stutter. `IInv` provides that what `Map` and `Mark` hand over is unused.

### 6.2 SwapfileProofs

For every number of processes, pages, slots and contents. Assumption:
`SwapfileAssumption` (at least one slot, finite sets of processes and pages, fresh
contents are contents). `IInv` adds: with one address space, all other
processes are idle with nothing out (`OneAlive`); between search and mark the slot is free
and holds the page after the transfer (`OutCall`); a slot given up still holds the page
until it has been read (`InCall`). From it `SwapTypeCorrect`, `SwapSlotsDistinct`,
`SwapNoSlotLeak`, `SwapPanicsHonest` (its first half counts: the offsets of the pages that
are out cover all slots, so there are at least that many).

`MemoryImplemented == SerialSpec => MemorySpec`: no step but a store and an exit changes
what a page holds. A transfer to the file goes to a free slot; a page moves between
memory and file only while both copies agree.

### 6.3 SpinlockProofs

For every number of processors and locks. Assumption: `SpinlockAssumption` (the handlers'
locks are locks, locks and processors are finitely many, the null value is neither a lock nor a
processor).

`SpinInvariant == SpinSpec => []SpinIInv`. Neither half of `SpinlocksSound` is inductive.
`LocksExact` (one holder) needs that no interrupt comes in the middle of an acquisition;
that follows from `LevelsExact` (the level is raised once for every lock taken or had), which
in turn needs that a holder is never overwritten. So both are proved together, with what
the place of a processor says about `holder` (`HolderInv`) and what an interrupt finds
(`HandlerInv`: no lock, nothing begun). `OneMore` and `OneLess` count the claims of a processor,
`OneLock` reduces a step to the lock it changes, and there is one lemma per action. From it:
`LocksAndLevels` (the property `SpinlocksSound` of the run `library`) and `HandlersFindNone`.

`HangInvariant` and `DeadlocksAreFound == SpinSpec => []DeadlocksFound` are about the detector.
What `hangman_check` follows from a lock is a recursive function (`Trail`); `TrailExact` shows
that it is the function its definition says, `TrailSteps` what its elements are. The invariant (`HangIInv`) has three parts: the notes
agree with the locks except in the steps where the code itself is between the two
(`HangExact`: a lock is noted later than it is taken and forgotten before it is given back);
no set of processors waits in a circle while the kernel runs (`NoCircle`); and when it has
been stopped there is a circle. A circle can close only at the note of `hangman_wait`. If the
walk from there meets the caller, what it has passed is a circle (`TrailIsCircle`); if it does
not, there is none (`TrailFindsCircle`): in a circle it would go on without end, visit one
processor twice, and so show a circle that was there before.

### 6.4 VmProofs

For every number of pages, frames, CPUs, TLB entries, executables and addresses.
Assumption: `VmAssumption` (sizes are positive, the two-level table covers user space, frame
0 is no frame of the pool, segments are made of numbers).

The lemmas on the page table come first: every page has its place (`PagesFit`), a setter
changes the entry of one page (`SetPa`, `SetOffset`), growing an inner table changes none
(`DefineInner`), `pt_destroy` frees what the entries hold (`DestroyFrees`).
`Inductive == Spec => []IInv`: `FramesExclusive` alone is not inductive, since an eviction
takes a frame from one page and the fault gives it to another after two transfers that
sleep. `Faulting` says, for each place `vm_fault` waits at, whose the frame in its hands is
and what it holds; `Translating` that the TLB of the CPU the program runs on agrees with the table,
which it does although threads change CPU in a fault, because `as_activate` flushes;
`Counted` what the counters are between two halves of a fault. From it:

- `TranslationsSound`: a translation is the table's, and a frame has one user.
- `PagingIsSound` (`PagingSound`), with the statistics' identities, and `PagingCannotBeSeen`
  (`PagingInvisible`: a page changes for the program only when it or a copy stores to it).
  Both assume that loads do not fail while a copy is under way (`TRUE \notin LoadFails`):
  there the code leaves the page entered without its bytes, see section 7, vm/vmc1.c:195.
- `CopiesRecover` (`CopyRecovers`: a fault in a copy ends the copy, not the kernel) for
  executables with `ImagesFit`, that is, on which the assertion of vm/segments.c:114 holds
  (section 7); `CopiesMarked` is what remains for all.
- `LoadsAreExact` (`LoadExact`) and `LoadedExactly`: for any segment that starts on a page
  boundary, any length of its file part, and any page, `seg_load_page` reads into the
  frame, and leaves each byte the segment's or zero.

### 6.5 ProcsProofs

For every number of structures, pids, entries, descriptors, executables and references.
Assumption: `ProcsAssumption` (finitely many structures, one of them the kernel's; vnodes of
directories, of files and of executables are told apart; counters hold at least 1).

The invariant has two halves, kept by each action in turn. `Structures`: where a structure
is in its life (`Life`: a dead one is in no table and has no thread; a status is there
before its signal), that a wait leads to a live structure (`WaitsLive`), and, while
programs wait only for their own children, that a child has one waiter at most and one
parent (`Family`, without which a second waiter would read a structure that is freed).
`OpenFilesSound`: a transfer's descriptor still names its entry (`Reading`), and, while no two opens
took one entry, a file is held by no more descriptors and opens in progress than its vnode
counts (`Held`). `PidFound` proves of the search in `proc_init_waitpid` that it finds a
free slot or that all but the last given one are taken. From `Inductive`: `ProcessesAgree`
(`ProcessesSound`: pids name one process, descriptors are sound, the kernel stops for the
reasons it has only), `VnodesAreCounted` (`VnodesCounted`), `StatusesArrive`
(`StatusDelivered`). That an invariant was missing showed a way for the kernel to stop:
when two opens have raced for an entry, sys_open may give back a reference nobody has.

### 6.6 TrapsProofs

For every number of processors and threads. Assumption: `TrapsAssumption` (each processor
was created with a thread of its own, the null value is no thread).

`TrapsAreSound == TrapSpec => []TrapsSound`. That a processor returns to what it came from is
said by the frames on its stack, so `IInv` describes them: `Point` lists the points a
processor can be at, and for each what lies on the stack it is on and what the thread's
level, count and flag are. The shapes nest five deep at most: a system call (`InSystemCall`),
a fault of its copy (`Calls`), an interrupt (`Handles`), the switch that the clock's handler
makes (`Switched`), an interrupt while the processor idles as that thread (`HandlesIdle`). A
thread on no processor has been switched from and has two levels raised (`Waits`); one on
a processor is on the one it runs on (`Placed`), which is what the test for curthread in
`thread_consider_migration` keeps; and where the next exception can come from user mode,
the arrays name the thread (`ArraysReady`). `OneProcessor` reduces a step to the processor that
makes it; one lemma per action.

### 6.7 KmallocProofs

For every number of threads, pages, roots, references and requests, every ascending list of
block sizes that divide a page. Assumption: `HeapAssumption`, the facts of `sizes[]` and
`PAGE_SIZE` that kmalloc.c relies on (the sizes ascend and each divides a page).

`HeapInvariant == HeapSpec => []HeapIInv`. None of the parts of `HeapKept` is inductive: that
the block at the head of a free list meets no block handed out needs that each of those is a
used block of its page (`BlockInv`), which a new page keeps only if nobody else has that page
(`OwnerInv`); that a page may go back needs that its free list, being as long as the page has
blocks, names them all (`AllFree`, a counting argument). `RefInv` says whose the marks of the
references are while a thread is away for a page without the lock, and that roots
are used in order, from which it follows when freepageref's assertion can fail; `ThreadInv` what
a thread has brought so far. Owners are counted by the relation `Owned` of seven kinds;
each action moves one or two lots of pages between two of them (`Moved`, `Moved2`), so that
`OwnersMove` serves all. One lemma per action, one step per part.

From it `HeapIsKept == HeapSpec => []HeapKept`: blocks have no byte in common (`InSpan`, `InRun`:
where the bytes of a block are), every page has one owner, the two lists pass the checks
of SLOWER (the count of their places by a bijection, `PlacesAgree`), and kfree takes every
block. The pages come from `alloc_kpages` by its contract, as in the run.

### 6.8 SemfsProofs

For every number of threads, names, units, failed allocations and calls. Assumption:
`SemfsAssumption` (finitely many threads, the null value is neither a thread nor a name, the
largest count and the lengths are numbers).

`SemInvariant == Spec => []SemInv`. That names, numbers, semaphores and vnodes agree is
not inductive: `semfs_remove` and `semfs_creat` change them in several steps, and the
directory's lock, the table's and a semaphore's are never all held. `Hand` says what a thread knows of
the number and the semaphore in its hands at each place it holds the directory at: a name
found stays linked until its holder unlinks it, and a semaphore just made, or just
unlinked, cannot get a vnode. `Leaves` says what holds between the two locks of a last close, `Refs`
that a vnode counts the threads that hold it (`RefsTaken`, `RefsGiven` and `RefsLast`, for
`semfs_getvnode`, a decrement and a reclaim), `Hooked` that a vnode in the table and `sems_hasvnode`
go together, `Numbers` that a semaphore has one place in `semfs_sems`. Together they make a
number that goes one that nobody reads from, closes or looks up. There is one lemma per
action. Steps of a thread outside the directory share `OutsideStep`, steps inside it share `InsideCommon`
and `AliveOn`, the two ways to destroy a semaphore there share `GoneStep`.

From it `SemaphoresAreExact == Spec => []SemaphoresExact`. The state in which a remove and
a last close have destroyed a semaphore twice (section 7) is a reachable one: there the kernel has
stopped before anything else changed, so the theorem holds of it too.

### 6.9 Only model-checked

- Liveness (`ScanTerminates`, `RoundRobin`, `ExitReported`, `Finishes`, `OperationsEnd`, `CallsEnd`,
  `StopsEnd`)
  and what is under fairness: out of the prover's reach, as is ENABLED.
- Induction over data: what the operations on a list's links and a bitmap's words compute
  (`StructuresExact`, `PromisesKept`). Where a proof needs a least number or the first step that
  fails (`Least`, `TrailExact`), it takes it from the well-foundedness of the numbers.
- `CpusSound`, `WakeupsArrive`, `TransfersSound`,
  `ConsoleShown`: their modules could be proved about; they are not yet.
- `ReferencesExact`, `NamespaceSound`, `BlocksExact`, `VolumeSound` and `FilesSpec`: `Vfs` and `Sfs`
  are sequences of steps and sets of outcomes given as data, which suits TLC better
  than the prover.

## 7. Disagreements found while modelling

One is a run of its own with its counterexample:

- `semfs_lost` (fs/semfs/semfs_vnops.c:145): `semfs_wakeup` wakes nobody unless the old count
  is 0. Two threads sleep, two units come before the first sleeper has run: the second
  unit wakes nobody, and a thread sleeps on while a unit is there.

The passing runs keep to the circumstances where the following do not happen, or the
property says so; the disciplines `Spec`, `AtomicSpec` (Coremap), `ForkSpec`, `OverlapSpec`
(Swapfile), a larger `MaxReq`, or other images reach them.

Memory:
- vm/coremap.c:169, 202: a frame is found and claimed in two critical sections, so two
  `page_alloc` calls can take one frame (`Spec`).
- vm/coremap.c:190: the eviction writes the page table of the caller, not the owner's
  (`AtomicSpec` with two address spaces).
- vm/coremap.c:239, 344: a two-frame kernel request evicts by the stale `vaddr` of a freed
  frame and marks a resident page as swapped out (`MaxReq` 2 with `NoLostPage`).
- vm/coremap.c:98: the last frame never is a victim; the comment promises all frames.
- vm/coremap.c:96: the scan does not end when nothing can be evicted.
- vm/pt.c:91: as_destroy frees frame 0 for every evicted page (harmless while frame 1 is not
  free: proved with it).
- vm/pt.c:137: `pt_define_inner` may allocate in the middle of an eviction.
- vm/swapfile.c:62: two overlapping calls of swap_out choose the same slot (`OverlapSpec`).
- vm/addrspace.c:70: every as_create, fork's too, forgets the slots in use (`ForkSpec`).
- vm/swapfile.c:35: the swap file is opened for each address space and closed once.
- vm/swapfile.c:131: a shutdown before any program closes a null vnode, and the assertion at
  vfs/vnode.c:100 stops the kernel instead of the power going off: `q` at the first prompt
  panics. `ShutdownEnds` states both ends, and the run `devices` reaches both.
- vm/kmalloc.c:286: a page reference is marked before its page exists and stays marked when
  there is no memory; a later `freepageref` then asserts (321).
- vm/addrspace.c:273: the ends of the segments are inclusive, so the address just past one
  is accepted.
- vm/segments.c:114: the assertion on the page's index fails for such an address when the
  segment ends on a page boundary, and for the last page of a segment that starts inside a
  page and touches one page more than its size needs: the kernel stops, in a copy too (`ImagesFit`).
- vm/vmc1.c:195: when the load of a page fails in a copy, the copy returns EFAULT with the
  page entered; the next access finds it present, without its bytes.
- vm/addrspace.c:76: fork shares the page table and the executable without a reference, and
  both ends destroy them.
- locore/trap.c: a fatal fault of a user program panics the kernel (`kill_curthread`).

Processes and files:
- syscall/proc_syscalls.c:105: fork copies the child's empty file table over the parent's.
- syscall/file_syscalls.c:189: two opens can take one entry of the system table; at 203,
  when the process has no descriptor left, the entry keeps the closed vnode. An open that
  lost such a race and then fails (191, 213) closes a vnode that may have no reference left,
  and vnode_decref asserts. Files that are
  open at exit are never closed. The tests of the descriptor let `OPEN_MAX` through (111).
- proc/proc.c:93: the search of the process table does not try the last slot given again, and
  `waitpid` does not reach pid `MAX_PROC`.
- main/menu.c:72: when `runprogram` fails, nobody signals, and the menu waits for ever.
- main/menu.c:323: `cmd_deadlock` releases a lock it does not hold when the fork fails.

Threads and devices:
- arch/sys161/dev/lamebus_machdep.c:311: an interprocessor interrupt posted between the
  handler and the clearing of the line is lost. For UNIDLE it does no harm; for OFFLINE
  another processor may never stop.
- dev/generic/console.c:145: two readers of the console without its lock (reads of
  descriptor 0) race on the ring's tail.
- dev/lamebus/emu.c:1173: when memory runs out, emufs_loadvnode keeps the big lock; when
  a close is given up after its retries, the handle stays open, and in a reclaim its vnode
  stays too, with a reference nobody has.
- dev/lamebus/lhd.c:205: the sum can overflow, as its comment says.

File systems:
- vfs/vfslist.c:542: vfs_mount does not compare the volume's name with other names; at
  swapoff a reference is kept. vfs/vfslookup.c: vfs_setbootfs takes a name without the colon
  its comment describes.
- fs/sfs/sfs_bmap.c:184: when the write of the indirect block fails, the new block is lost;
  at 266 `<` where `<=` is meant (only truncation to 0 is ever asked for).
- fs/sfs/sfs_inode.c:98, 107: when the truncation of a removed file or the writing of an inode
  fails, the vnode stays with a reference nobody has, and the volume cannot be unmounted
  (`stranded` in `Vnode`; `RefsExact` says that it is one reference and stays one).
  `sfs_getroot` keeps a reference when the root is not a directory.
- fs/semfs/semfs_vnops.c:495, 609: a removal and a last close at the same time may destroy a
  semaphore twice; when a directory entry cannot be made (430), `semfs_creat` returns 0
  without a vnode.

## 8. Not modelled

- *Tests, user programs, build*: `test/` except the parts of synchtest that `Synch` runs.
- *Not configured*: `dumbvm*.c`, `*Old.c`, `*OldLess.c`, lscreen, lnet.
- *Devices with one register*: the clock chip, beeper, random source and trace device have no
  state; the timer's ticks are in `Thread`.
- *In memory*: what `coremap_shutdown` gives back (the kernel stops allocating then); blocks allocated before the coremap is active;
  the kmalloc inside `pt_define_inner` (composing page tables with the heap over the coremap
  leaves TLC's reach); faults of threads without an address space; `vm_tlbshootdown`
  (panics); printing.
- *In the life of the kernel*: a second program (its opening of the swap file again is
  `Swapfile`'s), a program whose loading fails (the menu then waits for ever, section 7), the
  steps of a panic, the messages of emu_close's retries.
- *In processes*: after a fork, the memory that parent and child share (its effect on the
  swap file is `ForkSpec`'s, its effect on references is in `Procs`); descriptor `OPEN_MAX`,
  which reads past the structure.
- *In threads*: the failures of `thread_create` (in `Creation`), TLB shootdowns, the other
  CPUs of a panic, the registers that switch.S saves, stack guard words, bus errors.
- *In file systems*: operations that change nothing (stat, namefile, getdirentry, ioctl,
  mmap), the checks of the superblock at mount.
- *Formatting*: `kprintf`'s conversions, `snprintf`, string functions, `uio`'s copying: they
  have no state of their own.
- *Bus*: unmarking, detaching and masking, which nothing calls; the registers of `lamebus`
  processors beyond the interprocessor line.
