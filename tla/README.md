# A TLA+ model of the OS/161 assignments

The repository holds three assignments of an operating systems course and the
teaching kernel they are built on, OS/161. This directory models the concurrent
and stateful core of both in TLA+, checks it with TLC on small instances, and
proves part of it with TLAPS for every instance. `PROJECT.json` ties each
definition to the lines it models and lists the runs, hazards and theorems.

## The system and its parts

* **Assignment 1** (`asst1/`) has four synchronisation exercises: adders that
  share a counter (`math.c`), two threads that share two locks (`twolocks.c`), a
  bounded buffer (`producerconsumer*.c`) and a bar whose bartenders lock bottles
  (`bar*.c`). They use only the kernel's semaphores and locks.
* **Assignment 2** (`asst2/kern/syscall/file.c`) adds file descriptors.
* **Assignment 3** (`asst3/kern/vm/`) adds virtual memory: a frame table, a
  hashed page table that all processes share, address spaces and fault handling.
* **The base kernel** (`original_asst3/kern/`) supplies threads and CPUs
  (`thread/thread.c`), semaphores, locks and condition variables
  (`thread/synch.c`), the heap (`vm/kmalloc.c`), processes and pids (`proc/`),
  program loading and system calls (`syscall/`), and a file system (`vfs/`,
  `fs/sfs/`). `userland/sbin/` has the programs that make a volume (`mksfs`) and
  repair it (`sfsck`).

They are layered. `thread.c` provides wait channels, `synch.c` builds semaphores,
locks and condition variables on them, and everything above sleeps only through
those. A fork (`proc_fork`) takes a pid, copies an address space (which copies
page table entries and allocates frames) and shares the file table. An exit undoes
each of these. The models follow the same layering: an upper module uses a lower
one through the atomic specification that the lower one is shown to implement.

The file system is one layer more. A system call finds a vnode through the VFS,
SFS changes inodes and the free map in memory and directories and data on disk,
and after a power failure `sfsck` has only the disk to go by.

### Inventory

| Part | Module | State |
|---|---|---|
| physical frames: `asst3/kern/vm/frametable.c`, `mips/vm/ram.c` | `FrameTable`, `KernelMemory` | modelled, proved |
| kernel heap: `vm/kmalloc.c` | `KMalloc`, `KernelMemory` | modelled, without its debugging options |
| page table, faults, TLB: `asst3/kern/vm/vm.c` | `VM` | modelled |
| address spaces: `asst3/kern/vm/addrspace.c` | `VM` | modelled |
| process life cycle: `proc/proc.c` | `VM`, `Pid` | partly: no `p_cwd`, no thread array |
| program loading: `runprogram.c`, `loadelf.c` | `VM` | partly: argument copying and ELF parsing are data |
| trap dispatch: `locore/trap.c` | `VM` | partly: TLB exceptions only |
| pids, exit, wait: `proc/pid.c`, `proc_syscalls.c` | `Pid`, `Processes` | modelled; invariants proved |
| kernel menu: `main/menu.c` | `Pid`, `Asst1`, `SFSVolume` | partly: `common_prog`, the dispatch of a test, mounting |
| semaphores: `thread/synch.c` | `Semaphore` | modelled, proved |
| locks and condition variables: `thread/synch.c` | `Synch` | modelled, proved |
| threads, run queues, migration: `thread/thread.c`, `clock.c` | `Threads`, `Processes` | partly: no CPU start-up, panic, shutdown |
| adders and two locks: `asst1/math.c`, `twolocks.c` | `Maths`, `TwoLocks` | modelled |
| bounded buffer: `asst1/producerconsumer*.c` | `ProducerConsumer` | modelled |
| bar: `asst1/bar*.c` | `Bar` | modelled |
| files of assignment 2: `asst2/kern/syscall/file.c` | `File` | modelled |
| open files of the base kernel: `filetable.c`, `openfile.c`, `file_syscalls.c` | `OpenFile` | modelled |
| semaphore file system: `fs/semfs/` | `SemFS` | modelled, without unmounting |
| console and serial port: `dev/generic/console.c`, `dev/lamebus/lser.c` | `Console` | modelled |
| disk driver: `dev/lamebus/lhd.c`; reading and writing a device: `vfs/device.c` | `Disk` | modelled |
| simple file system: `fs/sfs/` | `SFSLayout`, `SFS`, `SFSVolume` | modelled |
| `sbin/sfsck`, `sbin/mksfs` | `Sfsck`, `SFSLayout` | modelled, without the superblock's repair |
| VFS: `vfs/` | `SFSVolume` | partly: no devices, no current directory |
| remaining system calls: `more_syscalls.c` | `SFSVolume` | partly: those that change a volume |

### Not modelled

* **Spinlocks, interrupt levels, thread lists.** They are the atomic sections and
  the sequences of the modules above. A spinlock is a test-and-set loop, which
  nothing in the repository changes.
* **`hangman.c`.** A deadlock detector that every kernel configuration leaves off
  (`#options hangman`).
* **User memory copying, trap entry, assembly.** Callers see an `EFAULT`, which
  the models have.
* **Other device drivers.** Bus probing, the timer, the random generator, and
  `emu.c`, whose sharing of vnodes depends on the handles that the host gives out.
* **The kernel library, `asst1/queue.c`** (`array.c`, `bitmap.c`, `uio.c`,
  `kprintf.c`). Sequential data structures that appear as sets, sequences and
  functions. Nothing includes `queue.c`.
* **Start-up.** One thread, one fixed order; its result is `Init` of each module.
* **User programs, libc, the test suite, build tools.** Most of the repository's
  lines. Single-threaded code whose only shared state is the kernel's, reached
  through the calls modelled here.

## Modules

Four abstract specifications say what a component promises:

* `PageAllocator`: a pool of frames; an allocation takes free frames or fails, a
  free gives back exactly one allocated block.
* `CountingSemaphore`: an atomic count, with and without fairness of `P`.
* `Mesa`: a monitor in which waiting is atomic and a signalled thread must
  compete for the lock again.
* `BoundedFifo`: a queue of bounded length.

The detailed modules carry the names of the C functions as action names.

* **`FrameTable`.** Frame numbers stand for physical addresses. Before
  `init_pagetable`, memory is stolen from the bottom of RAM (`ram_stealmem`); after
  it, `alloc_kpages` takes the head of a linked list threaded through the frame
  table and `free_kpages` pushes a frame back. Each runs under the frame table's
  spinlock and is one action. A request for several pages fails once the table is
  in charge, as in the code.
* **`VM`.** The hashed page table as chains per bucket, a TLB per CPU, address
  spaces as sets of pages with a permission bit, and the contents of each frame.
  `vm_fault` is split where the code drops or does not hold `page_table_lock`;
  `vm_copy` and `vm_destroy` go bucket by bucket; fork, exec and exit are the
  sequences of address space operations the kernel performs, with every
  allocation able to fail. A kernel fault, failed assertion or double free sets
  `status` and stops the system.
* **`Pid`.** The table `pidinfo` indexed by `pid % PROCS_MAX`, the search for the
  next pid with its wrap-around, and fork, failed fork, exit, wait, disown. A fork
  that fails in the kernel process is the `waittest` of the menu, which panics.
* **`Semaphore`, `Synch`.** `P`, `V`, `lock_acquire`, `lock_release`, `cv_wait`,
  `cv_signal` and `cv_broadcast`, split at the points where the code sleeps or
  releases one spinlock before taking another.
* **`Threads`.** Run queues per CPU, `thread_fork` (which may be moved to another CPU
  between taking its own for the new thread and queueing it), `thread_switch` and the stretch during which
  a sleeping thread is still on its own stack, zombies, idling and IPIs, and
  `thread_consider_migration`. `RECURSIVE` operators follow its loops, so no
  proofs are written about it.
* **`KMalloc`.** Pages cut into blocks of one size, the lists of page
  descriptions, and the tables they are kept in. A step is what happens under one
  hold of `kmalloc_spinlock`; pages are taken and given back without it. It uses
  the abstract `PageAllocator`.
* **`Maths`, `TwoLocks`, `ProducerConsumer`, `Bar`.** Every semaphore or lock
  operation is a step. They are atomic here, which the refinements of
  `CountingSemaphore` and `Mesa` justify.
* **`File`, `OpenFile`.** Descriptor tables, reference counts and offsets.
  `File` has one process (assignment 2 has no fork) and all error paths;
  `OpenFile` has several processes that share open files and hold the offset
  lock across I/O.
* **`SemFS`.** Semaphores that are files. What runs under one hold of a lock is one
  step; `semfs_remove` and `semfs_reclaim`, which read each other's flags under
  different locks, are several.
* **`Console`.** Readers and writers of `con:`, kernel threads that print, the
  interrupt handler in the steps between its lock and its two calls, and printing by
  polling. The port itself (sending and receiving a character) is external.
* **`Disk`.** Threads in `lhd_io`, which share one buffer and one set of registers,
  and the interrupt handler. The disk itself (ending an operation) is external.
* **`SFSLayout`.** What is on a disk: inode blocks, the free map, and blocks of
  units. A unit is a directory entry or one word of data or of an indirect block.
  It says what a block looks like when it is read as something it is not.
* **`SFS`.** Each function of `fs/sfs/` as an operator on a record of the disk, the
  free map and the vnodes. The record counts transfers, so that one of them can
  fail and the power can go after any of them. Operations hold `vfs_biglock`
  throughout and are atomic but for that. A read that fails is an error of the
  operation. A write that fails is not: `sfs_rwblock` tries again with a `uio` that
  `lhd_io` has used up (`lhd.c:226`), so the second try transfers nothing and succeeds.
  The block is not on the disk and nobody knows; the record keeps `lost`.
* **`Sfsck`.** Both passes and the repair of link counts, as operators on a record
  of what `sfsck` keeps, with the same counter.
* **`SFSVolume`.** Processes with system calls made of several VFS steps. A
  `vnode_decref` that finds the last reference and the `VOP_RECLAIM` after it are
  two steps. Mount, unmount, sync, disk errors, power failures and `sfsck` are
  actions.

Five modules put components together:

* **`KernelMemory`**: the frame table under any callers, or the heap over a pool.
* **`Processes`**: processes and their pids, or the threads under them.
* **`SynchObjects`**: threads (the set `Thread` of `KernelThreads`) that use a
  semaphore, a lock and a condition variable.
* **`Asst1`**: one command of the menu, which runs one test of assignment 1 or
  `SynchObjects`.
* **`InputOutput`**: the files of either kernel, `SemFS`, `Console` or `Disk`.

`KernelMemory`, `Processes`, `Asst1` and `InputOutput` choose in the initial state which
part runs.
The parts they put side by side do not interact; where one uses another it is
through an abstract specification.

`MCVM`, `MCBar` and `MCSFS` give values for TLC: hash functions,
symmetry sets, drinks, and the mixes of calls to explore.

Undefined behaviour is a choice: an uninitialised field takes any value of
`Uninitialised`, and use of a dead stack frame stops the system with a `status`.
A run whose cfg says `CHECK_DEADLOCK FALSE` is one whose system may really stop,
because all processes exited or because `status` recorded a kernel panic.

## Runs

Each passing run takes at most four minutes with two workers.

| Run | Bounds | States | What it shows |
|---|---|---|---|
| `kernel_memory` | 6 frames, 1 for the kernel, tables of 1 each, requests of 1 or 2 pages; heap: 2 threads, 4 frames, 2 sizes, 2 blocks to a page | 102,124 | the free list holds exactly the free frames, no frame is used twice, the allocator is a pool (`RefinesPageAllocator`); no heap block is shared or lost and every heap page has one use (`HeapExact`) |
| `vm` | 2 CPUs, 2 processes, 3 frames, 2 address spaces, 2 buckets; any allocation may fail | 557,451 | frames are in the pool or in one page table entry, one entry per page, a running process sees only its own translations, a process reads what it wrote, no error path keeps `page_table_lock` |
| `vm_copy` | as `vm`, both pages hash to one bucket | violation | see Findings |
| `vm_fork` | as `vm`, 1 CPU, `kmalloc` may fail in `vm_copy` | violation | see Findings |
| `processes` | 4 processes, 4 slots, pids up to 7, two statuses; 2 CPUs, 2 boot and 2 forked threads | 715,027 | living processes keep their slot, no zombie stays for ever and the count is exact, a status is not lost, `pid.c`'s and `thread.c`'s assertions hold, a wait for an exited child returns; no two CPUs run on one stack, every thread is in exactly one place, an idle CPU with work is woken |
| `synchronisation` | 4 threads, a semaphore of 1 and a lock; 3 adders and 3 additions, run twice; 3 rounds of two locks; 2 producers, 3 consumers, 2 slots, 2 items each; 2 customers, 2 bartenders, 2 rounds, 5 bottles | 218,877 | no wakeup is lost, `P` and `V` are a fair counting semaphore, locks and condition variables are a Mesa monitor; the sum is exact the first time and unchanged the second, the buffer is a FIFO and is shut down clean, an order is in one place, bottles are exclusive and do not deadlock, every test ends |
| `bar_order` | 2 customers, 2 bartenders, drinks naming two bottles in both orders | violation | see Findings |
| `input_output` | assignment 2: 3 descriptors, a regular file and the console; base kernel: 2 processes, 2 descriptors, 2 open files; `semfs`: 2 processes, 2 names, 2 semaphores of at most 1; console: 2 readers, 2 writers, a kernel thread, a ring of 3, up to 5 characters typed while nobody prints and 2 while they do, 1 polled; disk: 2 threads, 2 sectors, 3 calls | 414,312 | reference counts equal the descriptors in use on every path, failures, fork and exit included; an offset never moves under an I/O in progress; a semaphore is neither lost nor taken from its users; what is typed arrives once and in order; the port is never written while busy and lines are not mixed; a transfer gets its own result and data; printing and transfers end |
| `semfs_wakeup` | 3 processes, 1 name, 1 semaphore of at most 2 | violation | see Findings |
| `semfs_race` | 2 processes, 1 name, 1 semaphore of at most 1 | violation | see Findings |
| `sfs` | 8 blocks of 2 units, 1 direct block, 2 names; 8 mixes of up to 5 calls of 1 or 2 processes, up to two disk errors and power failures (`MCBounds`) | 174,673 | until a write is lost the free map and the link counts are exact, no assertion fails, and a power failure spares the files it did not interrupt; references are exact, and `sfsck` repairs what it says it does, lost writes or not |
| `sfs_truncate` | as `sfs`, one process, lengths 0 and 2 | violation | see Findings |

The bounds are the smallest at which the cases that matter occur. Three frames
for two processes make allocation fail in the middle of a fork. Four pid slots
with pids up to 7 make the search wrap and skip slots in use. Four threads let one
hold the lock, one sleep on it, one wait on the condition and one signal. More
consumers than slots make shutdown messages queue up. Two bartenders suffice for a
cycle over two bottles. Two threads and four frames let a heap page be filled,
emptied and given back while the other thread waits for one. One direct and one
indirect block with two entries put the border between them, and an indirect block
that becomes empty, within reach of two calls. A ring of three places holds two
characters, so that it wraps around, keeps two in order and drops a third; two writers and a kernel thread
put another's character between any two of a line. A third process in `OpenFile` gives
some 15 million states and adds no new kind of sharing.

Symmetry is used in `vm` for frames, processes and CPUs and in `kernel_memory` for
threads and heap frames. No liveness property is checked in either.

`sfs` explores calls, errors and failures in mixes because their product is too
large: two processes without faults, one with a disk error, one with two (the second
may hit a rename that undoes itself after the first, which panics), one or two with
power failures, and a second power failure while `sfsck` runs.

`CHECK_DEADLOCK FALSE` stands where the system may stop: every process has exited,
every thread waits on a condition nobody signals, all threads have finished, the
calls of a mix are used up, the machine ran out of memory before the frame table
existed, or a variable records a panic.

### Fairness

Only weak fairness is assumed. `thread.c` keeps FIFO run queues and a timer
interrupt forces `thread_yield`, so a thread that can run does run; spinlock
holders run with interrupts off and finish.

* `Asst1`: while a step is possible, one is taken; and a thread in `P` that is not
  asleep gets its turn. No thread of a test is promised its own turn, and nobody is
  assumed to call `V` or `cv_signal`. That the tests end all the same shows that
  none of them can spin.
* `Processes`: the return of a wait whose child has exited. No process is assumed to
  exit, and no thread to run.
* `InputOutput`: the serial port finishes a character and the disk an operation,
  their interrupts are taken, and a thread that can print or go on with a transfer
  does. Nobody is assumed to type.

## Proofs

TLAPS checks these for all values of the constants that meet the named
assumptions.

**`FrameTableProofs`**, from `ConstantsAssumption` (positive sizes, first free
frame within RAM). The inductive invariant is
`IInv == TypeOK /\ BootInv /\ FreeListSound /\ NoDoubleUse`. `FreeListSound` alone
is not inductive: pushing a frame on the list keeps it sound only if the frame was
not on it already, which needs `NoDoubleUse`; and the list `init_pagetable` builds
is sound only because stolen memory ends where `firstpaddr` says, which is
`BootInv`. One lemma per action shows preservation. From it follow `TypeCorrect`,
`FreeListCorrect`, `NoDoubleUseCorrect` and, with one lemma per action that names
the abstract step it takes, `Refinement`: the frame table implements
`PageAllocator`.

**`SemaphoreProofs`**, from a finite thread set and natural counts. The invariant
is `TypeOK /\ ChannelExact /\ NoLostWakeup`. `NoLostWakeup` relates the count to
the number of threads woken but not yet running, so each step changes a cardinality
by at most one (`AwakeCount`). It gives `NoLostWakeupCorrect`, `ChannelCorrect`
and `CountingRefinement`: `P` and `V` implement an atomic counting semaphore
(safety; the fair version is model-checked).

**`SynchProofs`**, from `NULL` not being a thread. The invariant is
`LTypeOK /\ HolderExact /\ WchanlockExact /\ ChannelsExact /\ LockNotForgotten`:
`lk_holder` and `cv_wchanlock` are held by exactly the threads whose program counter
says so, and each wait channel holds its sleepers once each. `LockNotForgotten`
needs all of them: that the woken thread is really off the channel, and that a
thread between the two spinlocks of `cv_wait` has already released the lock. The
actions change the lock in three ways (release, move, nothing), with a lemma for
each. It gives `LockNotForgottenCorrect`, `ChannelsCorrect` and `MesaRefinement`:
giving up the lock and going to sleep in `cv_wait`, several steps in the code, are
one step to its callers.

**`PidInvariant`, `PidExit`, `PidDrop`, `PidProofs`**, from `ConstantsAssumption`
(more slots than `PID_MIN`, and `PID_MAX` at least `2 * PROCS_MAX - 1`, so that
every slot has a pid; the kernel has 128 slots and pids up to 32767). The invariant
`IInv` adds to the checked properties what each of them rests on:

* `EntriesPlaced`: an entry is in the slot of its pid, and is not its own parent.
* `ParentsLive`: a parent named in an entry lives and has run. This is the heart of
  it. A process that gets a pid used before would otherwise inherit the children of
  the one that had it; and `pid_unalloc` may drop a child without looking for
  children of its own only because one that has not started has none.
* `ForkersAreParents`, `OwedAlive`: the one that will ask for a status is the parent
  in the table.
* `WaitsForChild`: what a process waits for stays its child, so `pid_wait` may use
  the entry after `cv_wait` without looking again.
* `Counted`, `StatesAgree`, `EntriesOwned`: the counter, and what a process is doing,
  agree with the table.

`ScanFinds` shows that the loop of `pid_alloc` ends within the limit it asserts: from
`nextpid` it either sees `PROCS_MAX` pids in a row, which have all remainders, or it
wraps around to `PID_MIN` and then sees the pids up to `PROCS_MAX + 1`, which have
all remainders too. Its arithmetic rests on `ModUnique`. There is one lemma for each
action; `PidExit` has the longest, because an exit changes the own entry, those of
all children and what the parent is owed at once. From `IInv` follow
`LivingHaveEntriesCorrect`, `NoZombieForeverCorrect`, `StatusKeptCorrect` and
`AssertionsHoldCorrect`. The proof is spread over four modules because the prover
gets slower with the number of obligations in one.

**Only model-checked**: all liveness and fairness (`WaitReturns`, `EveryTestEnds`,
`RefinesFairCounting`), which the prover does not handle; `Threads` and `Sfsck`,
whose loops are `RECURSIVE` operators, and with `Sfsck` all of `SFSVolume`; and the
invariants of `VM`, `KMalloc`, `ProducerConsumer`, `Bar`, `File` and `OpenFile`.

## Findings

* `vm_copy`: `asst3/kern/include/addrspace.h:79` says `as_copy` makes "an exact
  copy of an old one". `vm_copy` (`vm.c:166`) copies only the head of each
  bucket's chain, so a child lacks a page that shared a bucket.
* `bar_order`: `asst1/bar.c:169` sorts the bottles "in case of deadlock". The
  insertion sort stops at `j > 0` (`bar.c:145`) and never moves anything before
  element 0, so drinks `<<1,2,0>>` and `<<2,1,0>>` deadlock two bartenders. The
  driver's own drink, already in a safe order, does not (`synchronisation`).

* `vm_fork`: `man/syscall/fork.html:106` promises `ENOMEM` when memory is short.
  `as_copy` has stored the new address space in `*ret` (`addrspace.c:90`) when
  `vm_copy` fails and `as_destroy` frees it (`addrspace.c:94`); `proc_fork` then
  destroys the child, and the address space with it, again (`proc.c:301`). When
  it is the frame that is missing, `vm_copy` does not look (`vm.c:172`) and faults
  in the kernel with `page_table_lock` held.
* `sfs_truncate`: `sfs_bmap.c:265` says "Discard any blocks that are past the new
  EOF", and `ftruncate.html:62` that "the excess data is discarded". For blocks
  named in the indirect block `sfs_itrunc` tests `blocklen < baseblock+j`
  (`sfs_bmap.c:266`), so block number `blocklen` stays. A file that grows again
  shows the old data in it.
* `semfs_wakeup`: `semfs_vnops.c:136` says that there "should only" be sleepers "if
  the old count is 0", and a write to a semaphore that is not 0 wakes nobody
  (`semfs_vnops.c:145`). Two readers sleep and two units are added one after the
  other: the second write finds the unit that the first reader was woken for, and
  the second reader sleeps on beside a unit nobody takes.
* `semfs_race`: `synch.c:176` asserts that nobody holds a lock that is destroyed.
  `semfs_reclaim` reads `sems_linked` without `sems_lock` (`semfs_vnops.c:633`), while
  `semfs_remove`, which holds that lock, has just cleared it (`semfs_vnops.c:497`). The
  last close then destroys the semaphore, its lock still held.

The modules also model the following as the code has it; no run is devoted to them.

* `Pid`: when `common_prog` cannot start a thread it calls `proc_destroy` with the pid
  still allocated (`menu.c:129`), which `proc.c:185` asserts it is not.
* `SemFS`: reading the directory where an entry was removed follows a null pointer
  (`semfs_vnops.c:321`); without memory for an entry `semfs_creat` reports success
  and `vfs_open` finds no vnode (`semfs_vnops.c:427`).
* `VM`: `as_deactivate` is empty, so TLB entries outlive `as_destroy` until the
  next activation.
* `KMalloc`: a page description that cannot be given its page is not given back,
  and trips an assertion when the next one of its table is freed (`kmalloc.c:318`).
* `Maths`: the counter is not set back when the command is given again, though
  `math.c:111` says that `maths` "Initialises the counter variables".
* `SFS`: a write that fails is reported as done (see the module above), so `fsync` and
  unmounting may succeed with a block missing from the disk. After that a file may
  claim a block that the free map has free, and freeing it again panics; `MapExact`,
  `LinksExact`, `NoPanic` and `CrashKeepsFiles` are stated up to the first lost write.
  A `VOP_RECLAIM` that fails
  leaves a reference nobody holds, and the volume cannot be unmounted. `fsync` of a
  file writes its inode and not the directory that names it.
* `Sfsck`: an indirect block found empty is marked in use before it is freed
  (`pass1.c:92`, `163`), and becomes free only in a second run. The root directory
  of a new volume has no `.`, which is reported as not fixed; the `.` and `..` that
  `sfsck` adds are ordinary names to the kernel.
* `Bar`: `is_semaphore_init` is read uninitialised (`bar.c:86`); the go-home order
  lives on a stack frame that may be gone when a bartender reads it
  (`bar_driver.c:328-336`); a double serving makes a bartender wait for itself
  (`bar.c:177`), though `bar_driver.c:277` says mix counts them.
* `File`: a full table releases a lock nobody holds (`file.c:89`); `dup2` onto an
  open descriptor acquires `ft_lock` twice (`file.c:360`); a failing `SEEK_END`
  has already moved the offset (`file.c:266`); `sys_open` leaks its name buffer
  (`file.c:101-113`); `runprogram.c:84` ignores a failed table initialisation.
* `OpenFile`: `dup2` of a closed descriptor onto itself succeeds
  (`file_syscalls.c:308`).
* `ProducerConsumer`: a consumer's exit after 10000 items is beyond any bound here
  and is not modelled.

## Plan

1. Find and prove an inductive invariant for `ProducerConsumer` (`RefinesFifo`).
2. Prove the reference counts of `OpenFile`, then `FramesAccounted` of `VM`.
3. Compose `Pid` and `VM` over one fork and exit, so that a failed fork is followed
   through pid, address space and file table together.
