# BirdOS kernel: TLA+ models, checks and proofs

BirdOS (`src/`) is a RISC-V teaching kernel derived from xv6, extended with an
O(1) multi-level run queue, copy-on-write and lazily allocated memory, per-CPU
page lists, a hashed buffer cache, mmap, shared memory, message queues,
semaphores, kernel threads, alarms, symbolic links and a UDP stack.  This
directory holds TLA+ modules translated from its C code, TLC configurations that
check them on small instances, and TLAPS proofs about the most important ones.

## The system

| Part | Code | State | Operations | What makes it hard |
|---|---|---|---|---|
| Run queue | `proc/sched_o1.c`, `setPriority` | 21 linked lists, bitmap, per-process links, priorities and times | enqueue, remove, pick, tick, setPriority | lists rearranged while walked; priority stored under another lock |
| Scheduler | `proc/proc.c` | process states, `p->lock`, per-hart context | scheduler, sched, yield, sleep, wakeup, kill | lock handed across `swtch`; lost wakeups |
| Process life cycle | `proc/proc.c` | process table, parents, exit status | fork, exit, wait, reparent, clone, join | parent-then-child locking, orphans, missed wakeups |
| Locks | `lock/*.c` | owner hart, interrupt nesting | acquire, release, push_off, pop_off, acquiresleep, releasesleep | interrupts, blocking with locks held |
| Log | `filesystem/log.c` | log header in memory and on disk, outstanding calls | begin_op, log_write, end_op, commit, recovery | crash between any two disk writes; group commit |
| Buffer cache | `filesystem/bio.c` | hash buckets of buffers, reference counts, timestamps | bget, bread, brelse, bpin, bunpin | one copy per block while buffers migrate between buckets |
| File system | `filesystem/fs.c`, `sysfile.c` | inodes, directories, bitmap | ialloc, iget, iput, itrunc, bmap, link, unlink, create | reference counts against link counts; partial failure |
| Files and pipes | `filesystem/file.c`, `proc/pipe.c` | file table, pipe ring | filealloc, fileclose, piperead, pipewrite | last close races; blocked readers and writers |
| Page allocator, COW | `mm/kalloc.c`, `mm/vm.c` | free lists per hart, page reference counts, page tables | kalloc, kfree, uvmcopy, cowalloc | stealing across harts; sharing and freeing pages |
| exec | `proc/exec.c`, `sysfile.c` | page tables, trapframes, arguments | sys_exec, exec, allocproc, freeproc | any allocation can fail, half way through a page table |
| mmap | `sysfile.c`, `interrupt/trap.c` | VMAs | mmap, munmap, page fault | partial unmap, write back |
| Semaphores | `sysproc.c` | counter, allocation flag | create, free, P, V | wake-ups without re-check |
| Message queues, shared memory | `proc/messagequeue.c`, `mm/sharemem.c` | keyed tables with reference counts | msgget, msgsnd, msgrcv, shmgetat, release | reference counts across fork and exit |
| Traps, alarms | `interrupt/trap.c` | trapframes, alarm counters | usertrap, kerneltrap, sigalarm, sigreturn | re-entrance; state saved and restored |
| Devices | `driver/*.c` | rings of descriptors and characters | virtio_disk_rw, virtio_disk_intr, consoleread, uartputc | interrupts against blocked threads |
| Image of the disk | `mkfs/mkfs.c` | inodes, blocks, bitmap | ialloc, iappend | the kernel believes what it finds |
| User programs | `user/program/sh.c`, `umalloc.c` | processes, descriptors and pipes of a command line; a ring of free blocks | parsecmd, runcmd; malloc, free | one end of a pipe that stays open; merging of blocks |
| Network | `network/*.c`, `sysnet.c` | e1000 rings, socket list | e1000_transmit, e1000_recv, sockread, sockclose | ring limits; packets for closing sockets |

How the parts interact: every system call runs in the kernel thread of its
process, and blocks in `sleep()` on a channel until an interrupt handler or
another process calls `wakeup()`.  File system calls are transactions of the log,
which pins buffers of the buffer cache, which asks the disk driver for blocks.
User memory comes from the page allocator, as do pipes, sockets and packet
buffers.  `exit()` goes through nearly all of this.

## Modules

One module per part; abstract specifications have modules of their own.

| Module | Models | State and actions |
|---|---|---|
| `RunQueue` | `proc/sched_o1.c`, `setPriority`, callers in `proc.c` | `rq` is the record of the C arrays (`head`, `tail`, `bitmap`) and of the links in `struct proc`; one action per section of `runq_lock`, one per node for the loop of `sched_tick` |
| `RunqSpec`, `RunQueueRefinement` | the queue's promise | first-in first-out levels; the lists, read along `next`, are its queues |
| `Ctz` | `ctz64` | the de Bruijn table against the lowest bit, as an assumption TLC evaluates |
| `Scheduler` | `scheduler`, `sched`, `yield`, `sleep`, `wakeup`, `kill`; `sleeplock.c`; `consolewrite` with `uartputc` as a caller of `sleep` with two locks | `plock`, `spc` (what a hart's scheduler does), `pc` (where a thread is); a step is the code between two lock operations |
| `ProcLife` | `fork`, `exit`, `reparent`, `wait`, `kill` | process table with `state`, `parent`, `plock`; `idx` is the scan of the table, one slot per step |
| `Log`, `LogSpec` | `filesystem/log.c` | `disk`, `logd`, `head` survive a crash, the rest does not; one disk write per step |
| `Bcache` | `filesystem/bio.c` | `bucket`, `blockno`, `refcnt`, `timestamp` per buffer, `blk` bucket locks; `logged` the blocks of the log, which pin buffers; `pins` and `short` tell calls of `bunpin()` that had a `bpin()` from those that had none |
| `Blocks` | `balloc`, `bfree`, `bmap`, `itrunc`, growing `writei` | `bitmap`, `addrs`, pointers in indirect blocks; one step per block allocated or freed |
| `Files` | inode cache, directories, path lookup, `open`, `close`, `creat`, `mkdir`, `link`, `unlink` | an inode on `disk` and in `mem`, `ref`, `valid`, `lock`; `ent` directory entries; a step is what happens under one lock |
| `FileIO` | `fileread`, `filewrite`, `readi`, `writei`, `chmod` | `off` and `size` of a file that processes share, `mine` the bytes a call has dealt with; one transaction per step |
| `Descriptors` | `filesystem/file.c`, descriptors in `sysfile.c`, `pipealloc`, `fork`, `exit` | `ref`, `type` and `obj` of the file table, `ofile` and `vma` of processes; a step is a section of `ftable.lock`, and `todo` what a call has still to do |
| `Mmap` | `mmap`, `munmap`, `mmap_handler`, `argaddr`, mappings in `fork`, `exit` and under `sbrk` | `vma`, contents `mem` and write permissions `pw` of pages, `off` and `ref` of the file; a system call or a fault is a step |
| `Mkfs` | `mkfs/mkfs.c` | inodes, indirect blocks, directory; one step per file begun, block appended and at the end |
| `Kalloc` | `mm/kalloc.c` | `freelist` and `klock` per hart, `cnt` against the ghost `refs` |
| `Cow`, `PrivateMemory` | `uvmcopy`, `cowalloc`, `copyout`, faults, `sbrk`, exit | page tables `pt`, counts `cnt`, contents `mem`; every read and update of a count is a step |
| `Image` | page tables of `vm.c`, `allocproc`, `freeproc`, `fork`, `exec`, `sys_exec` | page tables with their own pages (`pt`), counts, trapframes; one `kalloc()`, which may fail, per step |
| `Malloc` | `user/program/umalloc.c` | headers `hdr`, `freep`, `brk` |
| `Semaphore` | `sem_*` of `sysproc.c` | `resource_count`, `semlock`, `plock`; `stale` and `extra` follow processes that were past `P` when the semaphore was freed or created |
| `Pipe`, `Fifo` | `proc/pipe.c` | ring `data` with counters modulo `UINT` |
| `Console`, `Tty` | `consoleintr`, `consoleread` | ring with the indices `r`, `w`, `e` |
| `Uart` (and `Fifo`) | `consolewrite`, `uartputc`, `uartstart`, `uartintr` | ring `tx`, transmit register `thr`, its interrupt |
| `Interrupts` | `usertrap`, `usertrapret`, `kerneltrap`, `trampoline.S`, `kernelvec.S`, `push_off`, `pop_off`, `sched` | the registers of harts that traps read and write, `noff`, `intena`; a place is a thread and a label; a trap may come at every step with interrupts on |
| `Alarm` | `sigalarm`, `sigreturn`, the timer branch of `usertrap` | the two trapframes and the three counters |
| `Shell` | `user/program/sh.c` | the parser as functions on tokens; `proc` maps pids to what they run, their descriptors and parent |
| `Virtio` | `driver/virtio_disk.c` | descriptors, rings, and the device as actions of its own |
| `Net` | `e1000.c`, `net.c`, `sysnet.c` | rings, sockets and their queues, the card as actions of its own |

`MCRunQueue` adds symmetry to one module. `MCProcLife`, `MCMemory`, `MCIpc`,
`MCDevices` and `MCFiles` put several parts that share no state into one run: a
behaviour chooses one part in its first state (`focus`) and the others stay where
they are. The numbers of states add up, so this checks what separate runs would
check. To keep them small, registers, locals and fields that are written before they
are read again have their first values in `Interrupts`, `Image` and `Descriptors`. Where one part uses another (the log its buffers, `Cow` the allocator, the
file system its transactions), the user is checked against the user's view of it: any
free page, an atomic transaction. Two of these views are checked as such. `FileIO`
shows when a transaction of `filewrite()` logs no more than the `MAXOPBLOCKS` blocks that
`Log` allows a call: when it allocates from at most two blocks of the bitmap
(`TransactionFits`). And `FileIO` takes from `Blocks` where a block of a file hangs.

Where the code can panic, deadlock or break a promise, the models do too. No guard keeps
such a case out: the property says when it happens and that nothing else goes wrong, and
the section on findings lists it.

`RunQueueProofs`, `SchedulerProofs`, `ProcLifeProofs`, `LogProofs`, `BcacheProofs`,
`KallocProofs` and `CowProofs` with `CowRefinement` hold the theorems about the modules
they are named after.

Operators named `Bug...` are mutated forms of the definition that follows them.
Every property has at least one, and one that joins the properties of several
parts has one for each part.  Replacing the definition by its mutated form makes
TLC report that property; nothing else uses them.

## What the runs check

| Run | Instance | Shows |
|---|---|---|
| `runqueue` | 3 processes, 2 harts, 2 levels, a priority out of range, times capped at 1 | lists, bitmap and flags agree (`ListOK`), a process is filed where its priority says (`BucketFresh`), a process is queued, picked or running in one place (`StatesAgree`), the tick never follows a stale pointer (`TickHasNode`), and all this implements FIFO levels (`ImplementsRunqSpec`) |
| `log` | log of 4 blocks, 2 callers that log 2 blocks, all that is reserved for them, on 2 blocks with 2 crashes | atomic transactions (`ImplementsLogSpec`), `DurableWhenIdle`; `log_write()` and `end_op()` panic only when the calls in progress use all that was reserved for them (`LogFits`); and `SleeperWoken` under fairness |
| `proclife` | init and 3 slots, of which 2 may be killed; command lines of 4 tokens parsed and 5 longer ones run | `ParentAlive`, `NoLostExit`, `FreedSlotIsQuiet`; processes that exit and wait block each other only through a stale copy of `p->parent` (`OnlyStaleParentBlocks`), which four slots are enough for; the shell parses its grammar, and each command of a line gets its own descriptors and the end of file of its pipe (`ShellRuns`) |
| `memory` | memory: 3 processes, 2 virtual and 2 physical pages; 2 slots with page tables of fan-out 2 and 3 pages; a heap of 11 units | counts are exact over page tables and through failing `fork()` and `exec()` (`CountsExact`); `WritableIsPrivate`, and that sharing is invisible (`ImplementsPrivateMemory`); a process has an old or a new image and nothing between (`ImagesWhole`); `HeapExact` |
| `ipc` | 3 processes, 2 harts, 1 sleep lock, 1 console; semaphore of 2 with 4 processes of which 2 may be killed, pipe of 2 bytes, console of 3 characters, serial ring of 4; 2 threads on 2 harts; alarms every 1 or 2 ticks | no two harts on one kernel stack (`StackExclusive`), `SleepLockMutex`, `NoLostWakeup`, and `p->lock` alone held at a switch, the panic of `sched()` being reached from `uartputc()` only (`SchedHoldsOneLock`); counts of the semaphore, also when it is freed in use, and the page of the pipe (`ResourcesExact`), nobody asleep who could go on, but for the cases it names, and no character left in the serial ring (`NobodyForgotten`), the three rings as queues (`ImplementsQueues`), and traps, page faults and alarms that leave no trace but `a0` (`TrapsReturn`) |
| `devices` | 3 processes, 2 buffers in 2 buckets, 3 blocks, at most 1 of them in the log at boot; 7 descriptors; receive ring of 3, 2 sockets; 2 files on 7 blocks; 1 file on 12 blocks; images of the root directory and 3 files | `OneCopy`, `ReadsItsBlock`; `ReleasedByDevice`; packets in order and at their readers (`PacketsDelivered`); references to buffers, descriptors and packet buffers (`ResourcesAccounted`); `BlocksExact`, which also says that a file has no holes and that the image of `mkfs` is consistent if no file needs doubly indirect blocks, and is not otherwise |
| `files` | allocator: 3 harts, 2 pages, 2 references; 2 processes, 4 calls, 3 inodes, 3 paths; table of 3 files, 2 descriptors; 2 processes writing 1 or 7 bytes to a file of up to 42; 2 mappings of up to 2 pages, with every length, positive or negative, and `sbrk()` for one process; a log of 4 blocks for calls of 2 blocks | a page is in one place (`OnePlace`); references to pages, inodes, open files and pipes (`RefsExact`), `NlinkExact`, `NeverFreedInUse`, `CacheCoherent`, `LocksMove`; writers through one `f->off` keep each other's bytes; transactions fit into the log unless they need more than two of 13 bitmap blocks, and the log has room for them until all reservations are used; mappings are disjoint and counted (`DataInPlace`) |

Five runs show that the code does not do what it, or its documentation, says:

- `runqueue_starvation`: `runq_dyn` adds waiting time to a number of which the
  lowest is served, so that a waiting process moves away from the CPU.  With two
  processes on one hart one of them is never run, under fair scheduling of the
  hart's loop and the timer.
- `log_recover`: recovery calls `bunpin()` on blocks nobody pinned; a later call's
  block can leave the cache before it is committed.  `SpecRecycle` lets the cache
  recycle buffers whose count is 0, which `Spec` (the `log` run) does not need.
- `bcache_deadlock`: two misses in `bget()` wait for each other's bucket.
- `disk_interrupt`: a completion between the handler's last look at the ring and
  its acknowledgement is forgotten.
- `mmap_order`: after `munmap()` of the first page of a mapping, `mmap_handler()`
  measures from the new beginning, and a page that is touched later gets the
  contents of an earlier page of the file.

### Bounds

Every bound is a constant of a module.  The sizes are the smallest at which the
difficult cases occur: two actors that race and a third one that observes them; a
ring or table that is full, empty and wraps around; a counter that overflows at
a multiple of the ring size, as 2^32 is of the real sizes (`UINT`, `UINT16`,
`CONS_UINT`); a path of two names, so that a directory can be removed while it is
walked; blocks enough for the doubly indirect block; a write of one byte more than a
transaction takes (`Count`); a page table with two entries at each of its three
levels.  `MAXTIME`, `MAXTICKS`, `MAXREF`, `MAXIREF`, `MAXCRASH`, `MAXCALLS`, `MAXTRUNC`,
`MAXN`, `MAXLOCKS`, `MAXLATE`, `MAXSZ`, `MAXDROP`, `MAXSHORT`, `MAXINODE`, `HEAPMAX`,
`NVA`, `Length`, `Brk` cap what would otherwise grow for ever; `sbrk()` in `Image` also
stops at `MAXSZ`, where the kernel has no limit.  No property needs a bound to
hold: calls log as much as `begin_op()` reserves (`OPBLOCKS = MAXOPBLOCKS`), the bitmap has
the thirteen blocks that `mkfs` gives it (`NBITMAP`), and there are slots enough for one to
be reused while an old pointer to it is left (`NPROC = 4` in `proclife`).  Symmetry is used for sets of model values in runs that check safety
only; runs with liveness have none.

### Fairness

- `RunQueue`: ticks keep coming, and a hart's scheduler, `yield()` and the second
  half of `setPriority` get on although ticks hold `runq_lock` for a while (strong
  fairness).
- `Log`: a call in progress goes on (weak fairness); power need not fail.
- `Virtio`: the device fetches and completes what it was given, the handler runs
  when its interrupt is pending, and a process that is woken gets `vdisk_lock` in
  the end.

Nothing makes a user process start a system call.  `ProcLife` needs no fairness: that
nobody blocks in `exit()` or `wait()` is an invariant, the absence of a circle of
processes that spin for each other's locks.

## What is proved

The theorems hold for every value of the constants that the named assumptions allow,
and TLAPS checks them to the last leaf. The assumptions are `RunqConstants`,
`SchedConstants`, `KallocConstants`, `LifeConstants` and `BcacheConstants` in the
modules, and `LogConstants` and `CowConstants`, which are definitions that
`LogAssumption` and `CowAssumption` assume, so that the lemmas can have them as
hypotheses. They say that sets of processes are finite, that `NULL` is none of the
values, and how the sizes of tables relate (`MAXOPBLOCKS` blocks reserved for a call
that logs at most as many, `LOGSIZE` blocks of log, the header included).

Every proof has the same shape: an inductive invariant `IInv`, which TLC checked on
the instances of the runs first, a lemma per action, and the theorems as corollaries.
Most of the lemmas state it under a second name (`Inv == IInv`): what a leaf expands is
expanded in every lemma it can see, and so stays folded there.

- `RunQueueSafe` (`RunQueueProofs`): `TypeOK`, `ListOK`, `RunnableAccounted`,
  `RunsOnOneHart` and `TickHasNode` are invariants of `RunQueue`'s `Spec`.  Together
  they are nearly inductive: `ListOK` is stated link by link, without following a
  list, so that each pointer operation can be checked where it happens.  Missing is
  only `PickerIdle`, that a hart whose scheduler has picked a process runs none.
  `EnqueueOK` and `RemoveOK` say what the two pointer operations do to a well-formed
  list, `RefileOK` what a change of `dyn_priority` off the queue does, and each
  action then is a case of `NextIInv`.  `StatesSafe` and `TickSafe` state two of
  these as the `runqueue` run does.
- `BucketSafe` (`RunQueueProofs`): `BucketFresh`.  That the walk of `sched_tick()` misses
  no node is a statement about what lies before and behind the node it has reached, and
  the links alone do not say it.  The invariant `FInv` therefore says that there is an
  order of the processes (`pos`) that the `next` pointers follow and in which everything
  of the lists already walked, and everything before the current node, is fresh.
  A node that is refiled during the walk goes to the tail of its list, after all
  others: either the walk comes to it again, or it has been filed correctly.
- `SchedulerSafe` (`SchedulerProofs`): `StackExclusive`, `RunnableAccounted`,
  `SchedHoldsOneLock`, `SleepLockMutex` and `NoLostWakeup`.  The inductive invariant ties together
  who holds `p->lock`, where the thread is and what the scheduler of its hart is
  doing: `p->lock` is taken on one side of `swtch` and released on the other, so
  no property of one side alone is preserved.  `SchedHoldsOneLock` includes when `sched()`
  panics: `cons.lock` is held by a thread that writes or by one that has panicked, so
  the one caller that comes to `sched()` with it never gets past the check.  One lemma
  per action.  `StackSafe`,
  `SwitchSafe` and `SleepLockSafe` state them one by one.
- `ParentSafe`, `ExitSafe` and `FreedSafe` (`ProcLifeProofs`): `ParentAlive`,
  `NoLostExit` and `FreedSlotIsQuiet`.  `exit()` copies `p->parent`, unlocks, and locks
  that copy, so that the lock it holds may not be its parent's any more.  `OrigOK`
  says what is left: the copy is the parent, or the parent is now init.  `KidsOK`
  says of `reparent()` that the children still to be given away are in slots ahead of
  its loop, and `ScanOK` says of `wait()` that it has passed no child that it could
  reap, except one that came by `reparent()`, for which `reparent()` wakes init.
- `FitsSafe` and `DurableSafe` (`LogProofs`): `LogFits` and `DurableWhenIdle`.  `SpaceOK`
  counts, as the cardinality of a set of pairs, the blocks that the calls in progress
  may still log: with those in `lh` they fit into the header.  The log area is a block
  shorter, and `LogFits` says that it overflows only when calls log all of `MAXOPBLOCKS`
  and no room is left; `PanicOK` adds what is true in that last state.  `HeadOK` says when the header on disk is not empty,
  and `DataOK` what `write_log()` and `install_trans()` have copied.
- `LogImplements` (`LogProofs`): `Log` implements `LogSpec`.  The disk of `LogSpec` is what
  recovery would make of the disk now (`Recovered`); the write of the header is the
  one step that changes it, and a crash before or after any other write changes
  nothing.
- `BcacheSafe` and `ReadSafe` (`BcacheProofs`): `OneCopy`, `RefcntExact` and `ReadsItsBlock`,
  with a log that pins and unpins buffers.  Counts are exact, and reads right, in all
  buffers that were not unpinned without a pin; `crashed` and `PairOK` give that there are
  none on a machine whose log was empty at boot.
  What `bget()` needs while it looks for a buffer in other buckets, holding the lock
  of its own and, one by one, of theirs, is `StealOK`: nobody else can have cached the
  block, since that takes the lock it holds.
- `KallocSafe` (`KallocProofs`): `TypeOK`, `OnePlace` and `CountExact`, which
  are inductive together.  `TakeInv` is the step that matters: a page taken from
  any list, one's own or another hart's, was on that list only.  The locks are not
  needed for it, since a list is changed in one step; they are what makes that
  grain of atomicity true.
- `CountsSafe` and `PrivateSafe` (`CowRefinement`, on the lemmas of `CowProofs`): `CountExact` and `WritableIsPrivate`.
  References to a page are a set (`Refs`): page table entries, except the one that
  `uvmcopy()` has made and not counted yet, and the page that `cowalloc()` has in `mem`
  or is about to drop.  Then a step of `kalloc()`, `kfree()` or `kaddrefcnt()` adds or
  removes one element (`AddRef`, `DropRef`, `SwapRef`), and a count of 1 means that
  there is no other (`LastRef`).  This is why `cowalloc()` may act on a count it
  read without the lock: the one reference is the process's own, and nobody else can
  make another from it (`OwnSole`).
- `CowImplements` (`CowRefinement`): `Cow` implements `PrivateMemory`, memory that each process
  has to itself and that `fork()` copies in one step.  The step is the return from
  `fork()`: until then the child does not run, and `Copied` says that it has what the
  parent had, since the parent cannot write either.

Only model-checked: liveness (`SleeperWoken` and the violations), which is out of the
prover's reach; `OnlyStaleParentBlocks`, which is about every set of processes; that `RunQueue` implements `RunqSpec`, whose mapping
follows the `next` pointers to their end, which needs induction over data; and the
invariants of the modules that have no proof module: those of `ipc` and `files` other
than `Scheduler`, `Kalloc` and `Log`, of `Image`, `Malloc` and `Shell`, of `Virtio`,
`Net` and `Blocks`.  `Console`, `Malloc`, `Shell` and `Mkfs`
have recursive operators, which the prover does not take.  `CountsExact`,
`WritableIsPrivate` and the others that a run checks of several components at once are
proved for the component named above.  `TypeOK` of every module and
`RunnableAccounted` of `Scheduler` are only proved: no run repeats them.

## Findings without a run

Checking the models also showed the following.  They are in the models, and
explain the exceptions some properties make and the runs that do not check for
deadlock.

Locks and sleeping:

- Two harts with empty page lists that steal from each other deadlock
  (`kalloc.c:117`); `freebytes()` reads a list's head before its lock (`:143`).
- `exit()` copies `p->parent` and lets go of `p->lock` before it locks the copy
  (`proc.c:494`).  The comment at `proc.c:481` says that a race with an exiting parent
  gives "a harmless spurious wakeup to a dead or wrong process".  It does not: when the
  slot has been given to a process below, the two exits wait for each other's locks for
  ever.  `OnlyStaleParentBlocks` shows that every such circle has a stale copy in it.
  Also, init can miss a child that was a ZOMBIE when it inherited it.
- `uartputc()` on a full ring sleeps with `cons.lock` held (`uart.c:99`), and `sched()`
  panics ("sched locks"); its comment says "blocks if the output buffer is full"
  (`uart.c:81`).
- `P` and `V` take `p->lock` and the semaphore's lock in opposite orders
  (`sysproc.c:315`, `:348`) and deadlock, where `进程管理.md:590` says of the lock that it
  avoids deadlock ("避免了死锁的发生").  A process killed in `P` returns as if it had the
  resource, and its resource is lost; one `V` lets all sleepers in.  `sem_free()` does not
  look whether the semaphore is in use, nor `P` whether it is allocated: old users of a
  semaphore that is created again add resources to it.
- A pipe's killed writer wakes nobody (`pipe.c:88`).

Limits:

- `bget()` panics for lack of buffers when one is freed behind its scan (`bio.c:153`).
- The log area has a block less than the header lists (`mkfs.c:31`, `nlog = LOGSIZE`), so
  three calls that log all of their `MAXOPBLOCKS` blocks panic ("too big a transaction").
  `log_write()` looks at the length of the log before it takes `log.lock`
  (`log.c:218`): when two calls pass the check together, the last block goes to a place
  behind the log area instead.
- After a recovery that installed a block, the count of its buffer is 2^32 - 1
  (`log.c:78`).  The run `log_recover` shows what that does to a transaction; in `Bcache`
  it also gives the locked buffer of a process to another block (`ReadsItsBlock`).
- `filewrite()` computes the size of its transactions "to avoid exceeding the maximum log
  transaction size" (`file.c:159`) for one indirect block.  A write from the indirect into
  the doubly indirect blocks logs the inode, four data blocks and three indirect blocks;
  with up to two blocks of the bitmap this fits into `MAXOPBLOCKS`, with three (a badly
  fragmented disk; there are thirteen) it does not.
- `mkfs` lets files of `MAXFILE` blocks pass (`mkfs.c:307`) but has no doubly indirect
  blocks: the first block after the indirect one is looked up behind the end of
  `indirect[]` (`mkfs.c:327`).  It also gives a root directory that fills its blocks
  exactly one block more than it has (`mkfs.c:196`).
- `e1000_transmit()` refuses a packet when the ring is full (`e1000.c:100`), which it
  tells by the DD bit of the next descriptor.  Nobody clears that bit, so the ring never
  counts as full, and a packet that has not been sent yet is freed and overwritten.

Failures half way:

- `writei()` returns the number of bytes it was asked to write, also when copying them
  fails (`fs.c:565`): `f->off` is then beyond the end of the file, and every later write
  through it fails.
- When the second page of `allocproc()` cannot be allocated, the first is lost
  (`proc.c:158`).
- `e1000_recv()` uses a null buffer when memory is short (`e1000.c:142`); the error
  path of `sockalloc()` frees the socket twice (`sysnet.c:75`).
- `create()` and `link()` can add an entry to a directory that has just been
  removed; the inode is lost (`sysfile.c:291`).  `NlinkExact` counts these.
- When the second fork of a pipeline fails, the shell prompts while the left command
  goes on (`sh.c:119`); of two redirections the first one wins.

Memory mapped files and alarms:

- `munmap()` and `exit()` write pages back at `f->off`, not at the place of the mapping
  (`sysfile.c:643`), and `argaddr()` maps a zero page where a page of the file should
  be (`syscall.c:74`), which `munmap()` of an untouched page then writes back.
- Nothing refuses `mmap()` of length 0, which takes an entry and a reference and maps
  nothing; `munmap()` of a negative length, which makes the mapping larger, over its
  neighbours or beyond `p->sz` (`sysfile.c:619`); or `sbrk()` below a mapping, which takes
  its pages away and leaves its entry (`sysproc.c:78`).  `MappingsExact` leaves out the
  processes that made the last two calls.
- A store to a page of a mapping without `PROT_WRITE` that is in memory already is
  handled like a page that is missing, and `mappages()` panics ("remap", `vm.c:165`).
- `syscall()` stores the result of `sigreturn()` into `a0` of the frame that it has just
  restored (`syscall.c:282`), although `user/test/alarmtest.c:75` expects "all registers
  holding the same values they held"; `exec()` keeps the alarm of the old program.

## What is not modelled

`PROJECT.json` lists every part with its status.  Not modelled, because there is no
working behaviour to state properties of: message queues and shared memory; threads
(`clone()` leaves `parent` null, which `exit()` follows); `execve()` with a bad argument,
which frees a string on the stack (`sysproc.c:217`); `dup_new()`, which
closes a descriptor and leaves the closed file in it (`sysfile.c:887`); `chmod()`, `geti()`
and `recoveri()` as users of inodes, whose references they keep.  Not modelled,
because nothing in them can go wrong that the models tell apart: boot, registers of
interrupt controllers, formatting, shared variables, `sys_sleep()`, the other user
programs.  Left for later: symbolic links, the current directory and `..`.  Weak memory
is not modelled: every access to shared state outside locks is one atomic step, where
the C code has fences at lock operations only.

## Plan

1. Symbolic links, the current directory and `..` in `Files`, with the lock order
   of a walk upwards; the calls that keep a reference to an inode (`chmod`, `geti`).
2. `Mmap` over the page tables of `Cow`, so that private mappings and copy-on-write
   meet; `Log` under `Files`, with crashes in the middle of `unlink`.
3. Proofs: `Pipe` as a `Fifo`, the descriptors of `Virtio`, `Descriptors`' counts, the
   disjoint bytes of `FileIO`, and that `slot` of `Blocks` is injective.
