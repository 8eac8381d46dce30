# A formal model of the modified xv6 system

TLA+ modules, TLC models and TLAPS proofs for the code under `src/`: an xv6 for
RISC-V to which five compile-time schedulers, `sigalarm`/`sigreturn`, `trace`,
`set_priority`, `settickets` and `waitx` were added, its kernel and its shell.
Source lines are given as `file.c:line`; definitions carry the names of the C
functions they model where they stand for a whole function, and `PROJECT.json` maps
every one of them to its lines.

## The system

| Part | State | Operations | Works with | Hard behaviour |
|---|---|---|---|---|
| Log (`log.c`) | on-disk header and blocks; `log.lh`, `outstanding`, `committing` | `begin_op`, `log_write`, `end_op`, `commit`, `recover_from_log` | buffer cache, disk, every file system call | group commit without a lock, power failure at any disk write, sleepers |
| Processes (`proc.c`) | process table, `p->lock`s, `wait_lock`, `c->proc` | `fork`, `exit`, `wait`, `kill`, `sleep`, `wakeup`, `yield`, `sched`, `scheduler` | traps, every sleeper | locks handed over across `swtch`, lost wakeups, orphans |
| Pipes (`pipe.c`) | ring buffer, `nread`, `nwrite`, two open flags | `pipewrite`, `piperead`, `pipeclose` | file table, `sleep`/`wakeup`, `kill` | two channels, many readers and writers, counter wrap |
| Memory (`kalloc.c`, `vm.c`, `exec.c`, part of `proc.c`) | free list, page tables, sizes, trapframes | `kalloc`, `kfree`, `uvm*`, `allocproc`, `freeproc`, `growproc`, `exec` | processes | an allocation may fail anywhere, cleaning up half-built tables |
| Alarms (`trap.c`, `sysproc.c`, `proc.c`) | `tickss`, `now_ticks`, `is_sigalarm`, `trapframe_copy` | `usertrap` on a tick, `sys_sigalarm`, `sys_sigreturn` | system call return | interrupted program resumed exactly, no second entry |
| Other schedulers, times (`proc.c`, `trap.c`) | five MLFQ queues, tickets, priorities, times | MLFQ, FCFS, PBS and LBS in `scheduler`, `updateTime`, `setPriority`, `waitx` | processes | shared queues without a lock, ties, fairness |
| Buffer cache, sleep locks (`bio.c`, `sleeplock.c`) | LRU list, `refcnt`, `valid`, owner | `bget`, `bread`, `bwrite`, `brelse`, `bpin` | log, disk driver | one buffer per block, recycling |
| Disk driver (`virtio_disk.c`) | descriptors, rings, `b->disk` | `virtio_disk_rw`, `virtio_disk_intr` | buffer cache, device | completions in any order, descriptors running out |
| Files and inodes (`file.c`, `fs.c`, `sysfile.c`) | reference counts, inode table, bitmap, directories | `open`, `close`, `dup`, `link`, `unlink`, `create`, `iput`, ... | log, pipes, processes | last reference, lock order, truncation at the last `iput` |
| Console, uart (`console.c`, `uart.c`) | input line, output ring | `consoleintr`, `consoleread`, `uartputc`, `uartintr` | `sleep`/`wakeup` | full buffers, erasing |
| Spin locks (`spinlock.c`) | `locked`, `noff`, `intena` | `acquire`, `release`, `push_off`, `pop_off` | everything | interrupt state nesting |
| Shell (`user/sh.c`) | command tree, descriptors and children of each process | the parser, `runcmd`, `main` | `fork`, `wait`, `pipe`, `dup`, `exec` | pointers into the line, ends of pipes left open, failing `fork` |

The rest is assembly and privileged registers (`trampoline.S`, `swtch.S`,
`start.c`), straight-line boot code, byte copying, printing and single-threaded
user programs. `PROJECT.json` lists every part with its status, and the hazards
of the code, each at its line, with the properties that would catch it.

How the parts fit together: the shell and other programs call the file system
(`FS`), whose calls are transactions of the log (`Log`). `FS` uses the abstract log
`AtomicLog`, which `Log` implements; `Log` reads and writes blocks through the cache,
of which it needs what `BlockStore` promises and `Bcache` over `VirtioDisk`
implements. All of them sleep and wake up as `Proc` does, with memory from
`UserMem`, under a scheduler of `Proc`, `Sched` or `Mlfq`.

## Modules

| Module | What it is |
|---|---|
| `AtomicLog` | what the log promises: calls change a view, the view becomes durable in one step, a power failure falls back to what is durable |
| `Log` | `log.c` with the buffers and the disk it works on |
| `LogCallProofs`, `LogCommitProofs` | one lemma per action of `Log`: it preserves `LogInv` |
| `LogProofs` | theorems about `Log` |
| `Proc` | the life of processes under the round-robin scheduler |
| `Sched` | the FCFS, PBS and LBS builds of the scheduler and time accounting |
| `Mlfq` | the MLFQ build of the scheduler |
| `BoundedQueue` | what a pipe promises: a first-in first-out queue of bounded length that is closed for good |
| `Pipe` | `pipe.c` |
| `Alarm` | `sigalarm`, `sigreturn` and the timer tick, as a program sees them |
| `UserMem` | who holds which pages: `kalloc.c`, `vm.c`, `exec.c` and the memory side of `proc.c` |
| `BlockStore` | what the cache and the driver promise: blocks with one value and one user each |
| `VirtioDisk` | `virtio_disk.c` and the device |
| `Bcache` | `bio.c` and `sleeplock.c` over `VirtioDisk`, used as `log.c` uses them |
| `Inode` | `fs.c` below path names, as operators |
| `FS` | the file system calls: the rest of `fs.c`, `file.c` and `sysfile.c` |
| `LineBuffer` | what a terminal promises its readers |
| `Console` | `console.c` and `uart.c` |
| `ShellParse` | the parser of `sh.c`, and what a command line means |
| `Shell` | the processes that run a command line |
| `MCLog`, `MCProc`, `MCSched`, `MCMlfq`, `MCPipe`, `MCAlarm`, `MCUserMem`, `MCBcache`, `MCFS`, `MCConsole`, `MCShell` | the instances TLC checks |

Operators whose comment begins with "Fault:" are wrong variants of the operator
that follows them, one for each property: with the fault in its place TLC finds
the property violated. They are part of no specification.

### Log

`disk`, `logblk` and `hdr` survive a power failure; `cache`, `pinned`, `lh`,
`outstanding`, `committing` do not. A process makes calls: `Call`, `begin_op`
(which sleeps while a commit runs or the log might fill up), then for each block
`Modify` (`bread` and the change), `log_write`, `brelse`, and `end_op`, whose last
caller commits. `commit` runs outside `log.lock` as in the code, one disk write
per step: `write_log` for each entry, `write_head` (the commit point),
`install_trans` for each entry, `EraseHead`, and `CommitDone` for the end of
`end_op`. `Crash` may happen at any step, also during recovery; a block write in
flight leaves `Torn`, because a block is two sectors, while the header fits one.
Recovery is `read_head`, `RecoverInstall`, `RecoverInstalled`, `RecoverClear`.
`Fill` and `Recycle` are the buffer cache bringing blocks in and dropping unpinned
ones. A call writes up to `OpBlocks` blocks, fewer than the `MAXOPBLOCKS` it reserves,
as every call of this kernel does: `begin_op` takes the header's block for room as well,
so that a log filled to the last reserved block would make `log_write` panic.

`AtomicSpec` is the refinement. The durable state is what recovery would make of
the disk now (`Recovered`), the view is what `bread` returns (`Visible`). Only
`write_head` changes the first, in one step, to the second.

### Proc

A step ends where another CPU can act: at an `acquire` that is not released in the
same step and at `swtch`. A lock is owned by a CPU, so the hand-over of `p->lock`
(taken by a process, released by the scheduler, and the reverse) is visible.
`susp` says where `swtch` resumes a thread: in `forkret`, `yield`, `sleep`, or
never (`zombie`). `wait` scans the table slot by slot (`ScanNext`, `Reap`,
`ReapFails`, `ScanDone`), `exit` and `reparent` call `wakeup`, itself a loop.
The channel is the process itself, as in `wait`; other sleepers appear in the
modules of the objects they sleep on.

A process that waits for a lock may be preempted in the model, which in the code it
is not, since `acquire` turns interrupts off. This only adds behaviours. `Init` chooses
one of `Machines`, the sets of CPUs that are on. The safety properties are about all of
them. The two liveness properties are about one CPU (`OneCpuOnly`), for a reason that is
in the code: `acquire` spins without a turn, so on two CPUs one may find `wait_lock`
taken by the other each time it tries. That no wake-up is lost where `exit` and `wait`
really overlap is therefore `NoZombieUnderSleeper`, on two CPUs.

### Sched and Mlfq

`Sched` has the three builds that scan the table for the best process. A scheduler
takes the locks of the slots one by one (`ScanSlot`; `ScanTickets` for LBS, after
`Begin` has added up the tickets without locks) and keeps that of the best process so
far, runs it (`Switch`) or finds none (`Idle`). On the other CPU processes sleep, wake
up, exit and are reaped, are created, change priorities and tickets, and the clock CPU
runs `clockintr` and `updateTime`, slot by slot. `steady` is a history: the processes
that have been RUNNABLE and unchanged since the scan began. `getrand` is computed as
the code does; its cast to `int` makes every draw 0, so that the lottery goes to the
first process with tickets. `settickets` accepts any `int`: a negative count keeps the
sum down, and processes behind it are overlooked while it is RUNNABLE. `ChoiceInv` and
`WorkConserving` say so (`neg`, `Eligible`). `check_cond_2` of PBS never decides. FCFS
counts `numOfScheduled` of the struct behind the table (`proc.c:878`, where
`newProcess` is past the last slot): what that store overwrites depends on the
linker and is left out.

`Mlfq` has the five arrays with their indexes, which no lock protects, ageing (`Age`),
the five loops (`Pick`, `LoopEnd`) and the stretch after `swtch` (`Back`). It ends where
the code does, with the panic of run `sched_mlfq`. `num_of_ticks` is never incremented,
so demotion never happens.

### Pipe

`Acquire` is the entry to a call or the end of `sleep`; the loops of `pipewrite`
and `piperead` are `WriteCheck`, `WriteSleep`, `WriteByte`, `WriteReturn` and
`ReadCheck`, `ReadSleep`, `ReadByte`, `ReadFails`, `ReadReturn`. `nread` and
`nwrite` wrap at `Wrap` (2^32 in the code), a multiple of `PIPESIZE`. `WriteReturn`
and `ReadFails` cover `copyin` and `copyout` failing. `page` is the page of the pipe:
`Init` has also the outcome of `pipealloc` without memory, and whoever closes the second
end frees it after `release` (`Kfree`). `QueueSpec` is the refinement to `BoundedQueue`.

### Alarm

One process, in a kernel of one of `Builds`: `usertrap` has the alarm code only where RR,
LBS or MLFQ is defined (`trap.c:80`), in the others `sigalarm` arms an alarm that never
goes off. The registers are `a0`, `regs` (all others) and `epc`. `Tick` is
`usertrap` on a timer interrupt, `sys_sigreturn` includes the store of the result
into `a0` by `syscall`. `interrupted` is a history of the registers at each entry
to the handler. The kernel accepts `sigreturn` anywhere; the program of the model
calls it in its handler only. `rearmed` is a history too: the handler has armed the
alarm, which lets it be entered again (`MaxDepth` bounds how often).

### UserMem

Pages are interchangeable, so they are counted: the free list is a length, a page
table is a number of page-table pages and a set of mapped virtual pages. The C
functions are operators on a record that carries the free count, the table being
built and whether an allocation has failed, so that each failure path is the one
of the code. A system call is one step: between its allocations others may
allocate, but that only moves the point where memory runs out, and every point is
explored. `lost` and `refreed` are histories of the two things `freeproc` does
wrong (see Findings). Once a stale pointer was freed the free list holds a page in
use and the model stops (`Defined`), which is why this run does not check deadlock.

### VirtioDisk and Bcache

A transfer takes three descriptors or sleeps for them (`DescSleep`, `Post`), sleeps
until `b->disk` is cleared and frees the chain (`Finish`). The device (`DeviceDone`)
completes posted requests in any order and interrupts; the handler is three steps,
`IntrEnter`, `IntrLoop` for each entry of the used ring and `IntrExit`, because the
device adds entries while it runs. `kill` may wake a process in either sleep of the
driver or in `acquiresleep` (`KillInDriver`, `KillInSleeplock`); each tests its condition
again (`IoSleep`, `DescSleep`, `LockSleep`). The rings are a set and a sequence: `DmaOwned`
bounds them, which is what makes them the same as the arrays.

`Bcache` adds the LRU list, `refcnt`, `valid` and the sleep locks: `BgetHit`,
`BgetMiss`, `LockSleep`, `Acquiresleep`, `BreadDone`, `Bwrite`, `BwriteDone`,
`LogWrite`, `Install`, `Brelse`, `Releasesleep`, `Bunpin`. In the model a process has
one buffer at a time, where `install_trans` and `write_log` have two for a while (the
copying between the two is in `Log`). `Opens` says which blocks a process uses: `bget` panics when every buffer
is in use, and what keeps it from that is that `NBUF` is large, not the code, so the run
stays within the buffers it has. `StoreSpec` is the refinement to `BlockStore`.

### Inode and FS

`Inode` has the functions of `fs.c` as operators on the disk and the inode table;
blocks stand for bytes, a directory has one block. In `FS` a call is a sequence of
steps, each of which begins where the code takes one lock: the walk of `namex`, the two
parts of `iput` (the test, then the truncation without `itable.lock`), the halves of
`create`, `link` and `unlink`, the blocks of a `write`, with their error paths (no
inode, no file, no block, a device number out of range, a fault in the user's buffer).
`disk` is what calls see and `saved` what a power failure leaves: the group commit of
`AtomicLog`, at the last `end_op`. A panic is noted in `panic` and ends the run. Two are
reached: `iget` panics when the inode table is full, and `ilock` meets a freed inode
behind the `..` of a removed directory (see Findings). `NoPanic` shows that there is no
other and no other way to the second, and `FreedUnused` excepts only those who came by it.

### Console

`consoleintr` per character, with the echo (`IntrEcho`, `IntrWrite`) that goes to the
UART without the ring and so races `uartstart`; `consoleread` and `uartputc` with their
sleeps; `Kill`. `LineSpec` is the refinement to `LineBuffer`, which has no indexes and
no ring, together with the rule about `^D`.

### Shell

`ShellParse` has the parser with its pointers: each function returns the tree, the
pointer and whether it called `panic`. `nulterminate` writes its NULs into the line and
the words are read back from there. `Meaning` defines what a line means without
pointers or lookahead, by splitting the tokens at operators outside parentheses. Of
several redirections of one descriptor the first lasts, since the parser wraps later
ones around it and `runcmd` does the outermost first.

In `Shell` a process is named by the place in the command where it was forked. A
program may end at any time, or read its input to the end, or write more than a pipe
holds: then it ends when its input is closed by all writers, or its output is read or
closed by all readers. `fork` and `pipe` may fail.

## What TLC checks

| Run | Instance | Shows |
|---|---|---|
| `log` | 2 processes, 3 blocks, 2 values, a reservation of 2 blocks per call of which it writes 1, a log of 4 | `LogInv` (the inductive invariant), `NoPanic` (`begin_op`'s reservation keeps `log_write` from its panic, in a log that gets as full as it may), refinement `AtomicSpec`, liveness `LogSettles` |
| `proc` | 3 slots, 2 CPUs or 1 | `LockInv` (what `p->lock` kept across `swtch` gives), `NoZombieUnderSleeper` (no wake-up is lost between `exit` and `wait`), `NoOrphan`, `LifeCycle`, no deadlock; on 1 CPU `ZombiesOfInitReaped` and `WaitReturns` |
| `sched` | 3 slots, 2 CPUs, each of FCFS, PBS, LBS, tickets -1, 0 and 2, at most 3 ticks, priority and ticket calls (2 in LBS) | `RunsOnce`, `ChoiceInv` (the process chosen is the best of those that were steady, and an idle scan overlooked none), `TimeInv`, liveness `WorkConserving` |
| `sched_mlfq` | 3 slots, 2 CPUs | violation of `NoPanic`: see Findings |
| `pipe` | 2 writers, 1 reader, 2 byte values, a 2-byte buffer, counters modulo 4, one kill | `SleepersAreBlocked` (with `PageInUse`: the page is not freed under a call), refinement `QueueSpec`, liveness `CallsReturn` |
| `alarm` | an RR and a PBS kernel, intervals 0 to 2, given by program and handler, two entries to the handler | `NotReentrant`, `Resumes`, `NotEarly`, liveness `GoesOff` |
| `usermem` | 3 slots, 22 pages, pages of 2 bytes, programs of up to 4 pages | `Accounting`, `SizeIsMapped`, `FailureCost` (what a failed call may cost: nothing for `exec` and `sbrk`, a trapframe or a slot for `fork`) |
| `disk` | 2 processes that may be killed, 3 blocks in 2 buffers, a queue of 4 or 6 descriptors | `BcacheInv` (exact reference counts, no panic), `DriverInv` (the device only writes buffers that are locked for it, a sleeper has a waker), refinement `StoreSpec`, liveness `SleepersWake` |
| `fs` | 2 processes, 3 calls out of 13 on path names (with `.` and `..`) and those on descriptors, 5 inodes, an inode table of 4, 6 blocks, 1 crash | `CallInv` (no panic but the two above, no circular wait), `RefExact`, `DiskInv` (every block in use has one owner, no dangling entry, also after a crash), `FreedUnused` |
| `fs_removed` | 1 process, the same calls | violation of `IlockFindsType`: see Findings |
| `console` | 2 readers, 2 writers, 6 kinds of keys, buffers of 2, indexes modulo 4; 4 keys and 3 `read`s, or 5 characters and 1 key, or 2 characters, 1 key and 1 `read` | refinement `LineSpec`, `OutputInOrder`, `NoLostWakeup`, liveness `OutputDrains` |
| `shell` | every line of up to 4 characters and 10 longer ones, 3 words and 5 descriptors at most, one failure of `fork` or `pipe` | `ParseAgrees` (the parser finds the `Meaning` of the line), `Wired` (programs start with the right descriptors), `ForegroundDone`, liveness `PromptReturns` |

Bounds. Two processes and three blocks are enough for group commit, absorption of a
repeated write, a sleeper behind a commit, a call that has to wait for room in the
log, and a power failure between any two disk writes. Three slots are init, a parent
and a child, the smallest table with an orphan, and two CPUs are what a race needs.
Schedulers compare two processes at a time; with three slots a scan drops a candidate
for a better one. `MaxCalls` bounds ticks, `set_priority` and `settickets` together, so
that up to three ticks fall into a scan and between scans. A two-byte pipe with writes of up to two bytes by two writers is
full, empty and wrapped; counters modulo 4 wrap after two buffers. An alarm compares
`now_ticks` with an interval only, so the model keeps it at `MaxNow` once it is past
every interval. Init needs 8 pages, an `exec` 8 and a child 8 to 11, so 22 pages run
out inside each of them. Three blocks in two buffers force recycling, and the second
transfer finds descriptors with 6 of them and sleeps with 4. Five inodes are the
root, a file, a directory in a directory and a new one; six blocks run out and so does
the inode table, which holds one inode less than the disk; one direct and one indirect
entry make a file of two blocks use both paths of `bmap`. An input buffer of two fills
up within a line; five characters fill an output ring of two, put writers to sleep and
take its indexes past their end. Lines
of four characters have every operator with operands on either side; the longer ones
nest pipelines, lists, background jobs and redirections. Symmetry is used in
`fs` only, which checks no liveness.

Fairness. *Log*: recovery, the committing process and each process inside a call keep
running (the disk answers), and power failures cease; `end_op` is strongly fair because
it waits for `log.lock`. *Proc*, on one CPU: timer interrupts keep coming, so `yield`
happens again and again; the round-robin loop of `scheduler` visits every slot, so a
process that is runnable again and again is dispatched; a thread that finds a lock free
again and again when it runs takes it; init's program calls `wait` for ever
(`user/init.c`). *Sched*: a scheduler goes on with its scan, getting each lock in the
end, and so does `updateTime`. *Pipe*: a process keeps trying for `pi->lock`, a process
inside a call goes on, and each end is closed some day (at the latest by `exit`).
*Alarm*: ticks keep coming and the handler reaches its `sigreturn`. *Bcache*: the device
completes each request, its interrupts are served, and a process inside a call goes on.
*Console*: the UART sends what it was given, its interrupts are served, readers and
woken writers go on. *Shell*: some process that can go on does; every step takes the
finite command further, so no more is needed.

What need not happen is as telling. A process woken in `begin_op` may find the log
full again each time, so `LogSettles` only promises a moment without sleepers. `wait`
scans from the first slot, so zombies that keep coming in low slots can hide one above
them: `ZombiesOfInitReaped` has the premise that forks cease. On two CPUs neither this nor
`WaitReturns` holds, as nothing gives a spinning `acquire` its turn. In LBS a CPU may idle
for ever beside a process that is behind a negative ticket count. A process killed between
the test of `killed` and `sleep` in `wait` (`proc.c:479`) sleeps on until a child exits.

## What is proved

`LogProofs` proves, for any number of processes, blocks, values and any log size
(assumptions: `LogConstants`):

- `LogInvariant`: `Spec => []LogInv`;
- `NoTornBlocks`, `CommitRunsAlone`, `QuietSystemIsDurable`, `NoStrandedSleeper`:
  `NoTornBlock`, `CommitAlone`, `QuietIsDurable` and `SleeperWillBeWoken` of `Log`, which
  follow from it;
- `LogIsAtomic`: `Spec => AtomicSpec`, the refinement.

`LogInv` is the inductive invariant; none of the properties is inductive alone. Its
parts: `Counting` (`outstanding` is the number of calls in progress, and none is in
progress during a commit), `Headers` (the on-disk header is empty, or equals
`log.lh`, depending on the phase), `Holding` (buffers locked by calls), `Pinning`
(exactly the logged and not yet installed blocks are pinned), `Caching` (every other
buffer agrees with the disk: without it a recycled buffer could bring back old data),
`Logging` (what the log blocks hold in each phase, and that installed entries are at
home) and `Sleeping`. There is one lemma per action. The refinement then needs three
facts: a step that is not `write_head` leaves `Recovered` alone, `write_head` makes
it equal to `Visible`, and a power failure makes `Visible` equal to it.

Only model-checked: everything about the other modules, the liveness properties
(fairness and `ENABLED` are out of the proof system's reach), and `NoPanic` of the log, which depends on the sizes. What recursive
definitions compute would need induction over data, which the installed provers do not
do, and RECURSIVE operators, which `ShellParse` has, cost them their arithmetic: what
the parser computes stays with TLC. The modules to be proved about use folds or
recursive functions.

## Findings

`sched_mlfq`: the loop over `queue0` shifts the array (`proc.c:706-708`) and then
releases `queue0[i]->lock` (`proc.c:713`), the lock of another process or none, while
that of the process that ran stays locked. `release` panics (`spinlock.c:49`). The other
four loops do the same.

`fs_removed`: a process is in `/d/d` when `/d/d` and `/d` are removed. `unlink` lowers
the link count of the parent for the `..` it no longer counts (`sysfile.c:226`) and
leaves the entry where it is, so `/d` is freed although the `..` of the current directory
names it. A lookup of `..` then locks a free inode: `panic("ilock: no type")`
(`fs.c:315`). In the other order of events, `iput` has tested `ip->ref` (`fs.c:341`) and
the lookup gets the inode before it is truncated.

Seen while modelling; the models do as the code does:

- `freeproc` (`proc.c:207-209`) frees `trapframe_copy` and forgets `trapframe`, so each
  reaped process costs a page (`lost` in `UserMem`). It keeps the pointer
  `trapframe_copy`: if the next `allocproc` on the slot runs out of memory, `freeproc`
  frees that page again (`refreed`). When the allocation of `trapframe_copy` itself
  fails (`proc.c:189`) the slot stays `USED`. `Accounting` counts all of it.
- The return value of `sigreturn` overwrites the restored `a0` (`sysproc.c:160`), which
  `alarmtest` (`alarmtest.c:165`) tests: `Resumes` speaks of the other registers. A
  handler that calls `sigalarm` with a positive interval can be entered again
  (`proc.c:1312`), and its return then loses the place of the program: `NotReentrant`
  and `Resumes` except it. `exec` keeps interval and handler (`exec.c:118`).
- A killed writer returns from `pipewrite` (`pipe.c:84`) without waking readers of the
  bytes it wrote, and a `copyout` that fails in `piperead` loses a byte (`pipe.c:123`).
- `begin_op` counts on `LOGSIZE` blocks; the log has one less for data. A call that wrote
  all it reserves could find it full; `OpBlocks` is what calls write.
- `create` in a directory that was removed meanwhile leaves a link count too large
  (`sysfile.c:254`), so `NoDangling` bounds link counts from one side. A file that is open and without a
  name at a crash keeps its inode and blocks: nothing frees them at the next boot.
- `iget` panics when the inode table is full (`fs.c:267`), and `open` or `chdir` has no
  other answer to that.
- `settickets` accepts negative counts (`sysproc.c:119`), which LBS adds up: see `Sched`.
- Alarms exist in three of the five builds (`trap.c:80`), and `updateTime` in all.
- `getrand` always draws 0 (`proc.c:495`), so the lottery has no chance in it. `allocproc`
  enters processes in `queue0` in every build (`proc.c:156`). No code sets `end_time`,
  which `waitx` reports from, and `sys_waitx` hands the two times over in the other
  order (`proc.c:1281`).
- In `a >x >y` the shell writes to `x`, the first.

## Not modelled

- `copyin`, `copyout`, `copyinstr` and `walkaddr` (byte copying; that they fail is in
  `Pipe`, `Console` and `FS`), the kernel page table, boot code, `printf`, `plic.c`.
- `push_off`/`pop_off`: `acquire` waits until the lock is free. `sched`'s demand of one
  lock is `SwitchHoldsOneLock`.
- `trampoline.S`, `kernelvec.S`, `swtch.S` and the privileged registers. `usertrap` is
  in `Alarm` and `Proc` as far as ticks and preemption go.
- Argument fetching and the lines `trace` prints.
- The times that `waitx` returns.
- `sys_pipe`, descriptors across `fork`, and devices other than the console.
- The directory of the shell's `cd` and its limit of 100 characters.
- `malloc` and `free`, `mkfs` but for its empty root directory, and user programs other than the shell: single-threaded
  code. `init.c` and `alarmtest.c` are where `Proc` and `Alarm` take the behaviour of
  user space from.

## Plan

1. Proofs: an inductive invariant of `Proc` for `OneCPU`, `FreedIsOffCPU` and
   `NoZombieUnderSleeper`; of `Pipe` for the refinement; `RefcntExact` and the
   refinement of `Bcache`.
2. `Accounting` and `SizeIsMapped` of `UserMem`, as far as folds allow.
3. Nesting of `push_off` in `Proc`.
