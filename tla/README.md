# xv6-pdx: specifications and proofs

This directory holds TLA+ specifications of the operating system in `src/xv6-pdx`, the TLC
configurations that check them and TLAPS proofs about them. The kernel is modelled as the
Makefile builds it, with `CS333_PROJECT = 2` (flags `CS333_P1` and `CS333_P2`).

## 1. The system

xv6-pdx is a small Unix for several x86 CPUs. What is hard about it happens in the kernel,
between processes that run in it at the same time, interrupts, and a disk that keeps its
contents when the machine stops; and in the shell, which builds trees of processes that share
descriptors.

| Part | Source | State | Operations | Interacts with |
|---|---|---|---|---|
| Process table, scheduler | `proc.c`, `trap.c`, `sysproc.c` | `ptable` (state, pid, parent, chan, killed, kstack), `proc` of each CPU, `nextpid` | fork, exit, wait, kill, sleep, wakeup, yield, sched, scheduler | called by everything that blocks; `ptable.lock` changes hands in `swtch` |
| Log | `log.c` | `log` (lh, outstanding, committing), header and log blocks on disk | begin_op, log_write, end_op, commit, recovery | brackets every file system call; writes through `bio.c`; sleeps on `&log` |
| Buffer cache | `bio.c` | 30 buffers with flags and an LRU list | bread, bwrite, brelse | log pins buffers with `B_DIRTY`; `ide.c` fills them |
| Disk driver | `ide.c` | `idequeue` | iderw, idestart, ideintr | the interrupt wakes the owner of a buffer |
| Inodes and directories | `fs.c`, `sysfile.c` | `icache`, inodes, directory entries | ialloc, iget, ilock, iput, namex, link, unlink, create | every update goes through the log |
| Blocks of files | `fs.c`, `file.c`, `mkfs.c` | bitmap, block lists, contents | balloc, bfree, bmap, itrunc, readi, writei, filewrite | chunks of filewrite are transactions |
| Open files | `file.c`, `sysfile.c` | `ftable` reference counts, descriptors | filealloc, filedup, fileclose, dup, open, close | pipes, inodes |
| Pipes | `pipe.c` | ring buffer, `nread`, `nwrite`, open ends | pipealloc, piperead, pipewrite, pipeclose | sleep and wakeup, kill, file reference counts |
| Memory | `vm.c`, `kalloc.c`, `exec.c`, `proc.c`, `syscall.c` | free list, page tables, `sz` | kalloc, kfree, allocuvm, copyuvm, loaduvm, freevm, growproc, fork, wait, exec, argptr | page exhaustion at every allocation; program headers and arguments that nobody has checked |
| Console | `console.c`, `trap.c` | input ring `r`, `w`, `e` | consoleintr, consoleread, consolewrite | keyboard and timer interrupts against readers; processes change CPUs |
| Spinlocks | `spinlock.c` | `locked`, `cpu`, `ncli`, `intena` | acquire, release, pushcli, popcli | everywhere; `intena` crosses `sched` |
| Shell and init | `sh.c`, `init.c` | command tree, descriptors, children | getcmd, parsecmd, runcmd, builtins, init's loop | fork, exec, wait, pipe, dup, open, close |
| Process information | `proc.c`, `sysproc.c` | uid, gid, ticks | getproc, procdump, setuid, setgid | reads the table |

What is hard here: locks that pass from one thread of control to another (scheduler and
process), the window between testing a condition and sleeping on it, `killed` being tested
under one lock and set under another, crashes between disk writes, reservations that are
counted in one place and used in another, resources freed by whoever happens to be last,
allocation that fails halfway, and counts that must agree with a tree other processes change.
`PROJECT.json` lists these hazards at their lines, with the properties that would catch them.

What makes each part correct:

* **Log**: after a crash the disk holds all or nothing of a transaction; a commit never
  contains an unfinished call; the space reserved is enough for calls that keep to it; waiting
  calls go on.
* **Process table**: a process runs on one CPU at most; a stack is freed only when nobody
  executes on it; every zombie is found by its parent or by init; killed processes exit.
* **Pipe**: a bounded queue; no sleeper without a reason; the page outlives every use.
* **Buffer cache, disk**: one buffer per block, nobody waits without somebody to wake it, and
  together they are a store of blocks that returns what was last written.
* **Inodes, directories, files**: link and reference counts agree with the tree and the open
  files; nothing in use is freed and nothing unused is kept; inode locks do not deadlock.
* **Blocks**: every block has one owner or is free, a file reads back as the flat array that was
  written, and a chunk fits into the log.
* **Memory**: every page has one owner on every path, a process has the memory it was promised,
  and no CPU runs on a page directory that was freed.
* **Console, spinlocks**: no typed character is lost or read twice, readers get their lines; locks
  are held with interrupts off, by one CPU, without deadlock.
* **Shell**: a line is parsed by its grammar, its programs get the descriptors and run in the
  order it says, and the prompt returns.

## 2. Modules

| Module | Models | Steps |
|---|---|---|
| `AtomicDisk` | what the log promises (comment `log.c:8-29`) | |
| `Log` | `log.c` with buffers and disk below it | one per critical section, one per block written |
| `LogProofs` | proofs about `Log`: control, the bound of an overrun, contents and the refinement of `AtomicDisk` | |
| `Proc` | process table and scheduler | one per critical section of `ptable.lock`, cut at every `swtch` |
| `ProcProofs` | proofs about `Proc` | |
| `Fifo` | what a pipe promises | |
| `Pipe` | `pipe.c` with both locks, fork, close, kill | one per loop iteration or lock operation |
| `PipeProofs` | proofs about `Pipe` | |
| `BlockStore` | what the buffer cache promises | |
| `BufferCache` | `bio.c` on `ide.c` | one per critical section of `bcache.lock` or `idelock` |
| `BufferCacheProofs` | proofs about `BufferCache` | |
| `FileSystem` | inode cache, path lookup, directory calls, `ftable` | cut at ilock, iput and end_op |
| `FileSystemProofs` | proofs about `FileSystem` | |
| `FileContent` | block lists and contents of files, image of `mkfs.c` | one per turn of the loops of writei and itrunc |
| `FileContentProofs` | proofs about `FileContent` | |
| `Memory` | pages and address spaces | one per page allocated |
| `MemoryProofs` | proofs about `Memory`: owners of pages, then what processes find in them | |
| `Spinlock` | `spinlock.c` | operators that `Console` composes |
| `LineInput` | what the console promises its readers | |
| `Console` | `console.c` with locks, sleep, wakeup, yield, sched and scheduler: several processes on several CPUs | one per lock operation |
| `ConsoleProofs` | proofs about `Console` | |
| `Shell` | `sh.c` and `init.c` | one per system call |
| `MCLog`, `MCProc`, `MCBufferCache`, `MCFileSystem`, `MCFileContent`, `MCMemory`, `MCConsole`, `MCShell` | symmetry sets, start states and inputs for TLC | |

`Pipe` needs no such module: its run names it directly.

### Log

`disk` and `head` survive a crash; `cache`, `dirty`, `lh`, `outstanding`, `committing` and
the places of the processes do not. A buffer that is clean and free may be recycled at any
time (`bget_recycle`), so that the next `bread` sees the disk. A block write is atomic (a
block is one sector, `fs.h`). `log_write` is two steps, because its limit test
(`log.c:215`) precedes `acquire` (`log.c:220`). `b \in busy[p]` is `B_BUSY`. `kill` makes
a process that sleeps in `begin_op` test again. A panic stops its process where it is; the
others go on, because `panic` stops another CPU only when that CPU prints. A panic under
`log.lock` stops all of them (it is proved unreachable). What a call writes is free, up to
`OpBlocks` distinct blocks: nothing in `log.c` depends on more.

### Proc

`lock` is the CPU that holds `ptable.lock`, `cur` is `proc` of each CPU. A process that
gives up the CPU goes through `sched` (state is set, lock held, context not yet saved),
`off`, and, when a scheduler picks it, `resume` (lock held by the new CPU) to `after`.
`wait` keeps the lock over its loop, as the code does. Code that runs without the lock
(`allocproc` after its release, `fork`'s copy) is cut where it writes the table, and a
timer tick may switch it out. What a system call does with files and memory contents is
left out; `kalloc` and `copyuvm` succeed or fail. `ticks` arithmetic is left out: whether
`sys_sleep` has slept long enough is free. init is its own parent (`proc.c:115`), so that
`wait` in init always finds a child, itself, and sleeps where its comment
(`proc.c:248`) promises -1; `init.c` calls `wait` only when it has forked a shell.

### Pipe

Both `p->lock` and `ptable.lock` are explicit. `sleep` takes `ptable.lock` before it lets
`p->lock` go (`SleepLocks`); `kill` takes `ptable.lock` only. Counters wrap at `WRAP`
(2^32 in the code, a small multiple of `PIPESIZE` in the run). A process has at most one
descriptor per end. A process that exits and a process that is forked later may be the
same member of `Proc`. The history variable `stranded` records that a killed writer left
without waking the readers; `SleepersJustified` excepts exactly that.

### BufferCache

The LRU list is a sequence, so that `bget`'s two scans and `brelse`'s move to the front keep
their order. `device` is the command that the drive executes; its interrupt may come at any
time. A transfer may fail (`MAXERR`): `ideintr` then sets `B_VALID` over old contents, as
the code does, and `failed` records the block, which the refinement of `BlockStore` leaves
open from then on. The log's pins are buffers that stay dirty after `brelse`.

A process may hold several buffers. What the callers nest is stated by `Nest` in terms of what a
block is for (`Level`): `write_log` and `install_trans` ask for a home block, whatever its number,
while they hold a block of the log (`log.c:180-181`, `74-75`); `bmap` and `itrunc` call `balloc`,
`bzero` and `bfree`, which ask for the superblock, a bitmap block or a data block, while they hold
an indirect block (`fs.c:376`, `410`); no caller holds any other block when it asks for one.
`bwrite` and `log_write` take any buffer that is held: `write_log` writes the one it got
first (`log.c:183`). Blocks keep their role for ever in the model. In the
code a data block may become an indirect block only through `bfree` and `balloc`, when nobody holds
it; and a block of the log stays one unless the log runs over the first inode block, which is what
`log_overrun` shows, so that `Nest` presupposes `LogFits`.

### FileSystem

Locks that are taken and released between two cuts do not show; those kept over a cut (directory
in `unlink` and `create`, victim of `iput`) are `I_BUSY` of the entry, and path lookup waits for
them. `disk` is what `bread` returns, `committed` what a crash leaves: it is set when the last
call in progress ends (module `Log`). `lost` records inodes that `create` or `link` entered into
a directory that another process had just removed, and `leaked` those that were open without a
name at a crash; both can happen in the code, and the properties except exactly these inodes.
`orphaned` records that `iput` freed a directory to which `..` of a removed directory leads (run
`file_system_orphan`). It excepts two things only: a pointer that `namex` or `create` has just
taken from such a `..` and not yet locked, and the panic of the `ilock` that follows; every
other pointer (current directories, open files, all places of calls in progress) refers to an
allocated inode in every state. All processes start in one directory of the tree, which may be
any. Names are members of a small set; contents of files are in `FileContent`.

### FileContent

`mkfs` runs first, with its own allocation, and leaves an image; then processes open, write,
read and truncate. `bmap`, `balloc` and `bfree` are operators on the bitmap and the block
lists, with the indirect block; `writei` runs one block per step, so that writers of different
files meet in the bitmap, and a full disk panics in the middle. `itrunc` walks the places of a
file in the order of its two loops, the direct ones, those of the indirect block, then the
indirect block itself (place MAXFILE of `BlockAt`), and frees one block per step; `tot` of the
call is the next place. `Held` are the places whose blocks the file still owns. `logged` collects
the blocks that a chunk of `filewrite` touches.

### Memory

A set stands for the free list (pages are interchangeable); the contents of a page are one
value. `want` is the memory that a process was promised, `damaged` the processes that lost
some of it although their call reported success or left them running, `tabfailed` that a page
table could not be allocated. `allocuvm` never shrinks (`NewSize`), and `exec` takes a size of 0
for its failure.

Program headers hold any unsigned integers (`Segment`): `exec` refuses `memsz < filesz`
(`exec.c:45`), adds `vaddr + memsz` modulo 2^32 (`exec.c:47`), and `loaduvm` panics for an
address that does not begin a page (`vm.c:202`) and for a page that is not there. `argptr` adds
a signed size to the address modulo 2^32 and compares with `sz` (`Accepted`, `syscall.c:61`).
Two calls are modelled that then write to the block: `read`, which copies as much as the file
has although the size may have been negative, and `getprocs`, which measures one pointer and
writes a table. When the kernel panics, or writes to an address where nothing is mapped or to
its own memory, the machine is `halted`; `stray` tells whether the cause is a malformed segment
or such a block. `SpaceIsFlat` and `PagesAccounted` end there, and `HaltOnlyIfDamaged` lists
these causes with the others: it says that there are no more.

### Console

Processes and CPUs are apart: a CPU runs a process (`proc`) or its scheduler, with an interrupt
handler on top of either; handlers start only with interrupts on. A process that sleeps in
`consoleread`, or that a timer interrupt makes yield (`trap.c:103-105`), goes through `sched`,
which keeps where it goes on and its `intena` in `saved`; any scheduler may go on with it
(`dispatch`), on another CPU too, and `Restored` is the assignment after `swtch` (`proc.c:380`).
A process that slept has `intena` set, one that yielded inside a handler has not, and a
scheduler that switches to a second process before it releases `ptable.lock` has the `intena` of
the first: dropping the assignment violates `InterruptsSound`. The scheduler keeps `ptable.lock`
from one process to the next and ends its turn when it likes (`scanned`): the order of the table
is left out here (`Proc` has it). Acquisition is `pushcli`, spinning, and the exchange, in
separate steps. A tick may make its process yield or not, as `SCHED_INTERVAL` is left out. The
input ring keeps `r`, `w` and `e` as unsigned integers that wrap at `WRAP`. Output is reduced to
its locking.

### Shell

A word is a symbol known by its position. The parser is translated procedure by procedure
(`parseline`, `parsepipe`, `parseexec`, `parseblock`, `parseredirs`, `gettoken`), with its
panics, and compared with an independent grammar. `runcmd` runs with a descriptor table per
process; the calls succeed, or one of them fails. A program reads its standard input to its
end and exits, or exits earlier.

## 3. Runs

Each takes less than five minutes with two workers.

| Run | Instance | Result |
|---|---|---|
| `log` | 2 processes, calls below MAXOPBLOCKS, room for two of them, log of mkfs, crashes anywhere | `CrashAtomic` (refinement of `AtomicDisk`), `WriteAhead`, `QuiescentIsDurable`, `LogInv`, `SpaceIsThere`, `SleepersWake` hold |
| `log_overrun` | 3 processes, calls of MAXOPBLOCKS, log of mkfs | `LogFits` is violated |
| `proc_table` | 2 CPUs, 4 slots, 3 pids given out by fork | `TableSound`, `StacksOwned`, `ParentAlive`, `WaiterMissesNothing` hold |
| `proc_live` | 1 CPU, 2 slots | `KilledExits`, `RunnableRuns` hold |
| `pipe` | 2 processes, one killable, 2 bytes, counters modulo 4 | `IsFifo` (refinement of `Fifo`), `PipeSound`, `SleepersJustified`, `EndOfFile` hold |
| `block_cache` | 2 processes, 2 buffers, a block of the log, an indirect block and another one, pins, one failing transfer | `IsBlockStore` (refinement of `BlockStore`), `CacheSound`, `SleepersHaveWaker`, `PanicOnlyWhenFull` hold |
| `file_system` | 2 processes, 4 inodes, 3 calls, three trees, any current directory, crashes | `ReferencesExact`, `CountsExact`, `NothingDangles`, `Reclaimed`, `NoCircularWait` hold |
| `file_system_orphan` | the same | `LockedHasType` is violated |
| `file_content` | 2 processes, 2 files, 5 data blocks of 2 bytes | `BlocksAccounted`, `ContentIsFlat`, `ChunkFits` hold |
| `memory` | 2 processes, 14 pages, 5 calls, five programs, reads of -1 and of 3 bytes | `PagesAccounted`, `SpaceIsFlat`, `HaltOnlyIfDamaged`, `LoadedDirectory` hold |
| `console` | 2 CPUs, 2 processes, ticks on one CPU, ring of 2, indices modulo 4, reads of 0 and of 2 bytes | `ConsoleInput` (refinement of `LineInput`), `InterruptsSound`, `LocksSound`, `ReadersServed` hold |
| `shell` | 7 processes, 7 descriptors, lines of up to 3 symbols and ten longer inputs, one failing call | `AcceptsGrammar`, `DescriptorsAsTyped`, `OrderAsTyped`, `ShellGoesOn` hold |

**Bounds.** In the log, two processes overlap, absorb each other's writes and commit for each
other, and a call waits in `begin_op` both for a commit and for space; the runs scale
MAXOPBLOCKS down and keep NLOG = LOGSIZE, the log of mkfs. Calls of `log` write fewer than
MAXOPBLOCKS blocks; those of `log_overrun`, where three processes are as many as LOGSIZE admits,
write MAXOPBLOCKS. The repository's calls do not keep to either: `param.h` allows 10 blocks, and
a chunk of `filewrite` touches about 17 (see below). In the process table, two CPUs race for the
lock, four slots let init inherit a zombie whose parent was not its own child, and a slot freed
before all pids are given out is used again. In the pipe the counters wrap every four bytes. Two
buffers for three blocks, one of each level of `Nest`, force recycling and, with pins, the panic
of `bget`; processes hold up to two buffers (`MAXHOLD`), which is as deep as a home block under
a block of the log or a fresh block under an indirect one. Three calls on a tree of two
directories and a file, or of three directories, are what each race of `FileSystem` needs (one
process in the middle of a call while the other removes what it found and creates something in
its place); `NFILE` 1 and `NOFILE` 2 run both tables full. The 16 calls and three trees have 1.2
million states; a variant with five calls on the nested tree, in which processes walk on after a
directory was orphaned, was checked once, without a further violation. With `BSIZE` 2 and
`NDIRECT` 1, a file has one direct and two indirect blocks, and two such files with the root
directory need more than the five data blocks there are. Fourteen pages hold the kernel tables
and one process comfortably, two not always, so that every allocation fails in some behaviour.
Their programs have a plain segment, two segments, an unaligned one, one whose `filesz` is
greater than its `memsz`, and one that wraps around; files have six bytes, more than a small
process has, so that a read of -1 bytes goes past the end, and a pointer has one byte. At the
console, two processes on two CPUs overtake each other and change CPUs; ticks come to the first
CPU, whose handler also wakes sleepers (with ticks on both, a variant checked once, there are
6.9 million states and no violation either). `MAXOPBLOCKS`-like constants keep their relations
from `param.h`; `OpBlocks`, `MAXPID`, `MAXN`, `KillPids`, `Killable`, `MAXHOLD`, `MAXPIN`,
`MAXERR`, `MAXCALLS`, `Sizes`, `Counts`, `Timers`, `Deltas`, `Images`, `ArgSizes`, `ReadSizes`,
`Lengths`, `PTRSIZE`, `Calls`, `Trees` and `Inputs` are bounds of the models.

**Symmetry** is used for processes, CPUs and contents where a run has invariants and action
properties only. `console` has a view besides: states that differ only in an `intena` at depth 0, in
the context of a process that runs, or in bytes outside the ring's contents are the same; no action
reads these before it sets them. With it the run has 2.9 million states.

**Deadlock** is checked except in three runs. `pipe`: a process that reads its own empty pipe
really waits for ever, and when all are killed nothing is left to do. `memory`: a behaviour
ends with the last call or with a panic. `shell`: a shell at the end of its input waits.

**Fairness.** A process inside the kernel goes on: the scheduler scans the whole table, timer
ticks return, and a spinlock that is released again and again is obtained (`xchg` does not
guarantee this; no code holds a spinlock for long). In `Log`, a call makes finitely many
writes before `end_op`. In `Proc` and `Pipe`, steps are strongly fair because a tick or
another process may take the CPU or the lock away again and again just before a step; in
`Pipe`, a killed process closes its ends. In `Shell`, every process that can take a step
takes one, and programs read to the end of their input and exit. No fairness is assumed of
system calls being made, of kills, crashes, failures or keys.

### What the violated properties say

`log_overrun`: `mkfs` reserves LOGSIZE blocks with the header among them, `begin_op` counts
LOGSIZE data blocks. Three calls that each write MAXOPBLOCKS blocks, which `param.h` allows,
end in a panic; and because the limit test is made without the lock, two of them may pass it
together, and the log grows over the first inode block instead.

`file_system_orphan`: `sys_unlink` takes back the link that `..` of a removed directory makes
(`sysfile.c:219`) and leaves the entry. For a process in `/a/b`, after `unlink("/a/b")` and
`unlink("/a")`, `iput` has freed `/a`, although a directory still refers to it (the comment of
`itrunc`, `fs.c:387`, says that none does); `open("../a")` then locks a free inode and panics
with "ilock: no type" (`fs.c:293`).

### Behaviour worth knowing

The models contain the following behaviour of the code. The properties make an exception of
it or the instances step around it, as noted. Where a comment of the repository says otherwise, it
is named; these are not runs of their own because the property that would be violated is one of a
passing run without its exception.

* `kill(0)`, or a pid left in the table by a failed fork, marks a free slot; the next process
  in the slot is killed at birth (`proc.c:491`; `Proc`).
* A kill between the test of `killed` and the sleep is lost on a pipe (`pipe.c:85`, `106`;
  `Pipe`), and a killed writer does not wake the readers of what it wrote (`pipe.c:87`;
  `stranded`).
* A chunk of `filewrite` may touch more blocks than the MAXOPBLOCKS that `begin_op` reserves
  (`file.c:132`): about 17 blocks with the repository's constants, where `param.h:10` says that
  MAXOPBLOCKS, 10, is the most that any call writes. `ChunkFits` states the bound of
  `filewrite`'s own comment, the log's size, and would not notice this. What it does to the log,
  `OverrunBounded` bounds.
* `argptr` is to "check that the pointer lies within the process address space"
  (`syscall.c:50-52`), but a negative size passes it (`syscall.c:61`): `read(fd, p, -1)` at the
  start of a file copies the whole file (`Memory`; `stray`). `sys_getprocs` gives `argptr` a
  null pointer, so that the table's address is stored at address 0, and measures 4 bytes where
  `getproc` writes a table (`sysproc.c:164-174`).
* `exec` does not look at what `loaduvm` demands, "addr must be page-aligned and the pages from addr
  to addr+sz must already be mapped" (`vm.c:194-195`): a segment that is not aligned panics the
  kernel, one whose end wraps around (`exec.c:47`) leaves pages unmapped (`Memory`; `stray`).
* `mkfs` rounds the size of the root directory up to the next block also when it is a multiple
  of the block size (`mkfs.c:161`); a lookup then allocates a block outside of a transaction.
  `ROOTSIZE` of the run is 1, not a multiple.
* `allocuvm` ignores a failure of `mappages`, and `copyuvm` drops the page it has just
  allocated (`vm.c:240`); `growproc` takes a new size of 0 for an error after the pages are
  freed (`proc.c:138`). `damaged` and `tabfailed` record what follows.
* `>>` is the same as `>` in the shell, and of two redirections of a descriptor the first one
  is in force at the end. Long numbers after `_set` wrap in `makeint`.
* `getproc` stops at the first UNUSED slot, reports the parent's uid as ppid, and follows the
  parent of an EMBRYO (`proc.c:746-755`). This is not modelled.

## 4. Proofs

TLC checks the instances of section 3; the theorems hold for every value of the constants that
the `ASSUME` of the model's module allows. Each rests on an inductive invariant, which TLC has
checked too: it holds in the initial states, every action preserves it (one lemma per action,
collected in a lemma about `Next`), and it implies the property. A refinement is proved from the
same invariant: the initial states map to initial states of the abstract specification, every
step to one of its steps or to a stutter.

| Module | Assumed of the constants | Properties of the runs that are proved |
|---|---|---|
| `LogProofs` | finitely many processes, a log of at least one block inside the disk, MAXOPBLOCKS <= LOGSIZE; for the contents `[]LogFits` as a hypothesis | `LogInv`, `CrashAtomic`, `WriteAhead`, `QuiescentIsDurable` |
| `ProcProofs` | at least one slot and one pid | `TableSound`, `StacksOwned`, `ParentAlive`, `WaiterMissesNothing` |
| `PipeProofs` | PIPESIZE > 0, counters that wrap at a greater multiple of it | `PipeSound`, `SleepersJustified`, `IsFifo` |
| `BufferCacheProofs` | finitely many processes and buffers, at least one buffer; no block of the log is an indirect block | `CacheSound`, `SleepersHaveWaker`, `PanicOnlyWhenFull`, `IsBlockStore` |
| `ConsoleProofs` | the interrupt controller's CPU is one of the CPUs, INPUT_BUF > 0, indices that wrap at a greater multiple of it | `LocksSound`, `InterruptsSound`, `ReadersServed`, `ConsoleInput` |
| `FileContentProofs` | blocks, files and inodes per block not 0, LOGSIZE >= 6, a root directory smaller than a file may be; for `BlocksAccounted`, one that does not end with a block (`RootEndsInside`) | `BlocksAccounted`, `ContentIsFlat`, `ChunkFits` |
| `FileSystemProofs` | finitely many processes, initproc among them, `.` and `..` among the names, sizes not 0; calls have paths (link two), every inode of the first tree has a link | `ReferencesExact`, `Reclaimed` |
| `MemoryProofs` | sizes not 0, KERNBASE a multiple of what a page table maps and more than a page, NPAGES > NKTAB + 4, sizes that an int holds; nothing of the program headers but that they are uints | `PagesAccounted`, `LoadedDirectory`, `SpaceIsFlat`, `HaltOnlyIfDamaged` |

The code has these constants: 2^32 is a multiple of PIPESIZE (512) and of INPUT_BUF (128), NBUF
is 30, NPROC 64, LOGSIZE 30, KERNBASE 2^31; userinit needs NKTAB + 4 pages. Two conditions are
not facts of the code: `[]LogFits`, the hypothesis about the contents of the log, which
`log_overrun` refutes for the repository's constants, and `RootEndsInside`, which depends on how
many files mkfs is given. LOGSIZE >= 6 says that a chunk of `filewrite` has at least one block:
with fewer, `filewrite` would loop for ever.

### Log

The control of the log is not inductive by itself. `CommitsAlone` needs that
`outstanding` really counts the calls in progress (`CountOK`), or the last `end_op` would not
be the last; `SleeperHasWaker` needs that the log is empty between transactions
(`IdleIsEmpty`), or `begin_op` could find it full with nobody to empty it; `TypeOK` needs that
no block is recorded twice (`LogDistinct`): distinct blocks are at most as many as there are,
so that every entry has a slot on the disk (`SlotOnDisk`). `ControlInv` is the conjunction with
what recovery needs (`DownIsIdle`, `UpIsRecovered`). Theorems: `TypeCorrect`,
`ControlCorrect`, `CommitExclusion`, `NoLostWakeup`, `AssertionsNeverFail`, and `LogCorrect`,
which states the invariant `LogInv`: types, commits alone, assertions and wakers together.

Space: `begin_op` reserves MAXOPBLOCKS blocks per call, but calls may write more, and the log of
mkfs has one block less than is given out. That `log_write` never runs over the log is therefore
not to be had: with NLOG = LOGSIZE = 30 it would need calls of at most 9 blocks (`SpaceIsThere`
is checked by TLC for such calls). What holds whatever the calls write is how far the log is
overrun: the test of `log_write` lets in one block for each call that has passed it, and
`begin_op` admits LOGSIZE / MAXOPBLOCKS calls, so that `lh` has at most 31 entries with the
repository's constants, one more than its array (`OverrunBounded`, part of `LogInv`; theorem
`OverrunIsBounded`).

Contents: `DataInv` says where the contents of each block are at each point of a commit. The
header on the disk lists a transaction exactly from its commit point to its erasure
(`HeadListsCommitted`); until then the log blocks before `tail` equal the cached blocks
(`CopiedToLog`), after it the home blocks before `tail` equal the log blocks (`InstalledHome`),
and a buffer that may be recycled equals its disk block (`CleanIsDisk`), so that recycling loses
nothing. A commit of `AtomicDisk` happens when `write_head` writes the header; the other steps
of a commit, and recovery, are stutters. `LogIsAtomic`, `QuiescentDurable` and `WritesAhead`
have the hypothesis `[]LogFits`, and need it: when the log is overrun, a log block lies on an
inode block and a commit changes both (run `log_overrun`). They say nothing about a run of the
system in which this has happened.

### Process table

`ProcInv` follows `ptable.lock` through `swtch`: a CPU holds it while its process is between
setting its state and saving its context, and again until the resumed process releases it
(`CpuSound`). With `RunningRuns` (RUNNING is exactly a process that a CPU executes and that is
not on its way out) two schedulers cannot pick one process. Stacks need that an EMBRYO belongs
to one fork, before and after a switch (`ForkOwns`, `OneForker`): the fork that fails frees the
stack that it has allocated itself. `ParentAlive` needs that init never leaves (`InitLives`) and
that a fork's child gets its parent only when nobody can have reaped it. `WaiterMissesNothing` is
inductive with the lock: between the scan of `wait` and its sleep nobody else has it.

### Pipe

`PipeInv` says which of the two locks each place in the code holds (`LocksHeld`), that a process
in a call has its end open, that one close at most is the last (`OneCloses`), and why each
sleeper sleeps (`Sleepers`), from the moment it decides to. The page is freed by the last close,
and whoever is inside a call has an end open, so nobody uses it afterwards. For `IsFifo`, the
lemmas `Gap`, `Advance` and `ModDistinct` show that the difference of two counters modulo WRAP
is the number of stored bytes wherever they have wrapped, and that places less than PIPESIZE
apart do not coincide modulo PIPESIZE; they need that WRAP is a multiple of PIPESIZE.

### Buffer cache and disk driver

`CacheInv`: a busy buffer has one holder, which holds it once (`HeldOnce`); a block is in one
buffer (`OneBuffer`); only the last buffer of a process in `iderw` may be invalid
(`OnlyTopInvalid`); the queue holds each buffer once, for a process that waits for it, and until
its transfer is done (`QueueWaits`); a sleeper's channel is a busy buffer with the block it asks
for, or its own (`Channels`); a clean buffer equals the disk (`CleanIsSaved`); dirty implies
valid (`DirtyIsValid`). The shared channel is harmless because `wakeup` of a buffer finds in
`iderw` nobody but its holder. Processes do not wait for each other in a circle because each one
asks for a block of a lower level than those it holds (`Nest`, kept while it waits by
`WantsNext`): among processes that wait for buffers, one that waits for a block of the lowest
level waits for a process that holds it and so asks for nothing lower. `iderw`'s panic "nothing
to do" is unreachable. In the refinement, `bget` acquires, `bwrite` and `log_write` update,
`brelse` releases; a recycled buffer is clean, so its block can be read from the disk again; an
interrupt changes no block, unless its transfer has failed.

### Console and spinlocks

`ControlInv` determines, from where a CPU is, the locks it holds, `ncli`, the interrupt flag and
`intena` (`LocksHeld`, `Depth`, `FlagsKept`). For a process that was switched out, `FlagsKept`
ties the `intena` in `saved` to where it goes on, a sleep or a handler; for the scheduler it
says nothing of `intena`, which is whatever the last process has left, until `sti`. `Placed`
says which process a CPU runs, that no other CPU runs it, and that its state is RUNNING up to
`sched`, which a scheduler needs not to pick it twice. It implies that no acquire, release,
popcli or sched panics and that the locks are taken in one order. `RingInv` keeps r, w and e in
order and the edited line free of line ends; `SleepInv` says that there is no input from the
test of `consoleread` to its sleep, and none while it sleeps unless a wakeup is on its way. The
refinement of `LineInput` composes the three.

### Inodes and open files

`ReferencesExact` says that `ref` of every entry of the inode cache is the number of pointers to
it (current directories, open files, places of calls in progress), and `ref` of every open file
the number of its descriptors. The pointers of processes are counted as a table of processes and
places; a step changes one row of it (`OneRow`), so the sum changes by what that row gains or
loses (`PointersChange`). Every step that walks a path, opens or allocates is shown to gain at
most one pointer, with the `iget` that counts it (`GetStep`); every step that gives pointers up,
to lose those that `iput` gives back (`PutStep`). The two forms are proved to preserve the
invariant once and used for every action.

`FSInv` is `FileRefs` and, until a panic, `Body`: types; what a call has in its variables at
each of its places (`ProcessOK`); an open file has an inode exactly when it is in use
(`FilesOK`); the counts; the locks that a process keeps over a step (`LocksOK`); a valid entry
is in use and agrees with the disk (`CacheOK`), except between the moment when `iput` has freed
the inode and the moment when it leaves the entry (`Freed`); and an inode without links is in
use with a valid entry, or has just been allocated (`Coming`), or is `lost` or `leaked`
(`ReclaimOK`). The parts need each other. `iput` gives up `icache.lock` while it frees, and
`ialloc` may give the number to somebody else before `iput` has cleared the entry: that the new
owner then reads the inode again needs `CacheOK`, and this needs the counts, because an entry
may be recycled exactly when nobody points to it. `Reclaimed` needs that whoever drops the last
pointer sees the current link count, that is `CacheOK` again, and that the last pointer is not
dropped under a process that has the inode locked (`Polite`, `PointedTwice`): the owner of the
lock has a pointer of its own. Theorems: `FileSystemInvariant`, `ReferencesExactAlways`,
`ReclaimedAlways` and `CacheAgreesAlways`, which says what `iupdate` relies on: a cached inode
in use and the inode on the disk agree.

### Blocks and contents of files

`ContentInv` is about places: place k of file i is its k-th block, place MAXFILE its indirect
block. A place holds 0 or a data block, also when its number is read from an indirect block
(`PlacesHoldBlocks`); two places never hold the same block (`PlacesDiffer`), so that writing one
changes no other, nor an indirect block somebody else's numbers are read from; and the marked
blocks are the metadata and what the places hold (`MarkedIsHeld`). These three are one induction:
none is preserved without the others. A file that is being truncated has its places from `tot`
on only (`From`), which needs that whoever truncates has it locked and nobody has it open
(`CallOK`, `LockOK`). mkfs allocates by counting and never clears a block; `MkfsAlone` says that
what it has not counted is zero, so that its `iappend` and the kernel's `writei` are the same
step `MapStep`, for which the preservation of blocks and of bytes is proved once (`MapBlocks`,
`MapBytes`). `Bmap` shows that the operator `bmap` takes that form: balloc's first and second
block are different, unmarked and not metadata.

`FilesFlat` and `ChunksFlat` then say that every byte below the size, and every byte of a chunk
so far, is mapped and right; `writei` reaches the size of the file only when its chunk is written.
For `ChunkFits`, `LoggedIs` ties the logged blocks to the places between the first and the last
byte of the chunk: a chunk of n bytes touches one block more than it fills (`ChunkSpan`), and
(LOGSIZE - 4) / 2 blocks with the indirect block, the bitmap and the inode are at most
LOGSIZE - 1. `FreesMarkedBlocks` adds that bfree's panic is unreachable. `BlocksAccounted` needs
`RootEndsInside`: otherwise mkfs leaves a block of the root directory unmapped (see above).

### Memory

`OwnInv` names the holders of pages: the free list, each kernel stack, each address space, and
the address space that a call is working on. `HeldOnce` says that they are disjoint, `AllHeld`
that they have everything unless a page table could not be had. A step is a transfer between two
holders, and the lemmas about transfers are used for every action. That they stay disjoint through
a failure needs `OneChild` (two forks never fill one slot), `ProcOK` (which slots have a space and a
stack, and that a call's space is its own) and that what copyuvm has not yet reached is unmapped.

`FlatInv` says for each call how far it has got: `GrowOK` for allocuvm (pages up to `a` are mapped
and zero), `CopyOK` for copyuvm (pages below `a` are copied), `ExecOK` for exec (what is built has
no holes and one guard page), `SizeOK` and `WantOK` for what the process then has. It needs
`OwnInv`: a page of one process is written by no call of another because nobody else holds it.
The scan of deallocuvm is a recursive function over page numbers; that its defining equation has a
solution, and what it frees, is shown by a least counterexample in place of induction (`LeastOf`).

### Only model-checked

* `SleepersWake`, `KilledExits`, `RunnableRuns`, `EndOfFile`, `ShellGoesOn`: liveness under
  fairness is not for this prover.
* `FileSystem`: `CountsExact`, `NothingDangles`, `NoCircularWait`. Link counts are sums over the
  entries of all directories, and what a name leads to, and the order of locks, need that the
  directories form a tree; no proofs yet.
* `Shell`: parser and grammar are recursive operators, for which the prover has no induction.
* That callers of `bread` nest as `Nest` says, and how many blocks calls write (`OpBlocks`), are
  inputs of `BufferCache` and `Log`, read from the callers; `ChunkFits` shows for `filewrite`
  that a chunk fits into an empty log.
* `SpaceIsThere`, for calls that write less than MAXOPBLOCKS blocks.

## 5. Plan

To prove: `CountsExact` of `FileSystem` (links counted over the directories as pointers are over the
processes), then `NothingDangles`, which rests on it, and `NoCircularWait`, which needs that no
directory is below itself.

Models to add: `ticks` and the CPU time accounting, the allocator of `umalloc.c`, `skipelem`,
`getproc` as an operator over the table of `Proc`.

## 6. Not modelled

Boot code, interrupt controllers and device registers, page table bits, formatting and the
kernel's string functions run before or below everything that is concurrent here and keep no
state a property could be about. The shell's `nulterminate` disappears with the strings. The
test programs (`usertests.c`, `p2test.c`, `p5-test.c`, `forktest.c`, ...) and the small
utilities only make system calls; the calls are modelled, and programs appear in `Shell` as
readers of their input. The state lists of `proc.c:620-709` refer to fields that no struct
declares and compile in no build. Memory ordering is taken as x86 provides it under spinlocks.
