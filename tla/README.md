# A TLA+ model of the system in `src/solution`

The program is xv6 (x86, C) with a stride scheduler added beside the original
round-robin one. `SCHED_MACRO` in the Makefile chooses the scheduler (default
`RR`) and `CPUS` the number of processors (default 1). `src/README.md` is the
text of the stride-scheduling project. Line numbers below are those of
`src/solution`.

## 1. The system

| part | state | operations | interacts with |
|---|---|---|---|
| process table (`proc.c`, `sysproc.c`, `trap.c`) | `ptable`, `nextpid`, `ticks` | fork, exit, wait, kill, sleep(n), sleep/wakeup | scheduler, timer, everyone who sleeps |
| round-robin scheduler (`proc.c`) | `c->proc`, the loop's `p` | sched_RR, sched, yield, forkret | hands `ptable.lock` across `swtch` |
| stride scheduler (`proc.c`) | a heap of *copies* of table entries | push, getmin, sched_stride; getpinfo and settickets are stubs | process table |
| spinlocks (`spinlock.c`) | `locked`, `cpu`; per cpu `ncli`, `intena` | acquire, release, pushcli, popcli | interrupt handlers, sched |
| buffer cache, sleep locks, disk driver (`bio.c`, `sleeplock.c`, `ide.c`) | LRU list, buffers, `idequeue` | bread, bwrite, brelse, iderw, ideintr | log, inodes |
| log (`log.c`) | `log.lh`, `outstanding`, `committing`; header and log blocks on disk | begin_op, log_write, end_op, commit, recovery | buffer cache |
| inodes and names (`fs.c`, `sysfile.c`) | inode cache, inodes and directories on disk | iget, iput, namex, create, open, link, unlink, mkdir, chdir | log, file table |
| contents of files (`fs.c`, `file.c`, `mkfs.c`) | bitmap, blocks, `addrs` | balloc, bmap, itrunc, readi, writei, filewrite | log |
| open files (`file.c`, `sysfile.c`) | `ftable`, `ofile[]` | filealloc, filedup, fileclose, dup, pipe, fork, exit | pipes, inodes |
| pipes (`pipe.c`) | ring buffer, open flags | pipewrite, piperead, pipeclose | sleep, wakeup, kill |
| console (`console.c`, `kbd.c`) | input ring, cursor, keyboard modifiers | consoleintr, consoleread, cgaputc, kbdgetc | keyboard interrupt |
| memory (`kalloc.c`, `vm.c`, `exec.c`) | free pages, page tables | kalloc, kfree, allocuvm, deallocuvm, copyuvm, freevm, growproc, exec | fork, exit, wait |
| access to user memory (`syscall.c`, `vm.c`, `exec.c`) | – | fetchint, argptr, fetchstr, copyout, exec's argument loop | every system call |
| user level (`umalloc.c`, `sh.c`, `strideheap.c`) | free list; command tree, processes and descriptors of a line; a heap | malloc, free; parser, runcmd; push, pop, getsorted | sbrk; fork, wait, pipe, close, dup |

What is hard about it: a lock taken by one thread and released by another
(`ptable.lock`); wakeups that can be lost between a test and a sleep; counts
read under a lock and used after it (`iput`); flags read without the lock that
protects them; interrupt handlers that take the locks of the code they
interrupt; a crash at any block write; a failure in the middle of fork, exec,
pipe or a pipeline; counters that wrap; copies of process entries that go stale.
`PROJECT.json` lists these at their lines under "hazards", with the properties
that cover them.

## 2. Modules

| module | models | a step is |
|---|---|---|
| `Proc` | process table, RR scheduler, timer | a critical section that neither switches stacks nor is split by an unlocked read |
| `Locks` | spinlocks, interrupt state, the paths of the RR kernel through all its spinlocks | one lock operation or switch |
| `Heap` / `Stride` | the heap of `proc.c` 399-443 / the loop of sched_stride on one entry | one exchange / one step of the loop |
| `Disk` | buffer cache, sleep locks, disk queue and controller | a section under `bcache.lock`, a sleep lock or `idelock` |
| `Log` | `log.c` and what it needs of the cache, with crashes | a section under `log.lock`, or one block write |
| `Inode` | inode cache, path lookup, calls on names, with crashes | a stretch between two places where a process can wait or be seen |
| `FileData` | allocation, bmap, readi, writei, filewrite on an image made by mkfs | one block of a loop |
| `Files` | file table, descriptors, pipealloc and pipeclose | a stretch under `ftable.lock` or a pipe's lock |
| `Pipe` | pipewrite, piperead, close, kill | one byte written; one copy loop read |
| `Console` | input ring, readers, cursor | one turn of a loop under `cons.lock` |
| `Kbd` | the modifiers of kbdgetc, and the keyboard | one scancode |
| `Mem` | page allocator, page tables, fork, exec, sbrk, exit, wait as users of both | one page of a loop |
| `UserMem` | argument checks, copyout, exec's argument strings | one byte of a string, one page of a copy |
| `Umalloc`, `StrideHeap` | the sequential libraries | one call |
| `ShParse` | the shell's parser, as recursive operators | a line is typed, then parsed |
| `Shell` (extends `Files`) | runcmd, fork1, main and the processes of a line | one system call |

What a component promises is a small module of its own, which the component is
shown to implement:

| abstract module | promise | implemented by |
|---|---|---|
| `BlockStore` | one content per block, changed only by its present owner | `Disk` (`IsBlockStore`) |
| `AtomicDisk` | operations become durable together or not at all, whatever crashes | `Log` (`AtomicCommit`) |
| `ByteFile` | a file is an array of bytes, of which a write changes exactly those it is for | `FileData` (`IsByteFile`) |
| `Fifo` | a bounded queue | `Pipe` (`PipeIsFifo`) |
| `LineInput` | characters are edited in the open line and read, in order, from closed ones | `Console` (`IsLineInput`) |

`ProcProofs`, `LocksProofs`, `LogProofs`, `PipeProofs`, `ConsoleProofs`,
`UserMemProofs` and `HeapProofs` hold theorems about the module they are named
after; `Basics` holds lemmas on sequences, and on division by numbers that are not
numerals. `MC*` modules instantiate
the others for TLC. Some of them are sums: a variable `part` picks one component
in the initial state, and the others stay as they started.

A few definitions stand beside others as wrong versions of them (`NoWakeup`
beside `WokenLock`, `NoPin` beside `Pin`): "mutants" in `PROJECT.json` names them
with the property that tells them apart. No specification uses them.

### Correspondence

*Proc.* A slot is its own sleep channel, `TICKS` is the channel `&ticks`.
`pc[p]` says where process p's kernel thread is; `intr[p]` whether a timer
interrupt was taken there (`trap`) and led to `yield` (`yielded`). `left[p]` is
`n - (ticks - ticks0)` in `sys_sleep`, cut at 0. Memory allocation may fail at any
time (`ForkFail`). A kill reaches the first slot whose pid field matches, in
whatever state it is. Preemption at label `exit`, which the code reached from
`trap` would not allow, is behaviour the model adds; it weakens no safety
property.

*Locks.* A kernel path is its sequence of lock operations and switches, from one
moment without locks to the next; a system call is a series of such paths, in any
order (`Calls`; `Made` says which of them a thread's program leads to). Loops are
made once. A thread that is not on a cpu can be chosen whenever the scheduler scans,
which covers every order of wakeups. `cprintf` is a section of `cons.lock`, including
the calls made under `ptable.lock`. `exit` closes files with any of `FileCalls`
before it takes `ptable.lock` for good, and a killed process gets there from its
trap, with interrupts off (`Killed`). A disk interrupt goes to the last cpu, timer
tick and keyboard to cpu 0, as `ideinit` and `trap` have it.

*Disk.* `lru` is the list from `head.next` on. `bread` and `bwrite` are the same
append to `idequeue` followed by sleep; the controller executes the command that
`idestart` gave it, in its own time, and interrupts. `kill` wakes a sleeper at any
time, and it goes back to its test. `LogWrite` is what log.c does to a buffer
(B_DIRTY without a write), bounded by `MaxPinned`. A process whose bget finds no
buffer stops at `nobuffers`, one that fails a check of bwrite, brelse or iderw at
`panic`.

*Log.* `lh` is the first `log.lh.n` entries of `log.lh.block`. A disk write is
atomic. A crash is possible in every state, recovery included. `log_write`'s
two checks, made before `log.lock` is taken, are in `Modify`; its append and pin
are `LogWrite`. The buffer cache is what the log needs of it: a buffer that is
neither referenced nor dirty may be dropped at any time.

*Inode.* The disk is what the log shows to running operations. Each call is
followed through namex, component by component, and every `iput` through its
three sections (the read of `ref`, the freeing, the decrement). A directory is a
function from names to inode numbers, with `.` and `..` as its other links.
An open file is the pointer to its inode. `astray` is a history variable: it
becomes true when `..` of a removed directory is looked up and the parent has no
link left either.

*FileData.* A byte and a block number both fill one word. The image is made by
mkfs's own iappend and balloc, which are modelled too; `FileDataAssumption`
excludes a root directory whose size is a multiple of BSIZE (see section 5).
`unsaved` are inodes whose addresses in memory are newer than on disk. In `ByteFile`
a write announces where it will end, may store its bytes in any order, and when it
is done has stored all of them and nothing else.

*Files, Shell.* `fileclose` is two steps, the count and, outside the lock, the
close of its copy `ff`. A shell process carries the calls it has still to make;
fork fails when there is no process left, pipe when there is no struct file, page or
descriptor.

*Pipe.* A byte is named by its writer and place, so reordering shows. The
counters count modulo `WRAP` as the `uint`s of the code do modulo 2^32. `kill`
may come at any time, also between the test of `killed` and `sleep`; sleeping
and being woken are atomic with respect to `p->lock`, because `sleep` takes
`ptable.lock` first (`Proc` shows that hand-over).

*Console, Kbd.* The ring's indices wrap at `WRAP`, a multiple of INPUT_BUF as 2^32 is of
128. Characters are those the code tells apart. Readers take and give up
`cons.lock` explicitly. The keyboard (external) sends a code when a key goes down, again
while it is held, and the code + 128 when it comes up. A caps lock that is held
therefore toggles again and again; `CapsFollows` counts its codes.

*Mem, UserMem.* `free[g]` is how often page g is on the free list, so that a
double free shows. Sizes are in units of which PGSIZE make a page and need not
be aligned. `UserMem` computes addresses modulo `WRAP`. Above the new image
`copyout` may fail or go on (`CopyAstray`): uva2ka does not test what walkpgdir
returns, and where there is no page table takes the word at address 0, the running
program's, for an entry.

*Umalloc, StrideHeap, ShParse.* Sequential code against a reference: blocks that
tile what sbrk gave, a sorted bag, the grammar of sh.c's functions.

*Heap, Stride.* `Heap` starts from any array, since `heap` is an uninitialised
local. `Stride` needs one table entry: until the first process comes back from
`forkret` there is no other, and the disagreement with `src/README.md`
shows before that. `at = "lost"` means that the scheduler switched to a saved
context which the kernel stack no longer holds.

## 3. Runs

| run | instance | checks |
|---|---|---|
| `proc` | 2 cpus, 3 slots, pids to 3, sleep of 0 or 1 tick, kill of 0, 1, 3 | `TypeOK`, `OneStack`, `NoMissedExit`, `NoMissedTick`, `LiveParent`, `NoSchedPanic`, `ZombieUntilReaped` |
| `proc_live` | 1 cpu, 3 slots, kill of 2, fairness | `RunnableRuns`, `KilledExits`, `OrphanReaped` |
| `locks` | 2 cpus, 2 threads, 1 pipe, calls of each shape | `NoLockPanic`, `InterruptDiscipline`, `OnlyOneCircle` |
| `storage` | `Log`: 2 operations, 2 blocks, 2 values, LOGSIZE 4. `Disk`: 2 processes, 3 buffers, 4 blocks, up to 2 pinned | `QuietIsDurable`, `Reserved`, `AtomicCommit`; `CacheSound`, `SleepersWaitForSomething`, `IsBlockStore` |
| `inode` | 2 processes, 3 inodes and cache entries, names a and b, 8 calls, crashes | `IcacheSound`, `LinksCoverNames`, `OpenIsAllocated`, `NoFsPanic` |
| `units` | `Console`: 2 readers, ring of 2; 7 other parts on instances of their own | `SleepersHaveNothing`, `IsLineInput`, `HeapSound`, `ModifiersFollowKeys`, `UserMemSound`, `PagesSound`, `MallocSound`, `StrideHeapSound`, `ParserSound` |
| `files` | `Pipe`: 1 reader, 2 writers, 2 bytes, counters mod 4. `FileData`: 2 processes, 2 files, 6 blocks. `Files`: 2 processes, 3 struct files, 2 descriptors, 1 pipe | `PipeIsFifo`, `SleepersJustified`; `BlocksSound`, `IsByteFile`; `RefsExact` |
| `waits` | `Shell`: 4 processes, the lines `a\|b`, `a\|b\|c`, `a & ; c > f`. `Pipe`: 1 reader, 1 writer. `Log`: 3 operations. Fairness | `ShellSound`, `LinesReturn`, `WaitsEnd` |
| `stride_sleep` | 2 ticks | violation of `SleeperNotChosen` |
| `log_full` | 2 operations, 4 blocks | violation of `NoLogPanic` |
| `inode_leak` | 2 processes, one name | violation of `UnlinkedIsFreed` |
| `inode_deadlock` | 2 processes, one name | violation of `NoCircularWait` |

Where a component has several invariants that make one promise together, the MC
module conjoins them under one name (`PagesSound` is `EachPageOnce`,
`SizeIsMapped`, `NoVmPanic` and the types of `Mem`); the component's module has
each of them with its own comment.

### Bounds

- *Proc*: three slots are init, a process and its child, so that a process can
  die before its child and init inherit it. `MaxPid` stops fork once every slot
  has been used, and slots given back by `ForkFail` or `wait` are used again
  below it. One tick of sleep is enough for the race between test, sleep and
  tick. That init sleeps in `wait` with another child while it inherits a zombie
  needs a fourth slot; there `NoMissedExit` rests on the proof, which is for any
  table size.
- *Locks*: two threads are enough for one to resume after another with a
  different interrupt state. `Programs` has a call of each shape (a sleep, with a
  lock of its own and with `ptable.lock`; a wakeup; exit); the other calls have these
  shapes, or several of them in a row, with other locks, and the proofs are for all.
- *Log*: MAXOPBLOCKS 2 and LOGSIZE 4 let two operations run at once, and make
  one that starts with blocks already logged wait. Two blocks give transactions
  of one and of two blocks, absorption, and every crash point before, between
  and after their writes. `OpBlocks` bounds what an operation writes, at the
  MAXOPBLOCKS that operations are meant to keep to. NLOG equals LOGSIZE, as
  `mkfs.c` 25 has it. `waits` has three operations, so that one sleeps while two run.
- *Disk*: three buffers, two of which may be pinned while two processes want one,
  so that bget runs out of them; a fourth block forces recycling.
- *Inode*: three inodes are the root, a directory and a file. `TreeCalls` has
  creation, lookup, removal, linking and chdir in the root and in the directory;
  the two violations need one directory only. As many cache entries as inodes means
  that iget's "no inodes", which is modelled (`igets`), is not reached; a fourth inode
  is beyond the run's time.
- *FileData*: one direct block and BSIZE 2 reach the indirect block within a
  write of three bytes, and six blocks run out. mkfs makes a root of one byte and
  a file of three, so that its own indirect block is there at the start.
- *Files*: two processes filling two descriptors each, three struct files and the
  one page exhaust each of them in some state. *Shell*: four processes are one too few
  for `a|b|c`, so that fork fails in the middle of it.
- *Pipe*: writes overfill a pipe of 2; the counters wrap after 4.
- *Console*: a ring of 2 fills without an end of line; indices wrap after 4.
- *Mem*: twelve pages are fewer than two processes that fork, exec and grow
  ask for, so every allocation fails in some state. *UserMem*: three pages, with
  every address, and lengths that fit in a page, cross one, and wrap; of the zero
  bytes after a string's start the first and one other; arguments longer than the
  image make sp wrap.
- *Kbd*, *Umalloc*, *StrideHeap*, *ShParse*: both keys of each modifier, eleven
  units, three levels of heap, every line of up to five characters (`<` is left
  out, since the parser treats it as it treats `>`).
- Symmetry is used where the members of a set are interchangeable, and never
  with a liveness property. Buffers are: the order in which `binit` links them is
  only a choice of their names.
- A view (`Live` in `MCProc`, `MCLocks`, `MCStorage`) leaves out values that are
  written before they are next read: the scheduler's place in the table outside its
  loop, the ticks left outside `sys_sleep`, `intena` while `ncli` is 0, log blocks
  that no header names. No property reads them. Views are not used with a liveness
  property either.

Deadlock checking is off where the system may stop: programs need not call
anything, cpus may spin for ever (`locks`), processes may wait for each other
(`inode`, whose deadlock is the subject of a run of its own), and `Stride` ends
in a lost context.

### Fairness

- *Proc*: a cpu executes code with interrupts off without stopping (weak
  fairness). A timer interrupt stays pending until interrupts are on (strong
  fairness). A quantum is long enough for some preemptible step of the process
  that runs (strong fairness), or preemption alone could keep it from ever
  moving. init's program calls `wait` for ever (`init.c` 22-36). Nothing is
  assumed of other programs: they may loop in user mode. `proc_live` has one
  cpu, because a spinlock promises no order among cpus.
- *Log*: the disk completes its writes; an operation makes finitely many, so it
  reaches `end_op` (strong fairness, because log_write and commits of others come
  between).
- *Pipe*: a process inside a call keeps executing; calls, closes and kills are
  up to the programs.
- *Shell*: every process that can run does (`RunnableRuns` is the reason), and
  init waits for ever.

### What the violations show

1. `log_full`: begin_op reserves LOGSIZE blocks (`log.c` 132), the area made by
   `mkfs` has LOGSIZE-1 for data, and log_write panics there (218). It takes
   operations of MAXOPBLOCKS blocks; with FSSIZE 1000, and so one bitmap block, the
   system calls write fewer and fall short of it.
2. `inode_leak`: `iput` reads `ip->ref` (`fs.c` 337) and decrements it later
   (350). Two processes that drop the last two references to a removed file both
   read 2, and the inode is never freed.
3. `inode_deadlock`: create gives up its directory with the new inode locked, and
   `iput` takes the directory's lock again (`sysfile.c` 280, `fs.c` 334), while
   unlink goes from directory to inode (`sysfile.c` 209).
4. `stride_sleep`: `sched_stride` runs processes through copies of their entries
   (`proc.c` 477, 490), so that a process that sleeps is still RUNNABLE in the
   table. (The code also never does the `pass += stride` of `src/README.md` 79.)

Some behaviours are stated inside properties that pass. `OnlyOneCircle` says that
the only circle of cpus spinning for each other is `cprintf` under `ptable.lock`
in the scheduler (`proc.c` 376) against `wakeup` under `cons.lock` in the keyboard
handler. `SleepersJustified` excepts readers once a writer was killed, because a
killed writer leaves without the wakeup at the end (`pipe.c` 86-88). `NoFsPanic` and
`LinksCoverNames` hold until somebody goes up from a removed directory to a parent
that is removed too: `..` stopped being a link when the directory was removed
(`sysfile.c` 221-224), the parent's inode is freed and may be reused, and ilock
panics on it (`fs.c` 310) or finds a directory that create has not filled in yet.
`CacheSound` says that bget panics only when as many buffers are pinned and in use as
there are, not that this cannot happen (`NBUF` equals `LOGSIZE`). What `waits` shows of
`begin_op` is that a sleeper is woken to test again, not that it gets in: there is no
queue.

## 4. Proofs

The theorems hold for every value of the constants that satisfies the named
assumption of the component; the MC modules evaluate those assumptions on the
instances. Each safety theorem has the shape Init => IInv, IInv /\ [Next]_vars
=> IInv', IInv => property, with one lemma per action or kind of action.

| module | theorems | assumes |
|---|---|---|
| `ProcProofs` | `TypeOK`, `OneStack`, `NoMissedExit`, `NoMissedTick`, `LiveParent`, `NoSchedPanic`, `ZombieUntilReaped` | the boot cpu is a cpu, the table has a slot |
| `LocksProofs` | `LocksNeverPanic`: `NoLockPanic`. `InterruptsFollowLocks`: `InterruptDiscipline`. `DeadlocksAreOfOneKind`: `OnlyOneCircle` | the boot cpu and the disk's cpu are cpus; cpus, threads and the null values are told apart; the locks are finitely many, and those of pipes and sleep locks are none of the others |
| `LogProofs` | `LogIsSound`: `QuietIsDurable`, `CommitAlone`, `SleeperHasWaker`. `LogHasRoom`: `Reserved`. `ImplementsAtomicDisk`: `AtomicCommit` | 0 < MAXOPBLOCKS <= LOGSIZE, operations keep to MAXOPBLOCKS blocks, the null values are none of the blocks or contents |
| `PipeProofs` | `NoLostWakeup`: `SleepersJustified`. `ImplementsFifo`: `PipeIsFifo` | PIPESIZE > 0 divides WRAP and is less; nobody both reads and writes |
| `ConsoleProofs` | `RingInOrder`: `InOrder`, `NeverStuck`, `SleepersHaveNothing`. `EofEndsOneRead`, `CursorStays`. `ImplementsLineInput`: `IsLineInput` | INPUT_BUF > 0 divides WRAP and is less; the screen has a cell |
| `UserMemProofs` | `ArgumentsInside`: `AcceptedInside`, `StringInside`. `ArgumentsOnStack`: `ArgsOnStack` | WRAP is at least twice KERNBASE; a word fits in a page; exec's strings were in some process's memory |
| `HeapProofs` | `HeapTypeOK`, `GetminCorrect`: `GetminIsLeast` | the keys are integers |

*Proc.* None of its properties is inductive. `IInv` adds `OnCpu` (what a process on
a cpu may be doing, and which locks its cpu holds then, which carries
`ptable.lock` across `swtch`), `OffCpu` (where a process that is not on a cpu was
left), `Forks` (a slot being filled in by fork is EMBRYO and has one owner, which
is why the unlocked writes of fork are harmless), `InitStays` and `Ticking`.
`LocalStep` proves once that a step touching one slot and one cpu's locks keeps
the invariant; exit, reaping, fork, kill, the tick and the switch have lemmas of
their own.

*Locks.* The locks that a path of kernel code holds at a place can be read off
the rest of it: those it releases, or hands over in a switch, before it acquires
them (`Owes`). That each path of the kernel (the calls, exit, yield, the handlers,
the scheduler) finds the locks each of its steps needs, and takes them in the order
`Order`, is proved path by path from how it is put together (`CallsLead`,
`HandlersLead`, `SchedulerLeads`). `IInv` then says that a cpu holds what the context it
runs owes, that `ncli` counts those locks, that `IF` and `intena` follow them
(`Follows`), that a context no cpu runs was left owing ptable.lock alone and keeps the
flag to restore (`OffOk`), and that no context runs on two cpus. `OneMoves` proves
once that a step of one cpu leaves the others alone. For `OnlyOneCircle`: a cpu that
spins holds only locks that come before the one it wants (`WaitsInOrder`), and in
`Order` only ptable.lock and cons.lock come before each other. Whatever subset of the
calls `Made` gives a thread, the theorems hold.

*Log.* `IInv` says that `outstanding` counts the operations that run (`Counted`), each
within its blocks (`WithinOp`); that the header on disk, the log area and the
homes are in the state the position in commit or recovery implies (`Phase`,
`Copied`); and that what a running system reads is what is logged, pinned and
cached (`Coherent`). `Reserved` counts the blocks still allowed as a set of pairs, so
that no sum over a set is needed. The refinement maps durable state to what
recovery would make of the disk, so a crash leaves it alone, and only the write
of the header moves it.

*Pipe.* `IInv` says who holds `p->lock` where, and what a sleeper's last test saw. For
the queue, `RingInv` is that cells from nread on hold what was written; that two
places less than PIPESIZE apart have different cells, also across the wrap, is
`SameCell` of `Basics`.

*Console.* The same argument with three indices; `CursorStays` needs only the
arithmetic of cgaputc, for any screen.

*UserMem.* That ranges do not wrap rests on sizes below KERNBASE; that exec's
strings stay on one page rests on copyout stopping at the guard page, and on sp being
aligned and moving down by at most what the page holds. When sp wraps, the copy starts
above the image and may go astray there, but it comes round through the image page by
page, and meets the guard page before its end (`Under`, `UnderWay`).

*Heap.* The root precedes every entry in use other than the one `push` is moving.

Only model-checked: everything under fairness (`proc_live`, `waits`: liveness and
ENABLED are outside the prover); `ParserSound`, whose parser is made of RECURSIVE
operators, as are parts of `Umalloc` and `StrideHeap`; what loops compute over data of
any length (`FileData`), which needs induction with an operator as a parameter; `IsBlockStore` and the invariants of `Disk`, whose list operations are
of that kind; `Inode`, `Files`, `Mem` and `Kbd`, and `HeapOrder`.

## 5. Not modelled

- Boot code, device registers, interrupt controllers, multiprocessor tables, page
  directory contents of the kernel, segment registers: straight-line start-up
  code; the models start from the state it leaves.
- The user programs other than the shell, the tests, `printf` and `ulib`:
  sequential code without shared state. `usertests.c` was read for what it
  expects.
- Formatting in `cprintf`, the serial port, `memide.c`, the dispatch table of
  system calls, `getcallerpcs`, `stati`: they change no state a property is about.
- exec's table of argument pointers and the contents of ELF headers; the
  shell's `cd` and its reading of a line; kbd.h's character maps (`kbd.c` 36-43).
- Panics that test a caller's arguments: those of loaduvm, clearpteu, freevm,
  switchuvm and kfree's range. `Mem` has those of vm.c that depend on what was mapped
  before: "remap" and copyuvm's two, taken as one. malloc's conversion of bytes to
  units: `Umalloc` counts in units.
- Weak memory: the barriers in `acquire` and `release` are taken to work.

Hazards that were met and have no property, because the code has no handling to
check or no document says what should happen:

- a disk that reports an error: `ideintr` still sets B_VALID (`ide.c` 118);
- a crash while a removed file is open leaves its inode allocated (`fs.c` 339),
  and nothing at boot looks for it;
- a file created in a working directory that was removed is lost (`sysfile.c` 247);
- `mkfs` adds an unallocated block to a root directory whose size is a multiple of
  BSIZE (`mkfs.c` 161);
- `sleep` of a negative number compares unsigned (`sysproc.c` 69), and malloc's
  rounding overflows near 2^32 (`umalloc.c` 69);
- log_write's room check is made before the lock is taken (`log.c` 218), which
  matters only in a log that is already full;
- the stride build on several cpus: `getticks` takes `tickslock` under
  `ptable.lock` (`proc.c` 498), and the table is read without its lock (475).
