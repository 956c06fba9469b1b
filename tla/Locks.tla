------------------------------- MODULE Locks -------------------------------
(***************************************************************************)
(* Spinlocks and interrupts (spinlock.c): every cpu runs its scheduler or  *)
(* a process's kernel thread, and interrupt handlers on top of either.  A  *)
(* piece of kernel code is modelled by the sequence of lock operations     *)
(* and context switches it makes; acquire, release, pushcli, popcli and    *)
(* sched() act on those as the code does.                                  *)
(*                                                                         *)
(* Paths are those of the round-robin build, with the cprintf calls that   *)
(* it makes under ptable.lock.                                             *)
(***************************************************************************)
EXTENDS Integers, Sequences, FiniteSets

CONSTANTS
  CPUS,        \* each names its scheduler's context as well
  BootCpu,     \* takes the timer tick and the keyboard interrupt
  IdeCpu,      \* takes the disk interrupt
  Threads,     \* kernel threads of processes
  Pipes,       \* the lock of each pipe
  SleepLocks,  \* the spinlock lk of each sleep lock: of a buffer or an inode
  Made,        \* per thread, the calls that its program leads to
  NoCpu, NoLock

(* the locks of which there is one *)
Single == {"ptable", "cons", "tickslock", "idelock", "kmem", "log", "bcache", "icache", "ftable"}
LockNames == Single \cup Pipes \cup SleepLocks
Contexts == CPUS \cup Threads

ASSUME CpuAssumption ==
  /\ BootCpu \in CPUS /\ IdeCpu \in CPUS
  /\ NoCpu \notin CPUS /\ CPUS \cap Threads = {} /\ NoLock \notin LockNames
  /\ IsFiniteSet(LockNames) /\ Single \cap (Pipes \cup SleepLocks) = {}

-----------------------------------------------------------------------------
(* Lock operations of the code *)

acq(l) == <<"acq", l>>
rel(l) == <<"rel", l>>
sched == <<"sched">>       \* in a process: switch to the cpu's scheduler
zombie == <<"zombie">>     \* the sched() of exit, which does not come back
closing == <<"closing">>   \* exit closes a file, or has closed them all
swtch == <<"swtch">>       \* in the scheduler: switch to a process
scan == <<"scan">>         \* the scheduler's search of the table
sti == <<"sti">>
iret == <<"iret">>
Section(l) == <<acq(l), rel(l)>>
Under(l, body) == <<acq(l)>> \o body \o <<rel(l)>>

cprintf == Section("cons")
wakeup == Section("ptable")
(* sleep(chan, lk), called with lk held *)
sleep(lk) ==
  IF lk = "ptable" THEN <<sched>> ELSE <<acq("ptable"), rel(lk), sched, rel("ptable"), acq(lk)>>
yield == cprintf \o <<acq("ptable")>> \o cprintf \o <<sched, rel("ptable")>>

forkret == <<rel("ptable"), iret>>

(* What system calls do from one moment without locks to the next, with each loop
   made once.  A call is a series of these. *)
allocproc == Section("ptable")   \* also fork and kill
kalloc == Section("kmem")
bget == Section("bcache")
iget == Section("icache")
filealloc == Section("ftable")
log_write == Section("log")
holdingsleep(lk) == Section(lk)
sys_uptime == Section("tickslock")
sys_sleep == Under("tickslock", sleep("tickslock"))
consoleread == Under("cons", sleep("cons"))
iderw == Under("idelock", sleep("idelock"))
begin_op == Under("log", sleep("log"))
end_op == Under("log", wakeup)
acquiresleep(lk) == Under(lk, sleep(lk))
releasesleep(lk) == Under(lk, wakeup)
pipewrite(p) == Under(p, wakeup \o sleep(p) \o wakeup)
piperead(p) == Under(p, sleep(p) \o wakeup)
pipeclose(p) == Under(p, wakeup)
wait == Under("ptable", sleep("ptable") \o kalloc)
exit == <<closing>>
die == <<acq("ptable"), zombie>>

(* those that closing a file and dropping the current directory are made of *)
FileCalls ==
  {kalloc, bget, iget, filealloc, log_write, iderw, begin_op, end_op}
    \cup {pipeclose(p) : p \in Pipes}
    \cup UNION {{holdingsleep(l), acquiresleep(l), releasesleep(l)} : l \in SleepLocks}
Calls ==
  FileCalls \cup {allocproc, sys_uptime, sys_sleep, consoleread, cprintf, wait, exit}
    \cup UNION {{pipewrite(p), piperead(p)} : p \in Pipes}

(* interrupt handlers *)
TickUnderPtable == Under("ptable", Section("tickslock"))
tick == Under("tickslock", wakeup)
consoleintr == Under("cons", wakeup)
procdump == Section("cons") \o cprintf   \* ^P: printed after cons.lock is released
ideintr == Under("idelock", wakeup)
fault == cprintf                          \* and an interrupt nobody asked for

(* trap()'s timer case, in a process or in the scheduler *)
Yielding == cprintf \o yield
Timer(c, inProcess) ==
  (IF c = BootCpu THEN tick ELSE << >>) \o (IF inProcess THEN Yielding ELSE << >>)

Handlers(c, inProcess) ==
  {Timer(c, inProcess), fault}
    \cup (IF c = BootCpu THEN {consoleintr, procdump} ELSE {})
    \cup (IF c = IdeCpu THEN {ideintr} ELSE {})

(* sched_RR: one round of its outer loop, up to the search of the table; what
   follows a RUNNABLE process found, and none found *)
SchedStart == <<sti, acq("ptable"), scan>>
SchedFound == cprintf \o <<swtch>> \o cprintf \o <<scan>>
SchedNone == <<rel("ptable")>>

-----------------------------------------------------------------------------
VARIABLES
  holder,              \* lk->locked and lk->cpu
  ncli, intena, IF_,   \* per cpu: depth of pushcli, saved and current FL_IF
  spin,                \* the lock a cpu is spinning for
  run,                 \* the context a cpu executes
  todo,                \* per context: what is left of its current path
  inirq, irq,          \* is it inside a handler, and what is left of that
  saved,               \* sched()'s local intena
  panic

cpuvars == <<ncli, intena, IF_, spin, run>>
ctxvars == <<todo, inirq, irq, saved>>
vars == <<holder, cpuvars, ctxvars, panic>>

Steps == {sti, scan, swtch, sched, zombie, closing, iret}
           \cup {acq(l) : l \in LockNames} \cup {rel(l) : l \in LockNames}

TypeOK ==
  /\ holder \in [LockNames -> CPUS \cup {NoCpu}]
  /\ ncli \in [CPUS -> Nat]
  /\ intena \in [CPUS -> BOOLEAN] /\ IF_ \in [CPUS -> BOOLEAN]
  /\ spin \in [CPUS -> LockNames \cup {NoLock}]
  /\ run \in [CPUS -> Contexts]
  /\ todo \in [Contexts -> Seq(Steps)] /\ irq \in [Contexts -> Seq(Steps)]
  /\ inirq \in [Contexts -> BOOLEAN] /\ saved \in [Contexts -> BOOLEAN]
  /\ panic \in BOOLEAN

Init ==
  /\ holder = [l \in LockNames |-> NoCpu]
  /\ ncli = [c \in CPUS |-> 0]
  /\ intena = [c \in CPUS |-> FALSE]
  /\ IF_ = [c \in CPUS |-> FALSE]
  /\ spin = [c \in CPUS |-> NoLock]
  /\ run = [c \in CPUS |-> c]
  /\ todo = [x \in Contexts |-> IF x \in CPUS THEN << >> ELSE forkret]
  /\ inirq = [x \in Contexts |-> FALSE]
  /\ irq = [x \in Contexts |-> << >>]
  /\ saved = [x \in Contexts |-> FALSE]
  /\ panic = FALSE

-----------------------------------------------------------------------------
Path(x) == IF inirq[x] THEN irq[x] ELSE todo[x]

(* cpu c is about to do step s *)
At(c, s) == ~panic /\ spin[c] = NoLock /\ Path(run[c]) # << >> /\ Head(Path(run[c])) = s

Advance(x) ==
  IF inirq[x]
  THEN irq' = [irq EXCEPT ![x] = Tail(@)] /\ UNCHANGED todo
  ELSE todo' = [todo EXCEPT ![x] = Tail(@)] /\ UNCHANGED irq

InnerIntena(c) == IF_[c]
PushedIntena(c) == IF ncli[c] = 0 THEN IF_[c] ELSE intena[c]

(* acquire: pushcli, the check that this cpu does not hold lk, then spin *)
AcquireStart(c, l) ==
  /\ At(c, acq(l))
  /\ IF_' = [IF_ EXCEPT ![c] = FALSE]
  /\ intena' = [intena EXCEPT ![c] = PushedIntena(c)]
  /\ ncli' = [ncli EXCEPT ![c] = @ + 1]
  /\ IF holder[l] = c
     THEN panic' = TRUE /\ UNCHANGED spin
     ELSE spin' = [spin EXCEPT ![c] = l] /\ UNCHANGED panic
  /\ UNCHANGED <<holder, run, ctxvars>>

(* the xchg finds the lock free *)
Acquire(c, l) ==
  /\ ~panic /\ spin[c] = l /\ holder[l] = NoCpu
  /\ holder' = [holder EXCEPT ![l] = c]
  /\ spin' = [spin EXCEPT ![c] = NoLock]
  /\ Advance(run[c])
  /\ UNCHANGED <<ncli, intena, IF_, run, inirq, saved, panic>>

(* popcli turns interrupts on when the outermost pushcli is undone *)
StiAtOnce(c) == intena[c]
PopsToSti(c) == ncli[c] = 1 /\ intena[c]
Popped(c) == ncli[c] - 1

(* release, with its check and popcli's *)
Release(c, l) ==
  /\ At(c, rel(l))
  /\ IF holder[l] # c \/ IF_[c] \/ ncli[c] < 1
     THEN panic' = TRUE /\ UNCHANGED <<holder, ncli, IF_, todo, irq>>
     ELSE /\ holder' = [holder EXCEPT ![l] = NoCpu]
          /\ ncli' = [ncli EXCEPT ![c] = Popped(c)]
          /\ IF_' = [IF_ EXCEPT ![c] = @ \/ PopsToSti(c)]
          /\ Advance(run[c])
          /\ UNCHANGED panic
  /\ UNCHANGED <<intena, spin, run, inirq, saved>>

(* sched(): the checks, save intena, switch to the scheduler *)
Sched(c) ==
  /\ At(c, sched)
  /\ IF holder["ptable"] # c \/ ncli[c] # 1 \/ IF_[c]
     THEN panic' = TRUE /\ UNCHANGED <<run, saved, todo, irq>>
     ELSE /\ saved' = [saved EXCEPT ![run[c]] = intena[c]]
          /\ run' = [run EXCEPT ![c] = c]
          /\ Advance(run[c])
          /\ UNCHANGED panic
  /\ UNCHANGED <<holder, ncli, intena, IF_, spin, inirq>>

(* exit's sched(), with the same checks: the slot's next thread starts in forkret *)
Zombie(c) ==
  LET x == run[c] IN
  /\ At(c, zombie)
  /\ IF holder["ptable"] # c \/ ncli[c] # 1 \/ IF_[c]
     THEN panic' = TRUE /\ UNCHANGED <<run, todo, inirq, irq>>
     ELSE /\ run' = [run EXCEPT ![c] = c]
          /\ todo' = [todo EXCEPT ![x] = forkret]
          /\ inirq' = [inirq EXCEPT ![x] = FALSE]
          /\ irq' = [irq EXCEPT ![x] = << >>]
          /\ UNCHANGED panic
  /\ UNCHANGED <<holder, ncli, intena, IF_, spin, saved>>

Ready == {t \in Threads : \A c \in CPUS : run[c] # t}

(* after swtch: a thread that comes back from sched() restores intena, a new one
   is in forkret and leaves it as it is *)
RestoredIntena(c, t) == IF todo[t] = forkret /\ ~inirq[t] THEN intena[c] ELSE saved[t]

Swtch(c, t) ==
  /\ At(c, swtch)
  /\ t \in Ready
  /\ run' = [run EXCEPT ![c] = t]
  /\ intena' = [intena EXCEPT ![c] = RestoredIntena(c, t)]
  /\ Advance(run[c])
  /\ UNCHANGED <<holder, ncli, IF_, spin, inirq, saved, panic>>

(* the scheduler's search: it may find a process that is ready, or end the loop *)
Scan(c) ==
  /\ At(c, scan)
  /\ \/ Ready # {} /\ todo' = [todo EXCEPT ![c] = SchedFound]
     \/ todo' = [todo EXCEPT ![c] = SchedNone]
  /\ UNCHANGED <<holder, cpuvars, inirq, irq, saved, panic>>

(* sti() in the scheduler; iret at the end of forkret, whose trap frame has FL_IF *)
Enable(c) ==
  /\ At(c, sti) \/ At(c, iret)
  /\ IF_' = [IF_ EXCEPT ![c] = TRUE]
  /\ Advance(run[c])
  /\ UNCHANGED <<holder, ncli, intena, spin, run, inirq, saved, panic>>

(* a context with nothing left starts over *)
Start(c) ==
  LET x == run[c] IN
  /\ ~panic /\ ~inirq[x] /\ todo[x] = << >> /\ spin[c] = NoLock
  /\ IF x = c
     THEN todo' = [todo EXCEPT ![x] = SchedStart]
     ELSE \E p \in Calls \cap Made[x] : todo' = [todo EXCEPT ![x] = p]
  /\ UNCHANGED <<holder, cpuvars, inirq, irq, saved, panic>>

(* an interrupt is taken through an interrupt gate, which clears FL_IF *)
Interrupt(c) ==
  LET x == run[c] IN
  /\ ~panic /\ IF_[c]
  /\ \E h \in Handlers(c, x # c) : irq' = [irq EXCEPT ![x] = h]
  /\ inirq' = [inirq EXCEPT ![x] = TRUE]
  /\ IF_' = [IF_ EXCEPT ![c] = FALSE]
  /\ UNCHANGED <<holder, ncli, intena, spin, run, todo, saved, panic>>

(* context x goes on with path p, in its handler if it is in one *)
GoOn(x, p) ==
  IF inirq[x]
  THEN irq' = [irq EXCEPT ![x] = p] /\ UNCHANGED todo
  ELSE todo' = [todo EXCEPT ![x] = p] /\ UNCHANGED irq

(* exit: the loop over the open files, then the directory; then the end *)
Closing(c) ==
  /\ At(c, closing)
  /\ \/ \E p \in FileCalls \cap Made[run[c]] : GoOn(run[c], p \o <<closing>>)
     \/ GoOn(run[c], die)
  /\ UNCHANGED <<holder, cpuvars, inirq, saved, panic>>

(* trap() calls exit when the process was killed and the trap came from user mode,
   before and after yield: with interrupts off *)
Killed(c) ==
  LET x == run[c] IN
  /\ ~panic /\ x # c /\ inirq[x] /\ todo[x] = << >> /\ spin[c] = NoLock
  /\ irq[x] \in {<< >>, Yielding}
  /\ irq' = [irq EXCEPT ![x] = exit]
  /\ UNCHANGED <<holder, cpuvars, todo, inirq, saved, panic>>

Iret(c) ==
  LET x == run[c] IN
  /\ ~panic /\ inirq[x] /\ irq[x] = << >> /\ spin[c] = NoLock
  /\ inirq' = [inirq EXCEPT ![x] = FALSE]
  /\ IF_' = [IF_ EXCEPT ![c] = TRUE]
  /\ UNCHANGED <<holder, ncli, intena, spin, run, todo, irq, saved, panic>>

Next ==
  \E c \in CPUS :
    \/ \E l \in LockNames : AcquireStart(c, l) \/ Acquire(c, l) \/ Release(c, l)
    \/ \E t \in Threads : Swtch(c, t)
    \/ Sched(c) \/ Zombie(c) \/ Closing(c) \/ Killed(c) \/ Scan(c) \/ Enable(c) \/ Start(c) \/ Interrupt(c) \/ Iret(c)

Spec == Init /\ [][Next]_vars

-----------------------------------------------------------------------------
(* Properties *)

(* None of the checks in acquire, release, popcli and sched fails: no cpu takes a
   lock it holds, even through an interrupt, and a process switches out holding
   ptable.lock alone. *)
NoLockPanic == ~panic

(* Interrupt state follows the locks and survives context switches: while a cpu
   holds or spins for a lock, and inside a handler, interrupts are off; a process
   that is in neither has them on, whichever cpu it came back on and whatever the
   cpu ran before (pushcli, popcli, sched's intena). *)
InterruptDiscipline ==
  \A c \in CPUS : LET x == run[c] IN
    /\ ncli[c] = Cardinality({l \in LockNames : holder[l] = c}) + (IF spin[c] = NoLock THEN 0 ELSE 1)
    /\ ncli[c] > 0 \/ inirq[x] => ~IF_[c]
    /\ x \in Threads /\ ncli[c] = 0 /\ ~inirq[x] /\ todo[x] # <<iret>> => IF_[c]

(* Lock order: the kernel's paths take its spinlocks in an order without circles,
   but for one pair.  When the cpus of a set spin for each other's locks, each for
   one of another's and each holding one that another wants, the locks are
   ptable.lock, under which sched_RR and yield call cprintf, and cons.lock, under
   which consoleintr and consoleread call wakeup and sleep.  The locks of the log,
   the caches, the file table, pipes, sleep locks, the disk and the clock are in
   no circle. *)
OnlyOneCircle ==
  \A S \in (SUBSET CPUS) \ {{}} :
    (\A c \in S : spin[c] # NoLock) /\ {holder[spin[c]] : c \in S} = S
      => {spin[c] : c \in S} = {"ptable", "cons"}
=============================================================================
