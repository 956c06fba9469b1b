------------------------------- MODULE Proc -------------------------------
(***************************************************************************)
(* The process table of the round-robin build (proc.c, with the parts of   *)
(* trap.c and sysproc.c that drive it): fork, exit, wait, kill, the sleep  *)
(* system call, timer preemption and the per-CPU scheduler loop.           *)
(*                                                                         *)
(* ptable.lock and tickslock are explicit, because sched() hands the       *)
(* former from a process to the scheduler and back across swtch, and       *)
(* sleep() passes from the latter to the former.  A critical section that  *)
(* neither switches stacks nor is split by an unlocked read is one action. *)
(***************************************************************************)
EXTENDS Integers, FiniteSets

CONSTANTS
  CPUS,       \* the processors
  BootCpu,    \* cpuid() == 0: the one that counts ticks
  NoCpu,      \* holder of a free lock
  NPROC,      \* size of the process table
  MaxPid,     \* bound: fork is not tried once nextpid exceeds it
  MaxSleep,   \* bound: the longest sleep(n) asked for
  KillPids    \* pids that user programs pass to kill

ASSUME CpuAssumption == BootCpu \in CPUS /\ NoCpu \notin CPUS
ASSUME TableAssumption == NPROC \in Nat /\ NPROC >= 1
ASSUME BoundAssumption == MaxPid \in Nat /\ MaxSleep \in Nat /\ KillPids \subseteq Int

Slots == 1..NPROC
None == 0                    \* the null struct proc pointer
InitProc == 1                \* userinit takes the first slot
TICKS == NPROC + 1           \* the channel &ticks; a slot is its own channel

VARIABLES
  state, pid, parent, chan, killed,   \* fields of struct proc
  nextpid,
  proc,       \* c->proc: the process whose kernel stack cpu c is on
  scan,       \* the scheduler loop's p, while cpu c is in the loop
  ptlock,     \* cpu holding ptable.lock
  tickslock,  \* cpu holding tickslock
  pc,         \* where each process's kernel thread is
  intr,       \* is it inside trap() for a timer interrupt taken there?
  np,         \* fork's local np
  left,       \* sys_sleep: n - (ticks - ticks0), or 0 once that is reached
  panic       \* the message of the panic that stopped the machine

table == <<state, pid, parent, chan, killed, nextpid>>
locks == <<ptlock, tickslock>>
vars == <<table, proc, scan, locks, pc, intr, np, left, panic>>

States == {"UNUSED", "EMBRYO", "SLEEPING", "RUNNABLE", "RUNNING", "ZOMBIE"}
Alive == {"SLEEPING", "RUNNABLE", "RUNNING"}
Labels == {"user", "sysret", "forked", "forkrun", "forkret", "exit", "zombie",
           "waitscan", "waitslept", "tickacq", "ticktest", "ticksleep", "tickslept"}
Panics == {"", "init exiting", "sched ptable.lock", "sched locks"}

TypeOK ==
  /\ state \in [Slots -> States]
  /\ pid \in [Slots -> Nat]
  /\ parent \in [Slots -> Slots \cup {None}]
  /\ chan \in [Slots -> Slots \cup {None, TICKS}]
  /\ killed \in [Slots -> BOOLEAN]
  /\ nextpid \in Nat
  /\ proc \in [CPUS -> Slots \cup {None}]
  /\ scan \in [CPUS -> 1..NPROC + 1]
  /\ ptlock \in CPUS \cup {NoCpu}
  /\ tickslock \in CPUS \cup {NoCpu}
  /\ pc \in [Slots -> Labels]
  /\ intr \in [Slots -> {"none", "trap", "yielded"}]
  /\ np \in [Slots -> Slots \cup {None}]
  /\ left \in [Slots -> Nat]
  /\ panic \in Panics

(* After userinit: one process, ready to return from forkret. *)
Init ==
  /\ state = [s \in Slots |-> IF s = InitProc THEN "RUNNABLE" ELSE "UNUSED"]
  /\ pid = [s \in Slots |-> IF s = InitProc THEN 1 ELSE 0]
  /\ parent = [s \in Slots |-> None]
  /\ chan = [s \in Slots |-> None]
  /\ killed = [s \in Slots |-> FALSE]
  /\ nextpid = 2
  /\ proc = [c \in CPUS |-> None]
  /\ scan = [c \in CPUS |-> 1]
  /\ ptlock = NoCpu /\ tickslock = NoCpu
  /\ pc = [s \in Slots |-> "forkret"]
  /\ intr = [s \in Slots |-> "none"]
  /\ np = [s \in Slots |-> None]
  /\ left = [s \in Slots |-> 0]
  /\ panic = ""

-----------------------------------------------------------------------------
(* Helpers *)

(* the slot at which a loop over the table, looking for a member of S, stops *)
First(s, S) == s \in S /\ \A t \in S : s <= t

Free(lock) == lock = NoCpu

(* cpu c executes process p's kernel thread at label l, not inside a timer trap *)
Runs(c, p, l) ==
  /\ panic = ""
  /\ proc[c] = p
  /\ pc[p] = l
  /\ intr[p] = "none"

Goto(p, l) == pc' = [pc EXCEPT ![p] = l]

(* a system call is dispatched only if the process has not been killed *)
Syscall(c, p) == Runs(c, p, "user") /\ ~killed[p]

(* the table's states after wakeup1(ch) *)
Wakeup1(st, ch) ==
  [s \in Slots |-> IF st[s] = "SLEEPING" /\ chan[s] = ch THEN "RUNNABLE" ELSE st[s]]

AnyProcess(p) == Slots
Children(p) == {s \in Slots : parent[s] = p}
Zombies(S) == {s \in S : state[s] = "ZOMBIE"}

-----------------------------------------------------------------------------
(* fork *)

(* allocproc: claim the first UNUSED slot as EMBRYO with a fresh pid; with no
   free slot fork returns -1. *)
ForkAlloc(c, p) ==
  /\ Syscall(c, p)
  /\ Free(ptlock)
  /\ nextpid <= MaxPid
  /\ LET unused == {s \in Slots : state[s] = "UNUSED"} IN
       IF unused = {}
       THEN Goto(p, "sysret") /\ UNCHANGED <<table, np>>
       ELSE \E s \in Slots :
            /\ First(s, unused)
            /\ state' = [state EXCEPT ![s] = "EMBRYO"]
            /\ pid' = [pid EXCEPT ![s] = nextpid]
            /\ nextpid' = nextpid + 1
            /\ np' = [np EXCEPT ![p] = s]
            /\ Goto(p, "forked")
            /\ UNCHANGED <<parent, chan, killed>>
  /\ UNCHANGED <<proc, scan, locks, intr, left, panic>>

(* kalloc or copyuvm found no memory: the slot is given back, without
   ptable.lock; its pid and killed fields stay as they are. *)
ForkFail(c, p) ==
  /\ Runs(c, p, "forked")
  /\ state' = [state EXCEPT ![np[p]] = "UNUSED"]
  /\ np' = [np EXCEPT ![p] = None]
  /\ Goto(p, "sysret")
  /\ UNCHANGED <<pid, parent, chan, killed, nextpid, proc, scan, locks, intr, left, panic>>

(* Memory copied: np->parent is set, still without the lock. *)
ForkCopy(c, p) ==
  /\ Runs(c, p, "forked")
  /\ parent' = [parent EXCEPT ![np[p]] = p]
  /\ Goto(p, "forkrun")
  /\ UNCHANGED <<state, pid, chan, killed, nextpid, proc, scan, locks, intr, np, left, panic>>

(* The child becomes RUNNABLE, its context at forkret. *)
ForkRun(c, p) ==
  /\ Runs(c, p, "forkrun")
  /\ Free(ptlock)
  /\ state' = [state EXCEPT ![np[p]] = "RUNNABLE"]
  /\ pc' = [pc EXCEPT ![np[p]] = "forkret", ![p] = "sysret"]
  /\ intr' = [intr EXCEPT ![np[p]] = "none"]
  /\ np' = [np EXCEPT ![p] = None]
  /\ UNCHANGED <<pid, parent, chan, killed, nextpid, proc, scan, locks, left, panic>>

-----------------------------------------------------------------------------
(* exit and wait *)

(* exit() entered: by the system call, or on the way into a system call of a
   process already killed.  init must not exit. *)
EnterExit(p) ==
  IF p = InitProc
  THEN panic' = "init exiting" /\ UNCHANGED pc
  ELSE Goto(p, "exit") /\ UNCHANGED panic

SysExit(c, p) ==
  /\ Runs(c, p, "user")
  /\ EnterExit(p)
  /\ UNCHANGED <<table, proc, scan, locks, intr, np, left>>

(* A fault in user mode marks the process killed, and the check that follows
   in trap() makes it exit. *)
Fault(c, p) ==
  /\ Runs(c, p, "user")
  /\ killed' = [killed EXCEPT ![p] = TRUE]
  /\ EnterExit(p)
  /\ UNCHANGED <<state, pid, parent, chan, nextpid, proc, scan, locks, intr, np, left>>

(* The table's states after exit's wakeups: the parent may be in wait(), and
   init too if it inherits a zombie. *)
NoParentWakeup(p) ==
  [(IF Zombies(Children(p)) # {} THEN Wakeup1(state, InitProc) ELSE state)
     EXCEPT ![p] = "ZOMBIE"]
ExitStates(p) ==
  LET st == Wakeup1(state, parent[p]) IN
    [(IF Zombies(Children(p)) # {} THEN Wakeup1(st, InitProc) ELSE st)
       EXCEPT ![p] = "ZOMBIE"]

KeepOrphans(p) == parent
ExitParents(p) == [s \in Slots |-> IF parent[s] = p THEN InitProc ELSE parent[s]]

(* The locked half of exit(), after the files are closed; sched() follows. *)
Exit(c, p) ==
  /\ Runs(c, p, "exit")
  /\ Free(ptlock)
  /\ ptlock' = c
  /\ state' = ExitStates(p)
  /\ parent' = ExitParents(p)
  /\ Goto(p, "zombie")
  /\ UNCHANGED <<pid, chan, killed, nextpid, proc, scan, tickslock, intr, np, left, panic>>

SysWait(c, p) ==
  /\ Syscall(c, p)
  /\ Free(ptlock)
  /\ ptlock' = c
  /\ Goto(p, "waitscan")
  /\ UNCHANGED <<table, proc, scan, tickslock, intr, np, left, panic>>

(* A zombie child is freed and its slot cleared. *)
WaitReap(c, p) ==
  /\ Runs(c, p, "waitscan")
  /\ \E z \in Slots :
       /\ First(z, Zombies(Children(p)))
       /\ state' = [state EXCEPT ![z] = "UNUSED"]
       /\ pid' = [pid EXCEPT ![z] = 0]
       /\ parent' = [parent EXCEPT ![z] = None]
       /\ killed' = [killed EXCEPT ![z] = FALSE]
  /\ ptlock' = NoCpu
  /\ Goto(p, "sysret")
  /\ UNCHANGED <<chan, nextpid, proc, scan, tickslock, intr, np, left, panic>>

(* No children, or killed: return -1. *)
WaitNone(c, p) ==
  /\ Runs(c, p, "waitscan")
  /\ Zombies(Children(p)) = {}
  /\ Children(p) = {} \/ killed[p]
  /\ ptlock' = NoCpu
  /\ Goto(p, "sysret")
  /\ UNCHANGED <<table, proc, scan, tickslock, intr, np, left, panic>>

(* sleep(curproc, &ptable.lock) *)
WaitSleep(c, p) ==
  /\ Runs(c, p, "waitscan")
  /\ Zombies(Children(p)) = {}
  /\ Children(p) # {} /\ ~killed[p]
  /\ chan' = [chan EXCEPT ![p] = p]
  /\ state' = [state EXCEPT ![p] = "SLEEPING"]
  /\ Goto(p, "waitslept")
  /\ UNCHANGED <<pid, parent, killed, nextpid, proc, scan, locks, intr, np, left, panic>>

-----------------------------------------------------------------------------
(* The sleep system call and kill *)

SysSleep(c, p) ==
  /\ Syscall(c, p)
  /\ Free(tickslock)
  /\ tickslock' = c
  /\ \E n \in 0..MaxSleep : left' = [left EXCEPT ![p] = n]
  /\ Goto(p, "ticktest")
  /\ UNCHANGED <<table, proc, scan, ptlock, intr, np, panic>>

(* The loop's test, with tickslock held: done or killed, so release it and
   return; or go on to call sleep() with it still held.  The read of killed is
   not under ptable.lock: a kill can fall between it and TickSleep. *)
EarlyRelease(c, p) ==
  /\ Runs(c, p, "ticktest")
  /\ tickslock' = NoCpu
  /\ Goto(p, IF left[p] = 0 \/ killed[p] THEN "sysret" ELSE "ticksleep")
  /\ UNCHANGED <<table, proc, scan, ptlock, intr, np, left, panic>>
TickTest(c, p) ==
  /\ Runs(c, p, "ticktest")
  /\ IF left[p] = 0 \/ killed[p]
     THEN Goto(p, "sysret") /\ tickslock' = NoCpu
     ELSE Goto(p, "ticksleep") /\ UNCHANGED tickslock
  /\ UNCHANGED <<table, proc, scan, ptlock, intr, np, left, panic>>

(* sleep(&ticks, &tickslock): ptable.lock is taken before tickslock is let go *)
KeepTickslock(c, p) ==
  /\ Runs(c, p, "ticksleep")
  /\ Free(ptlock)
  /\ ptlock' = c
  /\ chan' = [chan EXCEPT ![p] = TICKS]
  /\ state' = [state EXCEPT ![p] = "SLEEPING"]
  /\ Goto(p, "tickslept")
  /\ UNCHANGED <<pid, parent, killed, nextpid, proc, scan, tickslock, intr, np, left, panic>>
TickSleep(c, p) ==
  /\ Runs(c, p, "ticksleep")
  /\ Free(ptlock)
  /\ ptlock' = c
  /\ tickslock' = NoCpu
  /\ chan' = [chan EXCEPT ![p] = TICKS]
  /\ state' = [state EXCEPT ![p] = "SLEEPING"]
  /\ Goto(p, "tickslept")
  /\ UNCHANGED <<pid, parent, killed, nextpid, proc, scan, intr, np, left, panic>>

(* kill makes a sleeper runnable, so that it notices *)
NoKillWakeup(s) == state[s]
KilledState(s) == IF state[s] = "SLEEPING" THEN "RUNNABLE" ELSE state[s]

(* kill marks the first slot whose pid field matches, whatever its state. *)
Kill(c, p, k) ==
  /\ Syscall(c, p)
  /\ Free(ptlock)
  /\ LET hits == {s \in Slots : pid[s] = k} IN
       IF hits = {}
       THEN UNCHANGED <<state, killed>>
       ELSE \E s \in Slots :
            /\ First(s, hits)
            /\ killed' = [killed EXCEPT ![s] = TRUE]
            /\ state' = [state EXCEPT ![s] = KilledState(s)]
  /\ Goto(p, "sysret")
  /\ UNCHANGED <<pid, parent, chan, nextpid, proc, scan, locks, intr, np, left, panic>>

(* The check on the way back to user mode, in trap(). *)
SysRet(c, p) ==
  /\ Runs(c, p, "sysret")
  /\ IF killed[p]
     THEN EnterExit(p)
     ELSE Goto(p, "user") /\ UNCHANGED panic
  /\ UNCHANGED <<table, proc, scan, locks, intr, np, left>>

-----------------------------------------------------------------------------
(* Timer interrupts *)

(* Labels at which a process holds no spinlock, so that interrupts are on.
   (exit() reached from trap() runs with them off: preempting it there is
   behaviour this model adds.) *)
Preemptible == {"user", "sysret", "forked", "forkrun", "exit", "tickacq"}

(* ticks++ and wakeup(&ticks), under tickslock then ptable.lock, on the boot
   cpu only. *)
Tick(c) ==
  IF c = BootCpu
  THEN /\ Free(tickslock) /\ Free(ptlock)
       /\ left' = [s \in Slots |-> IF left[s] > 0 THEN left[s] - 1 ELSE 0]
       /\ state' = Wakeup1(state, TICKS)
  ELSE UNCHANGED <<left, state>>

(* taken in the scheduler, between sti() and acquire(&ptable.lock) *)
TimerIdle(c) ==
  /\ panic = ""
  /\ proc[c] = None /\ ptlock # c
  /\ Tick(c)
  /\ UNCHANGED <<pid, parent, chan, killed, nextpid, proc, scan, locks, pc, intr, np, panic>>

Timer(c, p) ==
  /\ panic = ""
  /\ proc[c] = p /\ pc[p] \in Preemptible /\ intr[p] = "none"
  /\ Tick(c)
  /\ intr' = [intr EXCEPT ![p] = "trap"]
  /\ UNCHANGED <<pid, parent, chan, killed, nextpid, proc, scan, locks, pc, np, panic>>

(* The rest of trap(): a killed process interrupted in user mode exits, ... *)
TimerKilled(c, p) ==
  /\ panic = ""
  /\ proc[c] = p /\ intr[p] = "trap"
  /\ killed[p] /\ pc[p] = "user"
  /\ EnterExit(p)
  /\ intr' = [intr EXCEPT ![p] = "none"]
  /\ UNCHANGED <<table, proc, scan, locks, np, left>>

(* ... any other yields: acquire ptable.lock, become RUNNABLE, call sched(). *)
UnlockedYield(c, p) ==
  /\ panic = ""
  /\ proc[c] = p /\ intr[p] = "trap"
  /\ ~(killed[p] /\ pc[p] = "user")
  /\ Free(ptlock)
  /\ state' = [state EXCEPT ![p] = "RUNNABLE"]
  /\ intr' = [intr EXCEPT ![p] = "yielded"]
  /\ UNCHANGED <<pid, parent, chan, killed, nextpid, proc, scan, locks, pc, np, left, panic>>
Yield(c, p) ==
  /\ panic = ""
  /\ proc[c] = p /\ intr[p] = "trap"
  /\ ~(killed[p] /\ pc[p] = "user")
  /\ Free(ptlock)
  /\ ptlock' = c
  /\ state' = [state EXCEPT ![p] = "RUNNABLE"]
  /\ intr' = [intr EXCEPT ![p] = "yielded"]
  /\ UNCHANGED <<pid, parent, chan, killed, nextpid, proc, scan, tickslock, pc, np, left, panic>>

-----------------------------------------------------------------------------
(* sched() and the scheduler *)

(* Labels whose next step, once the state is no longer RUNNING, is sched(). *)
InSched(p) == intr[p] = "yielded" \/ pc[p] \in {"zombie", "waitslept", "tickslept"}

(* the scheduler's loop goes on after the slot that came back *)
FromTheTop(p) == 1
SkipOne(p) == p + 2
NextScan(p) == p + 1

(* sched(): its checks, then swtch to this cpu's scheduler. *)
Sched(c, p) ==
  /\ panic = ""
  /\ proc[c] = p /\ InSched(p) /\ state[p] # "RUNNING"
  /\ IF ptlock # c THEN panic' = "sched ptable.lock" /\ UNCHANGED <<proc, scan>>
     ELSE IF tickslock = c THEN panic' = "sched locks" /\ UNCHANGED <<proc, scan>>
     ELSE /\ proc' = [proc EXCEPT ![c] = None]
          /\ scan' = [scan EXCEPT ![c] = NextScan(p)]
          /\ UNCHANGED panic
  /\ UNCHANGED <<table, locks, pc, intr, np, left>>

(* sti(); acquire(&ptable.lock); start the loop over the table *)
SchedAcquire(c) ==
  /\ panic = ""
  /\ proc[c] = None /\ Free(ptlock)
  /\ ptlock' = c
  /\ scan' = [scan EXCEPT ![c] = 1]
  /\ UNCHANGED <<table, proc, tickslock, pc, intr, np, left, panic>>

Ahead(c) == {s \in Slots : s >= scan[c] /\ state[s] = "RUNNABLE"}

(* switch to the next RUNNABLE slot: it runs on with ptable.lock held *)
SchedSwitch(c) ==
  /\ panic = ""
  /\ proc[c] = None /\ ptlock = c
  /\ \E s \in Slots :
       /\ First(s, Ahead(c))
       /\ proc' = [proc EXCEPT ![c] = s]
       /\ state' = [state EXCEPT ![s] = "RUNNING"]
  /\ UNCHANGED <<pid, parent, chan, killed, nextpid, scan, locks, pc, intr, np, left, panic>>

SchedRelease(c) ==
  /\ panic = ""
  /\ proc[c] = None /\ ptlock = c
  /\ Ahead(c) = {}
  /\ ptlock' = NoCpu
  /\ UNCHANGED <<table, proc, scan, tickslock, pc, intr, np, left, panic>>

-----------------------------------------------------------------------------
(* A process switched to resumes where its kernel thread left off. *)

(* forkret: release ptable.lock and return to user space *)
Forkret(c, p) ==
  /\ Runs(c, p, "forkret")
  /\ ptlock' = NoCpu
  /\ Goto(p, "user")
  /\ UNCHANGED <<table, proc, scan, tickslock, intr, np, left, panic>>

(* back in yield(): release, and finish the trap, which checks killed again
   if it came from user mode *)
YieldResume(c, p) ==
  /\ panic = ""
  /\ proc[c] = p /\ intr[p] = "yielded" /\ state[p] = "RUNNING"
  /\ ptlock' = NoCpu
  /\ intr' = [intr EXCEPT ![p] = "none"]
  /\ Goto(p, IF pc[p] = "user" THEN "sysret" ELSE pc[p])
  /\ UNCHANGED <<table, proc, scan, tickslock, np, left, panic>>

(* back in sleep() called by wait(): keep the lock and scan again *)
WaitResume(c, p) ==
  /\ Runs(c, p, "waitslept") /\ state[p] = "RUNNING"
  /\ chan' = [chan EXCEPT ![p] = None]
  /\ Goto(p, "waitscan")
  /\ UNCHANGED <<state, pid, parent, killed, nextpid, proc, scan, locks, intr, np, left, panic>>

(* back in sleep() called by sys_sleep: release, then reacquire tickslock *)
TickResume(c, p) ==
  /\ Runs(c, p, "tickslept") /\ state[p] = "RUNNING"
  /\ chan' = [chan EXCEPT ![p] = None]
  /\ ptlock' = NoCpu
  /\ Goto(p, "tickacq")
  /\ UNCHANGED <<state, pid, parent, killed, nextpid, proc, scan, tickslock, intr, np, left, panic>>

(* ... and back in sys_sleep's loop *)
TickAcquire(c, p) ==
  /\ Runs(c, p, "tickacq")
  /\ Free(tickslock)
  /\ tickslock' = c
  /\ Goto(p, "ticktest")
  /\ UNCHANGED <<table, proc, scan, ptlock, intr, np, left, panic>>

(* A panic stops the machine. *)
Halted == panic # "" /\ UNCHANGED vars

-----------------------------------------------------------------------------
(* kernel steps at labels where the process may be preempted, ... *)
Body(c, p) ==
  \/ ForkFail(c, p) \/ ForkCopy(c, p) \/ ForkRun(c, p)
  \/ Exit(c, p) \/ TickAcquire(c, p) \/ SysRet(c, p)

(* ... and with interrupts off *)
Locked(c, p) ==
  \/ WaitReap(c, p) \/ WaitNone(c, p) \/ WaitSleep(c, p)
  \/ TickTest(c, p) \/ TickSleep(c, p)
  \/ TimerKilled(c, p) \/ Yield(c, p) \/ Sched(c, p)
  \/ Forkret(c, p) \/ YieldResume(c, p) \/ WaitResume(c, p) \/ TickResume(c, p)

User(c, p) ==
  \/ ForkAlloc(c, p) \/ SysExit(c, p) \/ Fault(c, p) \/ SysWait(c, p) \/ SysSleep(c, p)
  \/ \E k \in KillPids : Kill(c, p, k)

Scheduler(c) == SchedAcquire(c) \/ SchedSwitch(c) \/ SchedRelease(c)

Next ==
  \/ \E c \in CPUS : Scheduler(c) \/ TimerIdle(c)
  \/ \E c \in CPUS, p \in Slots : Body(c, p) \/ Locked(c, p) \/ User(c, p) \/ Timer(c, p)
  \/ Halted

Spec == Init /\ [][Next]_vars

(* A cpu keeps executing code with interrupts off: the scheduler loop, sections
   under a lock, traps (WF).  A timer interrupt stays pending until interrupts
   are on, so it is taken if they are on again and again (SF), and a quantum is
   long enough for a preemptible step (SF).  init's program calls wait() again
   and again (init.c 22-36). *)
Fairness ==
  \A c \in CPUS :
    /\ WF_vars(Scheduler(c) \/ \E p \in Slots : Locked(c, p))
    /\ SF_vars(TimerIdle(c) \/ \E p \in Slots : Timer(c, p))
    /\ \A p \in Slots : SF_vars(Body(c, p))
    /\ SF_vars(SysWait(c, InitProc))

FairSpec == Spec /\ Fairness

-----------------------------------------------------------------------------
(* Properties *)

(* A kernel stack is used by one cpu at a time: no two cpus have the same
   c->proc, a RUNNING process is on some cpu, and a process that is on a cpu
   without being RUNNING (it is entering sched) is protected by that cpu's hold
   on ptable.lock (proc.c yield, sleep, exit, sched_RR). *)
OneStack ==
  /\ \A c, d \in CPUS : proc[c] = proc[d] /\ proc[c] # None => c = d
  /\ \A s \in Slots : state[s] = "RUNNING" => \E c \in CPUS : proc[c] = s
  /\ \A c \in CPUS : proc[c] # None /\ state[proc[c]] # "RUNNING" => ptlock = c

(* No child's exit is missed by wait(): a process asleep in wait() has no
   zombie child, its own or inherited by init (proc.c exit 280-290, wait). *)
NoMissedExit ==
  \A p \in Slots : state[p] = "SLEEPING" /\ chan[p] = p => Zombies(Children(p)) = {}

(* No tick is missed by sys_sleep: a process asleep on &ticks still has ticks to
   wait for (sleep takes ptable.lock before it lets go of tickslock). *)
NoMissedTick ==
  \A p \in Slots : state[p] = "SLEEPING" /\ chan[p] = TICKS => left[p] > 0

(* Somebody can always reap a process: every process but init that is alive or a
   zombie has a parent that is itself alive (fork sets np->parent without
   ptable.lock, exit passes the children to init). *)
LiveParent ==
  \A p \in Slots \ {InitProc} :
    state[p] \in Alive \cup {"ZOMBIE"} => parent[p] \in Slots /\ state[parent[p]] \in Alive

(* The checks in sched() never fail: ptable.lock is held, and it is the only
   spinlock held, whenever a process switches out. *)
NoSchedPanic == panic \in {"", "init exiting"}

(* "An exited process remains in the zombie state until its parent calls wait()"
   (proc.c 253): a zombie slot changes only by its parent's reaping it. *)
ZombieUntilReaped ==
  [][\A s \in Slots : state[s] = "ZOMBIE" /\ state'[s] # "ZOMBIE" =>
       /\ state'[s] = "UNUSED"
       /\ pc[parent[s]] = "waitscan"
       /\ \E c \in CPUS : proc[c] = parent[s] /\ ptlock = c]_vars

(* Round robin starves nobody: a RUNNABLE process runs, unless the machine stops
   (sched_RR goes on after the slot that came back; one cpu). *)
RunnableRuns ==
  \A s \in Slots : state[s] = "RUNNABLE" ~> state[s] = "RUNNING" \/ panic # ""

(* A killed process exits, wherever it was: running, sleeping or preempted
   (kill, and the checks in trap, sys_sleep and wait; one cpu). *)
KilledExits ==
  \A s \in Slots : killed[s] /\ state[s] \in Alive ~> state[s] = "ZOMBIE" \/ panic # ""

(* Orphans do not stay zombies: init, which inherits them, reaps them. *)
OrphanReaped ==
  \A s \in Slots : state[s] = "ZOMBIE" /\ parent[s] = InitProc
                     ~> state[s] = "UNUSED" \/ panic # ""

=============================================================================
