----------------------------- MODULE ProcProofs -----------------------------
(***************************************************************************)
(* The process table is correct for any number of cpus, any table size and *)
(* whatever pids are passed to kill.  The proof finds one inductive        *)
(* invariant: who holds which lock, and where a kernel thread can be, as a *)
(* function of its state and of whether it is on a cpu.                    *)
(***************************************************************************)
EXTENDS Proc, TLAPS

-----------------------------------------------------------------------------
(* The inductive invariant *)

(* A process on cpu c at one of these is using ptable.lock *)
HasPtlock(p) == intr[p] = "yielded" \/ pc[p] \in {"forkret", "waitscan", "waitslept", "tickslept", "zombie"}

(* what a process that is on a cpu can be doing, and the locks it then holds *)
OnCpu ==
  \A c \in CPUS : \A p \in Slots : proc[c] = p =>
    /\ state[p] \in Alive \cup {"ZOMBIE"}
    /\ state[p] # "RUNNING" => InSched(p)
    /\ HasPtlock(p) => ptlock = c
    /\ pc[p] \in {"ticktest", "ticksleep"} => tickslock = c

(* where the others were left *)
OffCpu ==
  \A p \in Slots :
    /\ state[p] \in {"RUNNABLE", "SLEEPING"} =>
         intr[p] = "yielded" \/ pc[p] \in {"forkret", "waitslept", "tickslept"}
    /\ state[p] \in {"UNUSED", "EMBRYO", "ZOMBIE"} => pc[p] \in {"forkret", "zombie"}
    /\ intr[p] # "none" => pc[p] \in Preemptible

(* a slot that fork is filling in is not touched by anybody else *)
Forks ==
  \A p \in Slots : pc[p] \in {"forked", "forkrun"} =>
    /\ np[p] \in Slots /\ state[np[p]] = "EMBRYO"
    /\ pc[p] = "forkrun" => parent[np[p]] = p
    /\ \A q \in Slots : pc[q] \in {"forked", "forkrun"} /\ np[q] = np[p] => q = p

(* init is there for orphans *)
InitStays ==
  /\ state[InitProc] \in Alive /\ pc[InitProc] \notin {"exit", "zombie"}
  /\ parent[InitProc] = None
  /\ \A p \in Slots : parent[p] # p

(* tickslock and sys_sleep's countdown *)
Ticking ==
  /\ \A p \in Slots : pc[p] = "ticksleep" => left[p] > 0
  /\ \A c \in CPUS : tickslock = c =>
       proc[c] \in Slots /\ pc[proc[c]] \in {"ticktest", "ticksleep"}

IInv ==
  /\ TypeOK
  /\ OneStack /\ OnCpu /\ OffCpu /\ Forks /\ InitStays /\ Ticking
  /\ NoMissedExit /\ NoMissedTick /\ LiveParent /\ NoSchedPanic

-----------------------------------------------------------------------------
(* The table's slots, the null pointer and the channel &ticks are all different. *)
LEMMA SlotsLemma == Slots \subseteq Nat /\ InitProc \in Slots /\ None \notin Slots /\ TICKS \notin Slots
BY TableAssumption DEF Slots, InitProc, None, TICKS

(* The table that userinit leaves satisfies the invariant. *)
LEMMA InitIInv == Init => IInv
<1> SUFFICES ASSUME Init PROVE IInv
  BY Zenon
<1>1. TypeOK
  <2>1. 1 \in 1..NPROC + 1
    BY TableAssumption
  <2>2. killed \in [Slots -> BOOLEAN] /\ scan \in [CPUS -> 1..NPROC + 1]
    BY Zenon, <2>1 DEF Init
  <2> QED BY Zenon, <2>2 DEF Init, TypeOK, States, Labels, Panics
<1>2. OneStack /\ OnCpu /\ OffCpu /\ Ticking
  BY Zenon, SlotsLemma, CpuAssumption DEF Init, OneStack, OnCpu, OffCpu, Ticking
<1>3. Forks /\ InitStays
  BY Zenon, SlotsLemma DEF Init, Forks, InitStays, Alive
<1>4. NoMissedExit /\ NoMissedTick /\ LiveParent /\ NoSchedPanic
  BY Zenon, SlotsLemma DEF Init, NoMissedExit, NoMissedTick, LiveParent, NoSchedPanic, Alive
<1> QED BY Zenon, <1>1, <1>2, <1>3, <1>4 DEF IInv

-----------------------------------------------------------------------------
(* Most steps concern one cpu and the process on it.  Frame(c) says what such a
   step leaves alone: everything about the other processes, except that wakeups
   may make sleepers runnable and a tick may count down their left. *)
Frame(c) ==
  /\ parent' = parent /\ proc' = proc /\ np' = np
  /\ \A s \in Slots : s # proc[c] =>
       /\ pc'[s] = pc[s] /\ intr'[s] = intr[s] /\ chan'[s] = chan[s]
       /\ state'[s] = state[s] \/ (state[s] = "SLEEPING" /\ state'[s] = "RUNNABLE")
       /\ \/ left'[s] = left[s]
          \/ pc[s] # "ticksleep" /\ ~(state'[s] = "SLEEPING" /\ chan[s] = TICKS)
  /\ ptlock' = ptlock \/ (ptlock \in {NoCpu, c} /\ ptlock' \in {NoCpu, c})
  /\ tickslock' = tickslock \/ (tickslock \in {NoCpu, c} /\ tickslock' \in {NoCpu, c})
  /\ proc[c] = None => tickslock' = tickslock
  /\ panic' \in {"", "init exiting"}

(* ... and Moves(c, p) what it may do to the process p that c is running. *)
Moves(c, p) ==
  /\ state[p] = "RUNNING"
  /\ \/ state'[p] = "RUNNING"
     \/ state'[p] = "RUNNABLE" /\ intr'[p] = "yielded"
     \/ /\ state'[p] = "SLEEPING" /\ chan'[p] = p /\ pc'[p] = "waitslept"
        /\ Zombies(Children(p)) = {}
     \/ state'[p] = "SLEEPING" /\ chan'[p] = TICKS /\ pc'[p] = "tickslept" /\ left'[p] > 0
  /\ state'[p] # "RUNNING" \/ HasPtlock(p)' => ptlock' = c
  /\ pc'[p] \in {"ticktest", "ticksleep"} <=> tickslock' = c
  /\ intr'[p] # "none" => pc'[p] \in Preemptible
  /\ pc'[p] \in {"forked", "forkrun"} => pc'[p] = pc[p]
  /\ pc'[p] = "ticksleep" => left'[p] > 0
  /\ p = InitProc => pc'[p] \notin {"exit", "zombie"}

(* A step of the process on one cpu that is framed in this way, touching only its
   own slot and the locks that its cpu holds, keeps the invariant. *)
LEMMA LocalStep ==
  ASSUME IInv, TypeOK', NEW c \in CPUS, Frame(c), proc[c] \in Slots => Moves(c, proc[c])
  PROVE  IInv'
<1>a. /\ \A d \in CPUS : proc[d] \in Slots \cup {None} /\ d # NoCpu
      /\ ptlock \in CPUS \cup {NoCpu} /\ tickslock \in CPUS \cup {NoCpu}
      /\ \A s \in Slots : s # None /\ s # TICKS
  BY Zenon, SlotsLemma, CpuAssumption DEF IInv, TypeOK
<1>b. OneStack /\ OnCpu /\ OffCpu /\ Forks /\ InitStays /\ Ticking
  BY Zenon DEF IInv
<1>c. /\ ptlock' = ptlock \/ (ptlock \in {NoCpu, c} /\ ptlock' \in {NoCpu, c})
      /\ tickslock' = tickslock \/ (tickslock \in {NoCpu, c} /\ tickslock' \in {NoCpu, c})
  BY Zenon DEF Frame
<1>1. OneStack'
  <2>1. ASSUME NEW d \in CPUS, proc[d] # None, state'[proc[d]] # "RUNNING" PROVE ptlock' = d
    <3>1. CASE proc[d] = proc[c]
      BY Zenon, <3>1, <2>1, <1>a, <1>b DEF OneStack, Moves
    <3>2. CASE proc[d] # proc[c]
      BY ZenonT(40), <3>2, <2>1, <1>a, <1>b DEF OneStack, Frame
    <3> QED BY Zenon, <3>1, <3>2
  <2>2. ASSUME NEW s \in Slots, state'[s] = "RUNNING" PROVE state[s] = "RUNNING"
    BY Zenon, <2>2, <1>a DEF Frame, Moves
  <2> QED BY Zenon, <2>1, <2>2, <1>b DEF OneStack, Frame
<1>2. OnCpu'
  <2> SUFFICES ASSUME NEW d \in CPUS, NEW s \in Slots, proc[d] = s PROVE
         /\ state'[s] \in Alive \cup {"ZOMBIE"}
         /\ state'[s] # "RUNNING" => InSched(s)'
         /\ HasPtlock(s)' => ptlock' = d
         /\ pc'[s] \in {"ticktest", "ticksleep"} => tickslock' = d
    BY Zenon DEF OnCpu, Frame
  <2>1. CASE s = proc[c]
    <3>1. d = c /\ Moves(c, s)
      BY Zenon, <2>1, <1>a, <1>b DEF OneStack
    <3> QED BY Zenon, <3>1 DEF Moves, InSched, Alive
  <2>2. CASE s # proc[c]
    <3>1. d # c
      BY Zenon, <2>2
    <3>2. /\ pc'[s] = pc[s] /\ intr'[s] = intr[s]
          /\ state'[s] = state[s] \/ (state[s] = "SLEEPING" /\ state'[s] = "RUNNABLE")
      BY Zenon, <2>2 DEF Frame
    <3>3. (ptlock = d => ptlock' = d) /\ (tickslock = d => tickslock' = d)
      BY Zenon, <3>1, <1>a, <1>c
    <3>4. /\ state[s] \in Alive \cup {"ZOMBIE"}
          /\ state[s] # "RUNNING" => InSched(s)
          /\ HasPtlock(s) => ptlock = d
          /\ pc[s] \in {"ticktest", "ticksleep"} => tickslock = d
      BY Zenon, <1>b DEF OnCpu
    <3> QED BY Zenon, <3>2, <3>3, <3>4 DEF InSched, HasPtlock, Alive
  <2> QED BY Zenon, <2>1, <2>2
<1>3. OffCpu'
  <2> SUFFICES ASSUME NEW s \in Slots PROVE
         /\ state'[s] \in {"RUNNABLE", "SLEEPING"} =>
              intr'[s] = "yielded" \/ pc'[s] \in {"forkret", "waitslept", "tickslept"}
         /\ state'[s] \in {"UNUSED", "EMBRYO", "ZOMBIE"} => pc'[s] \in {"forkret", "zombie"}
         /\ intr'[s] # "none" => pc'[s] \in Preemptible
    BY Zenon DEF OffCpu
  <2> QED BY ZenonT(40), <1>b DEF OffCpu, Frame, Moves
<1>4. Forks'
  <2>1. \A s \in Slots : pc'[s] \in {"forked", "forkrun"} => pc'[s] = pc[s]
    BY Zenon DEF Frame, Moves
  <2>2. \A s \in Slots : state[s] = "EMBRYO" => state'[s] = "EMBRYO"
    BY Zenon DEF Frame, Moves
  <2>3. parent' = parent /\ np' = np
    BY Zenon DEF Frame
  <2> SUFFICES ASSUME NEW s \in Slots, pc'[s] \in {"forked", "forkrun"} PROVE
         /\ np[s] \in Slots /\ state'[np[s]] = "EMBRYO"
         /\ pc'[s] = "forkrun" => parent[np[s]] = s
         /\ \A q \in Slots : pc'[q] \in {"forked", "forkrun"} /\ np[q] = np[s] => q = s
    BY Zenon, <2>3 DEF Forks
  <2> QED BY Zenon, <2>1, <2>2, <1>b DEF Forks
<1>5. InitStays'
  <2>1. InitProc \in Slots
    BY Zenon, SlotsLemma
  <2> QED BY Zenon, <2>1, <1>b DEF InitStays, Frame, Moves, Alive
<1>6. Ticking'
  <2>1. ASSUME NEW s \in Slots, pc'[s] = "ticksleep" PROVE left'[s] > 0
    BY ZenonT(40), <2>1, <1>b DEF Ticking, Frame, Moves
  <2>2. ASSUME NEW d \in CPUS, tickslock' = d
        PROVE  proc[d] \in Slots /\ pc'[proc[d]] \in {"ticktest", "ticksleep"}
    <3>1. CASE d = c
      BY Zenon, <3>1, <2>2, <1>a, <1>b DEF Frame, Moves, Ticking
    <3>2. CASE d # c
      <4>1. tickslock = d /\ proc[d] \in Slots
        BY Zenon, <3>2, <2>2, <1>a, <1>b DEF Frame, Ticking
      <4>2. proc[d] # proc[c]
        BY Zenon, <4>1, <3>2, <1>a, <1>b DEF OneStack
      <4> QED BY Zenon, <4>1, <4>2, <1>b DEF Frame, Ticking
    <3> QED BY Zenon, <3>1, <3>2
  <2> QED BY Zenon, <2>1, <2>2 DEF Ticking, Frame
<1>7. \A s \in Slots : Zombies(Children(s))' = Zombies(Children(s))
  <2>1. \A s \in Slots : state'[s] = "ZOMBIE" <=> state[s] = "ZOMBIE"
    BY Zenon DEF Frame, Moves
  <2> QED BY Zenon, <2>1 DEF Frame, Zombies, Children
<1>8. NoMissedExit'
  <2> SUFFICES ASSUME NEW s \in Slots, state'[s] = "SLEEPING", chan'[s] = s
               PROVE  Zombies(Children(s)) = {}
    BY Zenon, <1>7 DEF NoMissedExit
  <2> QED BY ZenonT(40), <1>a DEF Frame, Moves, IInv, NoMissedExit
<1>9. NoMissedTick'
  <2> SUFFICES ASSUME NEW s \in Slots, state'[s] = "SLEEPING", chan'[s] = TICKS PROVE left'[s] > 0
    BY Zenon DEF NoMissedTick
  <2> QED BY Zenon, <1>a DEF Frame, Moves, IInv, NoMissedTick
<1>10. LiveParent'
  <2>1. \A s \in Slots : /\ state'[s] \in Alive <=> state[s] \in Alive
                         /\ state'[s] = "ZOMBIE" <=> state[s] = "ZOMBIE"
    BY Zenon DEF Frame, Moves, Alive
  <2> QED BY Zenon, <2>1 DEF Frame, IInv, LiveParent
<1>11. NoSchedPanic'
  BY Zenon DEF Frame, NoSchedPanic
<1> QED BY Zenon, <1>1, <1>2, <1>3, <1>4, <1>5, <1>6, <1>8, <1>9, <1>10, <1>11 DEF IInv

-----------------------------------------------------------------------------
(* A tick keeps the types of the two variables that it changes. *)
LEMMA TickTypes ==
  ASSUME TypeOK, NEW c \in CPUS, Tick(c)
  PROVE  left' \in [Slots -> Nat] /\ state' \in [Slots -> States]
<1>1. CASE c = BootCpu
  <2>1. left' = [s \in Slots |-> IF left[s] > 0 THEN left[s] - 1 ELSE 0]
    BY Zenon, <1>1 DEF Tick
  <2>2. \A s \in Slots : left[s] \in Nat /\ state[s] \in States
    BY Zenon DEF TypeOK
  <2>3. left' \in [Slots -> Nat]
    BY <2>1, <2>2
  <2>4. state' \in [Slots -> States]
    BY Zenon, <1>1, <2>2 DEF Tick, Wakeup1, States
  <2> QED BY Zenon, <2>3, <2>4
<1>2. CASE c # BootCpu
  BY Zenon, <1>2 DEF Tick, TypeOK
<1> QED BY Zenon, <1>1, <1>2

(* The fields and locals keep their types, whatever the step. *)
LEMMA TypeStep == ASSUME TypeOK, Forks, Next PROVE TypeOK'
<1>1. ASSUME NEW c \in CPUS, NEW p \in Slots, ForkAlloc(c, p) PROVE TypeOK'
  <2> DEFINE unused == {s \in Slots : state[s] = "UNUSED"}
  <2>1. CASE unused = {}
    BY Zenon, <1>1, <2>1 DEF ForkAlloc, Goto, TypeOK, Labels, table, locks
  <2>2. CASE unused # {}
    <3>1. PICK s \in Slots :
          /\ state' = [state EXCEPT ![s] = "EMBRYO"] /\ pid' = [pid EXCEPT ![s] = nextpid]
          /\ nextpid' = nextpid + 1 /\ np' = [np EXCEPT ![p] = s] /\ pc' = [pc EXCEPT ![p] = "forked"]
          /\ UNCHANGED <<parent, chan, killed, proc, scan, locks, intr, left, panic>>
      BY Zenon, <1>1, <2>2 DEF ForkAlloc, Goto
    <3> QED BY <3>1 DEF TypeOK, States, Labels, locks
  <2> QED BY Zenon, <2>1, <2>2
<1>2. ASSUME NEW c \in CPUS, NEW p \in Slots, ForkFail(c, p) PROVE TypeOK'
  BY Zenon, <1>2, SlotsLemma DEF ForkFail, Runs, Goto, TypeOK, Forks, States, Labels, Panics, table, locks
<1>3. ASSUME NEW c \in CPUS, NEW p \in Slots, ForkCopy(c, p) PROVE TypeOK'
  BY Zenon, <1>3, SlotsLemma DEF ForkCopy, Runs, Goto, TypeOK, Forks, States, Labels, Panics, table, locks
<1>4. ASSUME NEW c \in CPUS, NEW p \in Slots, ForkRun(c, p) PROVE TypeOK'
  BY Zenon, <1>4, SlotsLemma DEF ForkRun, Runs, Goto, TypeOK, Forks, States, Labels, Panics, table, locks
<1>5. ASSUME NEW c \in CPUS, NEW p \in Slots, SysExit(c, p) PROVE TypeOK'
  BY Zenon, <1>5, SlotsLemma DEF SysExit, Runs, Goto, EnterExit, TypeOK, Forks, States, Labels, Panics, table, locks
<1>6. ASSUME NEW c \in CPUS, NEW p \in Slots, Fault(c, p) PROVE TypeOK'
  BY Zenon, <1>6, SlotsLemma DEF Fault, Runs, Goto, EnterExit, TypeOK, Forks, States, Labels, Panics, table, locks
<1>7. ASSUME NEW c \in CPUS, NEW p \in Slots, Exit(c, p) PROVE TypeOK'
  BY Zenon, <1>7, SlotsLemma DEF Exit, Runs, Goto, ExitStates, ExitParents, Wakeup1, TypeOK, Forks, States, Labels, Panics, table, locks
<1>8. ASSUME NEW c \in CPUS, NEW p \in Slots, SysWait(c, p) PROVE TypeOK'
  BY Zenon, <1>8, SlotsLemma DEF SysWait, Runs, Goto, Syscall, TypeOK, Forks, States, Labels, Panics, table, locks
<1>9. ASSUME NEW c \in CPUS, NEW p \in Slots, WaitReap(c, p) PROVE TypeOK'
  <2>1. PICK z \in Slots :
        /\ state' = [state EXCEPT ![z] = "UNUSED"] /\ pid' = [pid EXCEPT ![z] = 0]
        /\ parent' = [parent EXCEPT ![z] = None] /\ killed' = [killed EXCEPT ![z] = FALSE]
    BY Zenon, <1>9 DEF WaitReap
  <2>2. /\ ptlock' = NoCpu /\ pc' = [pc EXCEPT ![p] = "sysret"]
        /\ UNCHANGED <<chan, nextpid, proc, scan, tickslock, intr, np, left, panic>>
    BY Zenon, <1>9 DEF WaitReap, Goto
  <2> QED BY Zenon, <2>1, <2>2 DEF TypeOK, States, Labels
<1>10. ASSUME NEW c \in CPUS, NEW p \in Slots, WaitNone(c, p) PROVE TypeOK'
  BY Zenon, <1>10, SlotsLemma DEF WaitNone, Runs, Goto, TypeOK, Forks, States, Labels, Panics, table, locks
<1>11. ASSUME NEW c \in CPUS, NEW p \in Slots, WaitSleep(c, p) PROVE TypeOK'
  BY Zenon, <1>11, SlotsLemma DEF WaitSleep, Runs, Goto, TypeOK, Forks, States, Labels, Panics, table, locks
<1>12. ASSUME NEW c \in CPUS, NEW p \in Slots, SysSleep(c, p) PROVE TypeOK'
  <2>1. PICK n \in 0..MaxSleep : left' = [left EXCEPT ![p] = n]
    BY Zenon, <1>12 DEF SysSleep
  <2>2. n \in Nat
    BY BoundAssumption
  <2> QED BY Zenon, <1>12, <2>1, <2>2 DEF SysSleep, Goto, TypeOK, Labels, table
<1>13. ASSUME NEW c \in CPUS, NEW p \in Slots, TickTest(c, p) PROVE TypeOK'
  <2>1. pc' \in [Slots -> Labels] /\ tickslock' \in CPUS \cup {NoCpu}
    BY Zenon, <1>13 DEF TickTest, Goto, TypeOK, Labels
  <2> QED BY Zenon, <1>13, <2>1 DEF TickTest, TypeOK, table
<1>14. ASSUME NEW c \in CPUS, NEW p \in Slots, TickSleep(c, p) PROVE TypeOK'
  BY Zenon, <1>14, SlotsLemma DEF TickSleep, Runs, Goto, TypeOK, Forks, States, Labels, Panics, table, locks
<1>15. ASSUME NEW c \in CPUS, NEW p \in Slots, SysRet(c, p) PROVE TypeOK'
  BY ZenonT(40), <1>15, SlotsLemma DEF SysRet, Runs, Goto, EnterExit, TypeOK, Forks, States, Labels, Panics, table, locks
<1>16. ASSUME NEW c \in CPUS, NEW p \in Slots, Timer(c, p) PROVE TypeOK'
  <2>1. left' \in [Slots -> Nat] /\ state' \in [Slots -> States]
    BY Zenon, <1>16, TickTypes DEF Timer
  <2> QED BY Zenon, <1>16, <2>1 DEF Timer, TypeOK, locks
<1>17. ASSUME NEW c \in CPUS, NEW p \in Slots, TimerKilled(c, p) PROVE TypeOK'
  BY ZenonT(40), <1>17, SlotsLemma DEF TimerKilled, Runs, Goto, EnterExit, TypeOK, Forks, States, Labels, Panics, table, locks
<1>18. ASSUME NEW c \in CPUS, NEW p \in Slots, Yield(c, p) PROVE TypeOK'
  BY Zenon, <1>18, SlotsLemma DEF Yield, Runs, Goto, TypeOK, Forks, States, Labels, Panics, table, locks
<1>19. ASSUME NEW c \in CPUS, NEW p \in Slots, Sched(c, p) PROVE TypeOK'
  <2>1. NextScan(p) \in 1..NPROC + 1
    BY TableAssumption DEF NextScan, Slots
  <2> QED BY Zenon, <1>19, <2>1 DEF Sched, TypeOK, Panics, table, locks
<1>20. ASSUME NEW c \in CPUS, NEW p \in Slots, Forkret(c, p) PROVE TypeOK'
  BY Zenon, <1>20, SlotsLemma DEF Forkret, Runs, Goto, TypeOK, Forks, States, Labels, Panics, table, locks
<1>21. ASSUME NEW c \in CPUS, NEW p \in Slots, YieldResume(c, p) PROVE TypeOK'
  BY Zenon, <1>21, SlotsLemma DEF YieldResume, Runs, Goto, TypeOK, Forks, States, Labels, Panics, table, locks
<1>22. ASSUME NEW c \in CPUS, NEW p \in Slots, WaitResume(c, p) PROVE TypeOK'
  BY Zenon, <1>22, SlotsLemma DEF WaitResume, Runs, Goto, TypeOK, Forks, States, Labels, Panics, table, locks
<1>23. ASSUME NEW c \in CPUS, NEW p \in Slots, TickResume(c, p) PROVE TypeOK'
  BY Zenon, <1>23, SlotsLemma DEF TickResume, Runs, Goto, TypeOK, Forks, States, Labels, Panics, table, locks
<1>24. ASSUME NEW c \in CPUS, NEW p \in Slots, TickAcquire(c, p) PROVE TypeOK'
  BY Zenon, <1>24, SlotsLemma DEF TickAcquire, Runs, Goto, TypeOK, Forks, States, Labels, Panics, table, locks
<1>25. ASSUME NEW c \in CPUS, NEW p \in Slots, NEW k \in KillPids, Kill(c, p, k) PROVE TypeOK'
  <2>1. killed' \in [Slots -> BOOLEAN] /\ state' \in [Slots -> States]
    BY Zenon, <1>25 DEF Kill, KilledState, TypeOK, States
  <2> QED BY Zenon, <1>25, <2>1 DEF Kill, Goto, TypeOK, Labels, locks
<1>26. ASSUME NEW c \in CPUS, TimerIdle(c) PROVE TypeOK'
  <2>1. left' \in [Slots -> Nat] /\ state' \in [Slots -> States]
    BY Zenon, <1>26, TickTypes DEF TimerIdle
  <2> QED BY Zenon, <1>26, <2>1 DEF TimerIdle, TypeOK, locks
<1>27. ASSUME NEW c \in CPUS, SchedAcquire(c) PROVE TypeOK'
  <2>1. 1 \in 1..NPROC + 1
    BY TableAssumption
  <2> QED BY Zenon, <1>27, <2>1 DEF SchedAcquire, TypeOK, table
<1>28. ASSUME NEW c \in CPUS, SchedSwitch(c) PROVE TypeOK'
  <2>1. PICK s \in Slots : proc' = [proc EXCEPT ![c] = s] /\ state' = [state EXCEPT ![s] = "RUNNING"]
    BY Zenon, <1>28 DEF SchedSwitch
  <2>2. UNCHANGED <<pid, parent, chan, killed, nextpid, scan, locks, pc, intr, np, left, panic>>
    BY Zenon, <1>28 DEF SchedSwitch
  <2> QED BY Zenon, <2>1, <2>2 DEF TypeOK, States, locks
<1>29. ASSUME NEW c \in CPUS, SchedRelease(c) PROVE TypeOK'
  BY Zenon, <1>29, SlotsLemma DEF SchedRelease, Tick, Wakeup1, TypeOK, States, table, locks
<1>30. CASE Halted
  BY Zenon, <1>30 DEF Halted, vars, table, locks, TypeOK
<1> QED BY <1>1, <1>2, <1>3, <1>4, <1>5, <1>6, <1>7, <1>8, <1>9, <1>10, <1>11, <1>12, <1>13, <1>14, <1>15, <1>16, <1>17, <1>18, <1>19, <1>20, <1>21, <1>22, <1>23, <1>24, <1>25, <1>26, <1>27, <1>28, <1>29, <1>30 DEF Next, Body, Locked, User, Scheduler

-----------------------------------------------------------------------------
(* What the invariant says of the process that a cpu is running. *)
LEMMA OnLemma ==
  ASSUME IInv, NEW c \in CPUS, NEW p \in Slots, proc[c] = p
  PROVE  /\ ~InSched(p) => state[p] = "RUNNING"
         /\ HasPtlock(p) => ptlock = c
         /\ pc[p] \in {"ticktest", "ticksleep"} <=> tickslock = c
         /\ intr[p] # "none" => pc[p] \in Preemptible
         /\ p = InitProc => pc[p] \notin {"exit", "zombie"}
         /\ pc[p] = "ticksleep" => left[p] > 0
<1>1. OnCpu /\ OffCpu /\ InitStays /\ Ticking
  BY Zenon DEF IInv
<1> QED BY Zenon, <1>1, SlotsLemma DEF OnCpu, OffCpu, InitStays, Ticking

(* The steps of the process on a cpu that leave the other processes alone. *)
LEMMA LocalSteps ==
  ASSUME IInv, TypeOK', NEW c \in CPUS, NEW p \in Slots,
         \/ SysExit(c, p) \/ Fault(c, p) \/ SysRet(c, p) \/ TimerKilled(c, p)
         \/ SysWait(c, p) \/ WaitNone(c, p) \/ WaitSleep(c, p) \/ WaitResume(c, p)
         \/ SysSleep(c, p) \/ TickTest(c, p) \/ TickSleep(c, p) \/ TickResume(c, p) \/ TickAcquire(c, p)
         \/ Yield(c, p) \/ YieldResume(c, p) \/ Forkret(c, p)
  PROVE  IInv'
<1>t. /\ pc \in [Slots -> Labels] /\ state \in [Slots -> States]
      /\ intr \in [Slots -> {"none", "trap", "yielded"}]
      /\ chan \in [Slots -> Slots \cup {None, TICKS}] /\ left \in [Slots -> Nat]
      /\ NoCpu \notin CPUS /\ panic \in {"", "init exiting"}
      /\ p # None
  BY Zenon, CpuAssumption, SlotsLemma DEF IInv, TypeOK, NoSchedPanic
<1>o. proc[c] = p =>
         /\ ~InSched(p) => state[p] = "RUNNING"
         /\ HasPtlock(p) => ptlock = c
         /\ pc[p] \in {"ticktest", "ticksleep"} <=> tickslock = c
         /\ intr[p] # "none" => pc[p] \in Preemptible
         /\ p = InitProc => pc[p] \notin {"exit", "zombie"}
         /\ pc[p] = "ticksleep" => left[p] > 0
  BY Zenon, OnLemma
<1>s. SUFFICES proc[c] = p /\ Frame(c) /\ Moves(c, p)
  BY Zenon, LocalStep, <1>t
<1>1. CASE SysExit(c, p)
  <2>1. proc[c] = p /\ Frame(c)
    BY Zenon, <1>1, <1>t, <1>o DEF SysExit, Runs, Goto, Free, EnterExit, Frame, HasPtlock, table, locks
  <2>2. Moves(c, p)
    BY Zenon, <1>1, <2>1, <1>t, <1>o DEF SysExit, Runs, Goto, Free, EnterExit, Moves, InSched, HasPtlock, Preemptible, table, locks
  <2> QED BY Zenon, <2>1, <2>2
<1>2. CASE Fault(c, p)
  <2>1. proc[c] = p /\ Frame(c)
    BY Zenon, <1>2, <1>t, <1>o DEF Fault, Runs, Goto, Free, EnterExit, Frame, HasPtlock, table, locks
  <2>2. Moves(c, p)
    BY Zenon, <1>2, <2>1, <1>t, <1>o DEF Fault, Runs, Goto, Free, EnterExit, Moves, InSched, HasPtlock, Preemptible, table, locks
  <2> QED BY <2>1, <2>2
<1>3. CASE SysRet(c, p)
  <2>1. proc[c] = p /\ Frame(c)
    BY Zenon, <1>3, <1>t, <1>o DEF SysRet, Runs, Goto, Free, EnterExit, Frame, HasPtlock, table, locks
  <2>2. Moves(c, p)
    BY Zenon, <1>3, <2>1, <1>t, <1>o DEF SysRet, Runs, Goto, Free, EnterExit, Moves, InSched, HasPtlock, Preemptible, table, locks
  <2> QED BY <2>1, <2>2
<1>4. CASE TimerKilled(c, p)
  <2>1. proc[c] = p /\ Frame(c)
    BY Zenon, <1>4, <1>t, <1>o DEF TimerKilled, Runs, Goto, Free, EnterExit, Frame, HasPtlock, table, locks
  <2>2. Moves(c, p)
    BY Zenon, <1>4, <2>1, <1>t, <1>o DEF TimerKilled, Runs, Goto, Free, EnterExit, Moves, InSched, HasPtlock, Preemptible, table, locks
  <2> QED BY <2>1, <2>2
<1>5. CASE SysWait(c, p)
  <2>1. proc[c] = p /\ Frame(c)
    BY Zenon, <1>5, <1>t, <1>o DEF SysWait, Runs, Goto, Free, Syscall, Frame, HasPtlock, table, locks
  <2>2. Moves(c, p)
    BY Zenon, <1>5, <2>1, <1>t, <1>o DEF SysWait, Runs, Goto, Free, Syscall, Moves, InSched, HasPtlock, Preemptible, table, locks
  <2> QED BY <2>1, <2>2
<1>6. CASE WaitNone(c, p)
  <2>1. proc[c] = p /\ Frame(c)
    BY Zenon, <1>6, <1>t, <1>o DEF WaitNone, Runs, Goto, Free, Frame, HasPtlock, table, locks
  <2>2. Moves(c, p)
    BY Zenon, <1>6, <2>1, <1>t, <1>o DEF WaitNone, Runs, Goto, Free, Moves, InSched, HasPtlock, Preemptible, table, locks
  <2> QED BY <2>1, <2>2
<1>7. CASE WaitSleep(c, p)
  <2>1. proc[c] = p /\ Frame(c)
    BY Zenon, <1>7, <1>t, <1>o DEF WaitSleep, Runs, Goto, Free, Frame, HasPtlock, table, locks
  <2>2. Moves(c, p)
    BY Zenon, <1>7, <2>1, <1>t, <1>o DEF WaitSleep, Runs, Goto, Free, Moves, InSched, HasPtlock, Preemptible, table, locks
  <2> QED BY <2>1, <2>2
<1>8. CASE WaitResume(c, p)
  <2>1. proc[c] = p /\ Frame(c)
    BY Zenon, <1>8, <1>t, <1>o DEF WaitResume, Runs, Goto, Free, Frame, HasPtlock, table, locks
  <2>2. Moves(c, p)
    BY Zenon, <1>8, <2>1, <1>t, <1>o DEF WaitResume, Runs, Goto, Free, Moves, InSched, HasPtlock, Preemptible, table, locks
  <2> QED BY <2>1, <2>2
<1>9. CASE SysSleep(c, p)
  <2>1. proc[c] = p /\ Frame(c)
    BY Zenon, <1>9, <1>t, <1>o DEF SysSleep, Runs, Goto, Free, Syscall, Frame, HasPtlock, table, locks
  <2>2. Moves(c, p)
    BY Zenon, <1>9, <2>1, <1>t, <1>o DEF SysSleep, Runs, Goto, Free, Syscall, Moves, InSched, HasPtlock, Preemptible, table, locks
  <2> QED BY <2>1, <2>2
<1>10. CASE TickTest(c, p)
  <2>1. proc[c] = p /\ Frame(c)
    BY Zenon, <1>10, <1>t, <1>o DEF TickTest, Runs, Goto, Free, Frame, HasPtlock, table, locks
  <2>a. pc[p] = "ticktest" /\ intr[p] = "none" /\ state' = state /\ intr' = intr /\ left' = left
    BY Zenon, <1>10 DEF TickTest, Runs, table
  <2>b. \/ pc'[p] = "sysret" /\ tickslock' = NoCpu
        \/ pc'[p] = "ticksleep" /\ tickslock' = tickslock /\ left[p] > 0
    <3>1. CASE left[p] = 0 \/ killed[p]
      BY Zenon, <1>10, <1>t, <3>1 DEF TickTest, Goto
    <3>2. CASE ~(left[p] = 0 \/ killed[p])
      <4>1. pc'[p] = "ticksleep" /\ tickslock' = tickslock
        BY Zenon, <1>10, <1>t, <3>2 DEF TickTest, Goto
      <4>2. left[p] \in Nat /\ left[p] # 0
        BY Zenon, <1>t, <3>2
      <4>3. left[p] > 0
        BY ONLY <4>2
      <4> QED BY ONLY <4>1, <4>3
    <3> QED BY Zenon, <3>1, <3>2
  <2>2. Moves(c, p)
    BY Zenon, <2>a, <2>b, <2>1, <1>t, <1>o DEF Moves, InSched, HasPtlock, Preemptible
  <2> QED BY <2>1, <2>2
<1>11. CASE TickSleep(c, p)
  <2>1. proc[c] = p /\ Frame(c)
    BY Zenon, <1>11, <1>t, <1>o DEF TickSleep, Runs, Goto, Free, Frame, HasPtlock, table, locks
  <2>2. Moves(c, p)
    BY Zenon, <1>11, <2>1, <1>t, <1>o DEF TickSleep, Runs, Goto, Free, Moves, InSched, HasPtlock, Preemptible, table, locks
  <2> QED BY <2>1, <2>2
<1>12. CASE TickResume(c, p)
  <2>1. proc[c] = p /\ Frame(c)
    BY Zenon, <1>12, <1>t, <1>o DEF TickResume, Runs, Goto, Free, Frame, HasPtlock, table, locks
  <2>2. Moves(c, p)
    BY Zenon, <1>12, <2>1, <1>t, <1>o DEF TickResume, Runs, Goto, Free, Moves, InSched, HasPtlock, Preemptible, table, locks
  <2> QED BY <2>1, <2>2
<1>13. CASE TickAcquire(c, p)
  <2>1. proc[c] = p /\ Frame(c)
    BY Zenon, <1>13, <1>t, <1>o DEF TickAcquire, Runs, Goto, Free, Frame, HasPtlock, table, locks
  <2>2. Moves(c, p)
    BY Zenon, <1>13, <2>1, <1>t, <1>o DEF TickAcquire, Runs, Goto, Free, Moves, InSched, HasPtlock, Preemptible, table, locks
  <2> QED BY <2>1, <2>2
<1>14. CASE Yield(c, p)
  <2>1. proc[c] = p /\ Frame(c)
    BY Zenon, <1>14, <1>t, <1>o DEF Yield, Runs, Goto, Free, Frame, HasPtlock, table, locks
  <2>2. Moves(c, p)
    BY Zenon, <1>14, <2>1, <1>t, <1>o DEF Yield, Runs, Goto, Free, Moves, InSched, HasPtlock, Preemptible, table, locks
  <2> QED BY <2>1, <2>2
<1>15. CASE YieldResume(c, p)
  <2>1. proc[c] = p /\ Frame(c)
    BY Zenon, <1>15, <1>t, <1>o DEF YieldResume, Runs, Goto, Free, Frame, HasPtlock, table, locks
  <2>2. Moves(c, p)
    BY Zenon, <1>15, <2>1, <1>t, <1>o DEF YieldResume, Runs, Goto, Free, Moves, InSched, HasPtlock, Preemptible, table, locks
  <2> QED BY <2>1, <2>2
<1>16. CASE Forkret(c, p)
  <2>1. proc[c] = p /\ Frame(c)
    BY Zenon, <1>16, <1>t, <1>o DEF Forkret, Runs, Goto, Free, Frame, HasPtlock, table, locks
  <2>2. Moves(c, p)
    BY Zenon, <1>16, <2>1, <1>t, <1>o DEF Forkret, Runs, Goto, Free, Moves, InSched, HasPtlock, Preemptible, table, locks
  <2> QED BY <2>1, <2>2
<1> QED BY Zenon, <1>1, <1>2, <1>3, <1>4, <1>5, <1>6, <1>7, <1>8, <1>9, <1>10, <1>11, <1>12, <1>13, <1>14, <1>15, <1>16

(* A tick wakes every process that is asleep on &ticks, and nobody is between
   testing left and going to sleep, because tickslock is free. *)
LEMMA TickLemma ==
  ASSUME IInv, NEW c \in CPUS, Tick(c), NEW s \in Slots
  PROVE  /\ state'[s] = state[s] \/ (state[s] = "SLEEPING" /\ state'[s] = "RUNNABLE")
         /\ \/ left'[s] = left[s]
            \/ pc[s] # "ticksleep" /\ ~(state'[s] = "SLEEPING" /\ chan[s] = TICKS)
<1>1. CASE c # BootCpu
  BY Zenon, <1>1 DEF Tick
<1>2. CASE c = BootCpu
  <2>1. state'[s] = IF state[s] = "SLEEPING" /\ chan[s] = TICKS THEN "RUNNABLE" ELSE state[s]
    BY Zenon, <1>2 DEF Tick, Wakeup1
  <2>2. ASSUME pc[s] = "ticksleep" PROVE FALSE
    <3>1. state[s] = "RUNNING"
      <4>1. state[s] \in States /\ OffCpu
        BY Zenon DEF IInv, TypeOK
      <4> QED BY Zenon, <2>2, <4>1 DEF OffCpu, States, Preemptible
    <3>2. PICK d \in CPUS : proc[d] = s
      BY Zenon, <3>1 DEF IInv, OneStack
    <3>3. tickslock = d
      BY Zenon, <2>2, <3>2 DEF IInv, OnCpu
    <3> QED BY Zenon, <3>3, <1>2, CpuAssumption DEF Tick, Free
  <2> QED BY Zenon, <2>1, <2>2
<1> QED BY Zenon, <1>1, <1>2

(* The timer interrupt, in a process and in the scheduler. *)
LEMMA TimerSteps ==
  ASSUME IInv, TypeOK', NEW c \in CPUS,
         TimerIdle(c) \/ \E p \in Slots : Timer(c, p)
  PROVE  IInv'
<1>n. panic \in {"", "init exiting"} /\ None \notin Slots
  BY Zenon, SlotsLemma DEF IInv, NoSchedPanic
<1>1. CASE TimerIdle(c)
  <2>1. Tick(c) /\ proc[c] = None /\ UNCHANGED <<parent, chan, proc, pc, intr, np, locks, panic>>
    BY Zenon, <1>1 DEF TimerIdle
  <2>2. Frame(c)
    BY Zenon, <2>1, <1>n, TickLemma DEF Frame, locks
  <2> QED BY Zenon, <2>1, <2>2, <1>n, LocalStep
<1>2. ASSUME NEW p \in Slots, Timer(c, p) PROVE IInv'
  <2>1. /\ Tick(c) /\ proc[c] = p /\ pc[p] \in Preemptible /\ intr[p] = "none"
        /\ intr' = [intr EXCEPT ![p] = "trap"]
        /\ UNCHANGED <<parent, chan, proc, pc, np, locks, panic>>
    BY Zenon, <1>2 DEF Timer
  <2>2. intr \in [Slots -> {"none", "trap", "yielded"}]
    BY Zenon DEF IInv, TypeOK
  <2>3. Frame(c)
    BY Zenon, <2>1, <2>2, <1>n, TickLemma DEF Frame, locks
  <2>4. state[p] = "RUNNING" /\ state'[p] = "RUNNING"
    BY Zenon, <2>1, OnLemma, TickLemma DEF InSched, Preemptible
  <2>5. /\ pc'[p] = pc[p] /\ intr'[p] = "trap" /\ tickslock' = tickslock
        /\ ~HasPtlock(p)'
    BY Zenon, <2>1, <2>2 DEF locks, HasPtlock, Preemptible
  <2>6. Moves(c, p)
    BY Zenon, <2>1, <2>4, <2>5, OnLemma DEF Moves, Preemptible
  <2> QED BY Zenon, <2>1, <2>3, <2>6, LocalStep
<1> QED BY Zenon, <1>1, <1>2

(* kill, whichever slots its pid matches. *)
LEMMA KillStep ==
  ASSUME IInv, TypeOK', NEW c \in CPUS, NEW p \in Slots, NEW k \in KillPids, Kill(c, p, k)
  PROVE  IInv'
<1>1. /\ proc[c] = p /\ pc[p] = "user" /\ intr[p] = "none" /\ pc' = [pc EXCEPT ![p] = "sysret"]
      /\ UNCHANGED <<parent, chan, proc, intr, np, left, locks, panic>>
  BY Zenon DEF Kill, Syscall, Runs, Goto
<1>2. pc \in [Slots -> Labels] /\ state \in [Slots -> States] /\ panic \in {"", "init exiting"}
  BY Zenon DEF IInv, TypeOK, NoSchedPanic
<1>3. \A s \in Slots : state'[s] = state[s] \/ (state[s] = "SLEEPING" /\ state'[s] = "RUNNABLE")
  <2> DEFINE hits == {s \in Slots : pid[s] = k}
  <2>1. CASE hits = {}
    BY Zenon, <2>1 DEF Kill
  <2>2. CASE hits # {}
    <3>1. PICK q \in Slots : state' = [state EXCEPT ![q] = KilledState(q)]
      BY Zenon, <2>2 DEF Kill
    <3> QED BY Zenon, <3>1, <1>2 DEF KilledState
  <2> QED BY Zenon, <2>1, <2>2
<1>4. state[p] = "RUNNING" /\ state'[p] = "RUNNING"
  BY Zenon, <1>1, <1>3, OnLemma DEF InSched
<1>5. Frame(c)
  BY Zenon, <1>1, <1>2, <1>3, SlotsLemma DEF Frame, locks
<1>6. Moves(c, p)
  BY Zenon, <1>1, <1>2, <1>4, OnLemma DEF Moves, HasPtlock, locks
<1> QED BY Zenon, <1>1, <1>5, <1>6, LocalStep

(* The scheduler takes and releases ptable.lock. *)
LEMMA SchedulerSteps ==
  ASSUME IInv, TypeOK', NEW c \in CPUS, SchedAcquire(c) \/ SchedRelease(c)
  PROVE  IInv'
<1>1. proc[c] = None /\ None \notin Slots /\ panic \in {"", "init exiting"}
  BY Zenon, SlotsLemma DEF SchedAcquire, SchedRelease, IInv, NoSchedPanic
<1>2. Frame(c)
  BY Zenon, <1>1 DEF SchedAcquire, SchedRelease, Frame, Free, table
<1> QED BY Zenon, <1>1, <1>2, LocalStep

-----------------------------------------------------------------------------
(* fork's steps concern the process p on cpu c and the slot k it is filling in. *)
ForkFrame(c, p, k) ==
  /\ proc[c] = p /\ p # k /\ proc' = proc
  /\ chan' = chan /\ left' = left /\ ptlock' = ptlock /\ tickslock' = tickslock /\ panic' = panic
  /\ intr[p] = "none" /\ pc[p] \in {"user", "forked", "forkrun"}
  /\ intr'[p] = "none" /\ pc'[p] \in {"forked", "forkrun", "sysret"}
  /\ state'[p] = state[p] /\ parent'[p] = parent[p]
  /\ state[k] \in {"UNUSED", "EMBRYO"}
  /\ pc'[k] \in {"forkret", "zombie"}
  /\ intr'[k] = intr[k] \/ intr'[k] = "none"
  /\ parent'[k] = parent[k] \/ parent'[k] = p
  /\ \/ state'[k] = "RUNNABLE" /\ pc'[p] = "sysret" /\ pc'[k] = "forkret" /\ parent'[k] = p
     \/ state'[k] = "UNUSED" /\ pc'[p] = "sysret"
     \/ state'[k] = "EMBRYO" /\ np'[p] = k /\ pc'[p] \in {"forked", "forkrun"}
  /\ pc'[p] = "forkrun" => parent'[k] = p
  /\ \A s \in Slots \ {p, k} :
       /\ state'[s] = state[s] /\ pc'[s] = pc[s] /\ intr'[s] = intr[s]
       /\ parent'[s] = parent[s] /\ np'[s] = np[s]
       /\ pc[s] \in {"forked", "forkrun"} => np[s] # k

(* A step of fork that is framed in this way, touching the slot it allocates,
   keeps the invariant. *)
LEMMA ForkStep ==
  ASSUME IInv, TypeOK', NEW c \in CPUS, NEW p \in Slots, NEW k \in Slots, ForkFrame(c, p, k)
  PROVE  IInv'
<1>b. OneStack /\ OnCpu /\ OffCpu /\ Forks /\ InitStays /\ Ticking
  BY Zenon DEF IInv
<1>c. proc[c] = p /\ p # k /\ proc' = proc /\ ptlock' = ptlock /\ tickslock' = tickslock
  BY Zenon DEF ForkFrame
<1>r. state[p] = "RUNNING" /\ state'[p] = "RUNNING"
  BY OnLemma DEF ForkFrame, InSched
<1>k. \A d \in CPUS : proc[d] # k
  BY Zenon, <1>b DEF OnCpu, ForkFrame, Alive
<1>i. k # InitProc /\ InitProc \in Slots
  BY Zenon, <1>b, SlotsLemma DEF InitStays, ForkFrame, Alive
<1>1. OneStack'
  <2>1. \A s \in Slots : s # k => state'[s] = state[s]
    BY Zenon, <1>r DEF ForkFrame
  <2>2. state'[k] # "RUNNING"
    BY Zenon DEF ForkFrame
  <2>3. \A d \in CPUS : proc[d] # None => proc[d] \in Slots
    BY Zenon DEF IInv, TypeOK
  <2> QED BY <2>1, <2>2, <2>3, <1>b, <1>c, <1>k DEF OneStack
<1>2. OnCpu'
  <2> SUFFICES ASSUME NEW d \in CPUS, NEW s \in Slots, proc[d] = s PROVE
         /\ state'[s] \in Alive \cup {"ZOMBIE"}
         /\ state'[s] # "RUNNING" => InSched(s)'
         /\ HasPtlock(s)' => ptlock' = d
         /\ pc'[s] \in {"ticktest", "ticksleep"} => tickslock' = d
    BY Zenon, <1>c DEF OnCpu
  <2>1. CASE s = p
    BY Zenon, <2>1, <1>r DEF ForkFrame, HasPtlock, Alive
  <2>2. CASE s # p
    <3>1. s # k /\ state'[s] = state[s] /\ pc'[s] = pc[s] /\ intr'[s] = intr[s]
      BY <2>2, <1>k DEF ForkFrame
    <3> QED BY <3>1, <1>b, <1>c DEF OnCpu, InSched, HasPtlock
  <2> QED BY Zenon, <2>1, <2>2
<1>3. OffCpu'
  <2> SUFFICES ASSUME NEW s \in Slots PROVE
         /\ state'[s] \in {"RUNNABLE", "SLEEPING"} =>
              intr'[s] = "yielded" \/ pc'[s] \in {"forkret", "waitslept", "tickslept"}
         /\ state'[s] \in {"UNUSED", "EMBRYO", "ZOMBIE"} => pc'[s] \in {"forkret", "zombie"}
         /\ intr'[s] # "none" => pc'[s] \in Preemptible
    BY Zenon DEF OffCpu
  <2>1. CASE s = p
    BY Zenon, <2>1, <1>r DEF ForkFrame
  <2>2. CASE s = k
    <3>1. intr[k] = "none"
      BY Zenon, <1>b DEF OffCpu, ForkFrame, Preemptible
    <3> QED BY Zenon, <2>2, <3>1 DEF ForkFrame
  <2>3. CASE s # p /\ s # k
    BY <2>3, <1>b DEF OffCpu, ForkFrame
  <2> QED BY Zenon, <2>1, <2>2, <2>3
<1>4. Forks'
  <2>1. ASSUME NEW s \in Slots, pc'[s] \in {"forked", "forkrun"}, s # p
        PROVE  /\ pc[s] = pc'[s] /\ np'[s] = np[s] /\ np[s] \in Slots \ {k, p}
               /\ state[np[s]] = "EMBRYO"
    <3>1. s # k /\ pc[s] = pc'[s] /\ np'[s] = np[s] /\ np[s] # k
      BY Zenon, <2>1 DEF ForkFrame
    <3> QED BY Zenon, <3>1, <2>1, <1>b, <1>r DEF Forks
  <2>2. pc'[p] \in {"forked", "forkrun"} =>
          np'[p] = k /\ state'[k] = "EMBRYO" /\ (pc'[p] = "forkrun" => parent'[k] = p)
    BY Zenon DEF ForkFrame
  <2>3. \A s \in Slots \ {k, p} : state'[s] = state[s] /\ parent'[s] = parent[s]
    BY DEF ForkFrame
  <2> SUFFICES ASSUME NEW s \in Slots, pc'[s] \in {"forked", "forkrun"} PROVE
         /\ np'[s] \in Slots /\ state'[np'[s]] = "EMBRYO"
         /\ pc'[s] = "forkrun" => parent'[np'[s]] = s
         /\ \A q \in Slots : pc'[q] \in {"forked", "forkrun"} /\ np'[q] = np'[s] => q = s
    BY Zenon DEF Forks
  <2>4. CASE s = p
    BY Zenon, <2>1, <2>2, <2>4
  <2>5. CASE s # p
    BY <2>1, <2>2, <2>3, <2>5, <1>b DEF Forks
  <2> QED BY Zenon, <2>4, <2>5
<1>5. InitStays'
  <2>1. state'[InitProc] = state[InitProc] /\ parent'[InitProc] = parent[InitProc]
    BY Zenon, <1>i DEF ForkFrame
  <2>2. pc'[InitProc] \notin {"exit", "zombie"}
    BY Zenon, <1>i, <1>b DEF ForkFrame, InitStays
  <2>3. \A s \in Slots : parent'[s] # s
    BY <1>b DEF ForkFrame, InitStays
  <2> QED BY Zenon, <2>1, <2>2, <2>3, <1>b DEF InitStays
<1>6. Ticking'
  <2>1. \A s \in Slots : pc'[s] = "ticksleep" => pc[s] = "ticksleep"
    BY Zenon DEF ForkFrame
  <2>2. \A s \in Slots : pc[s] \in {"ticktest", "ticksleep"} => s # p /\ s # k
    BY <1>b DEF ForkFrame, OffCpu
  <2>3. left' = left /\ \A s \in Slots : s # p /\ s # k => pc'[s] = pc[s]
    BY Zenon DEF ForkFrame
  <2> QED BY Zenon, <2>1, <2>2, <2>3, <1>b, <1>c DEF Ticking
<1>7. \A s \in Slots : Zombies(Children(s))' = Zombies(Children(s))
  <2>1. \A s \in Slots : state'[s] = "ZOMBIE" <=> state[s] = "ZOMBIE"
    BY <1>r DEF ForkFrame
  <2>2. \A s \in Slots : state[s] = "ZOMBIE" => parent'[s] = parent[s]
    BY Zenon DEF ForkFrame
  <2> QED BY Zenon, <2>1, <2>2 DEF Zombies, Children
<1>8. NoMissedExit' /\ NoMissedTick'
  <2>1. \A s \in Slots : state'[s] = "SLEEPING" => state[s] = "SLEEPING"
    BY Zenon, <1>r DEF ForkFrame
  <2> QED BY Zenon, <2>1, <1>7 DEF IInv, NoMissedExit, NoMissedTick, ForkFrame
<1>9. LiveParent'
  <2>1. \A s \in Slots : state[s] \in Alive => state'[s] \in Alive
    BY <1>r DEF ForkFrame, Alive
  <2> SUFFICES ASSUME NEW s \in Slots \ {InitProc}, state'[s] \in Alive \cup {"ZOMBIE"}
               PROVE  parent'[s] \in Slots /\ state'[parent'[s]] \in Alive
    BY Zenon DEF LiveParent
  <2>2. CASE s = k
    BY Zenon, <2>2, <1>r DEF ForkFrame, Alive
  <2>3. CASE s # k
    <3>1. parent'[s] = parent[s] /\ state'[s] = state[s]
      BY Zenon, <2>3 DEF ForkFrame
    <3> QED BY Zenon, <3>1, <2>1 DEF IInv, LiveParent
  <2> QED BY Zenon, <2>2, <2>3
<1>10. NoSchedPanic'
  BY Zenon DEF IInv, NoSchedPanic, ForkFrame
<1> QED BY Zenon, <1>1, <1>2, <1>3, <1>4, <1>5, <1>6, <1>8, <1>9, <1>10 DEF IInv

(* Each of fork's four steps keeps the invariant. *)
LEMMA ForkSteps ==
  ASSUME IInv, TypeOK', NEW c \in CPUS, NEW p \in Slots,
         ForkAlloc(c, p) \/ ForkFail(c, p) \/ ForkCopy(c, p) \/ ForkRun(c, p)
  PROVE  IInv'
<1>t. /\ pc \in [Slots -> Labels] /\ state \in [Slots -> States]
      /\ intr \in [Slots -> {"none", "trap", "yielded"}]
      /\ np \in [Slots -> Slots \cup {None}] /\ parent \in [Slots -> Slots \cup {None}]
      /\ OffCpu /\ Forks /\ panic \in {"", "init exiting"}
  BY Zenon DEF IInv, TypeOK, NoSchedPanic
<1>o. proc[c] = p /\ pc[p] \in {"user", "forked", "forkrun"} /\ intr[p] = "none"
  BY Zenon DEF ForkAlloc, ForkFail, ForkCopy, ForkRun, Syscall, Runs
<1>r. state[p] = "RUNNING"
  BY Zenon, <1>o, OnLemma DEF InSched
<1>1. CASE ForkAlloc(c, p)
  <2> DEFINE unused == {s \in Slots : state[s] = "UNUSED"}
  <2>1. CASE unused = {}
    <3>1. /\ pc' = [pc EXCEPT ![p] = "sysret"]
          /\ UNCHANGED <<table, np, proc, locks, intr, left, panic>>
      BY Zenon, <1>1, <2>1 DEF ForkAlloc, Goto
    <3>2. Frame(c)
      BY Zenon, <3>1, <1>t, <1>o, SlotsLemma DEF Frame, table, locks
    <3>3. pc[p] = "user"
      BY Zenon, <1>1 DEF ForkAlloc, Syscall, Runs
    <3>4. Moves(c, p)
      BY Zenon, <3>1, <3>3, <1>t, <1>o, <1>r, OnLemma DEF Moves, HasPtlock, table, locks
    <3> QED BY Zenon, <3>2, <3>4, <1>o, LocalStep
  <2>2. CASE unused # {}
    <3>1. PICK k \in Slots :
          /\ k \in unused
          /\ state' = [state EXCEPT ![k] = "EMBRYO"] /\ np' = [np EXCEPT ![p] = k]
          /\ pc' = [pc EXCEPT ![p] = "forked"]
          /\ UNCHANGED <<parent, chan, proc, locks, intr, left, panic>>
      BY Zenon, <1>1, <2>2 DEF ForkAlloc, Goto, First
    <3>3. pc[k] \in {"forkret", "zombie"} /\ k # p /\ k \in Slots /\ state[k] = "UNUSED"
      BY Zenon, <3>1, <1>t, <1>r DEF OffCpu
    <3>4. \A s \in Slots \ {p, k} : pc[s] \in {"forked", "forkrun"} => np[s] # k
      BY Zenon, <3>3, <1>t DEF Forks
    <3>5. ForkFrame(c, p, k)
      BY Zenon, <3>1, <3>3, <3>4, <1>t, <1>o, <1>r DEF ForkFrame, locks
    <3> QED BY Zenon, <3>3, <3>5, ForkStep
  <2> QED BY Zenon, <2>1, <2>2
<1>2. CASE ForkFail(c, p) \/ ForkCopy(c, p) \/ ForkRun(c, p)
  <2> DEFINE k == np[p]
  <2>1. pc[p] \in {"forked", "forkrun"}
    BY Zenon, <1>2 DEF ForkFail, ForkCopy, ForkRun, Runs
  <2>2. /\ k \in Slots /\ state[k] = "EMBRYO" /\ k # p
        /\ pc[p] = "forkrun" => parent[k] = p
        /\ \A s \in Slots \ {p, k} : pc[s] \in {"forked", "forkrun"} => np[s] # k
    BY Zenon, <2>1, <1>t, <1>r DEF Forks
  <2>3. pc[k] \in {"forkret", "zombie"}
    BY Zenon, <2>2, <1>t DEF OffCpu
  <2>4. ForkFrame(c, p, k)
    <3>1. CASE ForkFail(c, p)
      BY Zenon, <3>1, <2>2, <2>3, <1>t, <1>o, <1>r DEF ForkFail, Runs, Goto, ForkFrame, locks
    <3>2. CASE ForkCopy(c, p)
      BY Zenon, <3>2, <2>2, <2>3, <1>t, <1>o, <1>r DEF ForkCopy, Runs, Goto, ForkFrame, locks
    <3>3. CASE ForkRun(c, p)
      BY Zenon, <3>3, <2>2, <2>3, <1>t, <1>o, <1>r DEF ForkRun, Runs, ForkFrame, locks
    <3> QED BY Zenon, <1>2, <3>1, <3>2, <3>3
  <2> QED BY Zenon, <2>2, <2>4, ForkStep
<1> QED BY Zenon, <1>1, <1>2

-----------------------------------------------------------------------------
(* A parent reaps a zombie: nobody is on the zombie's stack any more, because the
   parent holds ptable.lock and runs on a stack of its own. *)
LEMMA ReapStep ==
  ASSUME IInv, TypeOK', NEW c \in CPUS, NEW p \in Slots, WaitReap(c, p)
  PROVE  IInv'
<1>t. /\ pc \in [Slots -> Labels] /\ state \in [Slots -> States]
      /\ parent \in [Slots -> Slots \cup {None}]
      /\ \A d \in CPUS : proc[d] # None => proc[d] \in Slots
      /\ NoCpu \notin CPUS /\ None \notin Slots /\ InitProc \in Slots
  BY Zenon, SlotsLemma, CpuAssumption DEF IInv, TypeOK
<1>b. OneStack /\ OnCpu /\ OffCpu /\ Forks /\ InitStays /\ Ticking
  BY Zenon DEF IInv
<1>0. PICK z \in Slots :
      /\ z \in Zombies(Children(p))
      /\ state' = [state EXCEPT ![z] = "UNUSED"] /\ parent' = [parent EXCEPT ![z] = None]
  BY Zenon DEF WaitReap, First
<1>z. z \in Slots /\ state[z] = "ZOMBIE" /\ parent[z] = p
  BY Zenon, <1>0 DEF Zombies, Children
<1>e. /\ state' = [state EXCEPT ![z] = "UNUSED"] /\ parent' = [parent EXCEPT ![z] = None]
      /\ pc' = [pc EXCEPT ![p] = "sysret"] /\ ptlock' = NoCpu
      /\ proc[c] = p /\ pc[p] = "waitscan" /\ intr[p] = "none"
      /\ UNCHANGED <<chan, proc, tickslock, intr, np, left, panic>>
  BY Zenon, <1>0 DEF WaitReap, Runs, Goto
<1>r. state[p] = "RUNNING" /\ ptlock = c /\ p # z /\ z # InitProc
  BY Zenon, <1>e, <1>z, <1>b, OnLemma DEF InSched, HasPtlock, InitStays, Alive
<1>n. \A d \in CPUS : proc[d] # z /\ (d # c /\ proc[d] # None => state[proc[d]] = "RUNNING")
  BY Zenon, <1>e, <1>z, <1>r, <1>b, <1>t DEF OneStack
<1>1. OneStack'
  BY <1>e, <1>z, <1>r, <1>n, <1>b, <1>t DEF OneStack
<1>2. OnCpu'
  <2> SUFFICES ASSUME NEW d \in CPUS, NEW s \in Slots, proc[d] = s PROVE
         /\ state'[s] \in Alive \cup {"ZOMBIE"}
         /\ state'[s] # "RUNNING" => InSched(s)'
         /\ HasPtlock(s)' => ptlock' = d
         /\ pc'[s] \in {"ticktest", "ticksleep"} => tickslock' = d
    BY Zenon, <1>e DEF OnCpu
  <2>1. CASE s = p
    BY Zenon, <2>1, <1>e, <1>t, <1>r DEF HasPtlock, Alive
  <2>2. CASE s # p
    <3>1. d # c /\ s # z /\ state'[s] = state[s] /\ pc'[s] = pc[s] /\ intr'[s] = intr[s]
      BY Zenon, <2>2, <1>e, <1>n, <1>t
    <3>2. ~HasPtlock(s)
      BY Zenon, <3>1, <1>r, <1>b DEF OnCpu
    <3> QED BY <3>1, <3>2, <1>b, <1>e DEF OnCpu, InSched, HasPtlock
  <2> QED BY Zenon, <2>1, <2>2
<1>3. OffCpu'
  <2> SUFFICES ASSUME NEW s \in Slots PROVE
         /\ state'[s] \in {"RUNNABLE", "SLEEPING"} =>
              intr'[s] = "yielded" \/ pc'[s] \in {"forkret", "waitslept", "tickslept"}
         /\ state'[s] \in {"UNUSED", "EMBRYO", "ZOMBIE"} => pc'[s] \in {"forkret", "zombie"}
         /\ intr'[s] # "none" => pc'[s] \in Preemptible
    BY Zenon DEF OffCpu
  <2> QED BY Zenon, <1>e, <1>z, <1>r, <1>t, <1>b DEF OffCpu
<1>4. Forks'
  <2>1. \A s \in Slots : pc'[s] \in {"forked", "forkrun"} => pc'[s] = pc[s]
    BY Zenon, <1>e, <1>t
  <2>2. \A s \in Slots : s # z => state'[s] = state[s] /\ parent'[s] = parent[s]
    BY Zenon, <1>e, <1>t
  <2>3. \A s \in Slots : pc[s] \in {"forked", "forkrun"} => np[s] # z
    BY Zenon, <1>z, <1>b DEF Forks
  <2> SUFFICES ASSUME NEW s \in Slots, pc'[s] \in {"forked", "forkrun"} PROVE
         /\ np[s] \in Slots /\ state'[np[s]] = "EMBRYO"
         /\ pc'[s] = "forkrun" => parent'[np[s]] = s
         /\ \A q \in Slots : pc'[q] \in {"forked", "forkrun"} /\ np[q] = np[s] => q = s
    BY ZenonT(40), <1>e DEF Forks
  <2> QED BY <2>1, <2>2, <2>3, <1>b DEF Forks
<1>5. InitStays'
  BY Zenon, <1>e, <1>r, <1>t, <1>b DEF InitStays
<1>6. Ticking'
  BY Zenon, <1>e, <1>r, <1>t, <1>b DEF Ticking
<1>7. NoMissedExit' /\ NoMissedTick'
  <2>1. \A s \in Slots : Zombies(Children(s))' \subseteq Zombies(Children(s))
    BY Zenon, <1>e, <1>z, <1>t DEF Zombies, Children
  <2>2. \A s \in Slots : state'[s] = "SLEEPING" => state[s] = "SLEEPING"
    BY Zenon, <1>e, <1>t
  <2> QED BY Zenon, <2>1, <2>2, <1>e DEF IInv, NoMissedExit, NoMissedTick
<1>8. LiveParent'
  <2>1. \A s \in Slots : s # z => state'[s] = state[s] /\ parent'[s] = parent[s]
    BY <1>e, <1>t
  <2> SUFFICES ASSUME NEW s \in Slots \ {InitProc}, state'[s] \in Alive \cup {"ZOMBIE"}
               PROVE  parent'[s] \in Slots /\ state'[parent'[s]] \in Alive
    BY Zenon DEF LiveParent
  <2>2. s # z
    BY Zenon, <1>e, <1>t, <1>z DEF Alive
  <2>3. parent[s] \in Slots /\ state[parent[s]] \in Alive
    BY Zenon, <2>1, <2>2 DEF IInv, LiveParent
  <2>4. parent[s] # z
    BY Zenon, <2>3, <1>z DEF Alive
  <2> QED BY Zenon, <2>1, <2>2, <2>3, <2>4
<1>9. NoSchedPanic'
  BY Zenon, <1>e DEF IInv, NoSchedPanic
<1> QED BY Zenon, <1>1, <1>2, <1>3, <1>4, <1>5, <1>6, <1>7, <1>8, <1>9 DEF IInv

(* exit: whoever must reap the process, or a zombie it leaves behind, is awake. *)
LEMMA ExitStep ==
  ASSUME IInv, TypeOK', NEW c \in CPUS, NEW p \in Slots, Exit(c, p)
  PROVE  IInv'
<1>t. /\ pc \in [Slots -> Labels] /\ state \in [Slots -> States]
      /\ parent \in [Slots -> Slots \cup {None}]
      /\ \A d \in CPUS : proc[d] # None => proc[d] \in Slots
      /\ NoCpu \notin CPUS /\ None \notin Slots /\ InitProc \in Slots
  BY SlotsLemma, CpuAssumption DEF IInv, TypeOK
<1>b. OneStack /\ OnCpu /\ OffCpu /\ Forks /\ InitStays /\ Ticking
  BY DEF IInv
<1>e. /\ proc[c] = p /\ pc[p] = "exit" /\ intr[p] = "none" /\ ptlock = NoCpu /\ ptlock' = c
      /\ pc' = [pc EXCEPT ![p] = "zombie"]
      /\ UNCHANGED <<chan, proc, tickslock, intr, np, left, panic>>
  BY Zenon DEF Exit, Runs, Goto, Free
<1>p. \A s \in Slots : parent'[s] = IF parent[s] = p THEN InitProc ELSE parent[s]
  BY Zenon DEF Exit, ExitParents
<1>s. /\ state'[p] = "ZOMBIE"
      /\ \A s \in Slots \ {p} :
           /\ state'[s] = state[s] \/ (state[s] = "SLEEPING" /\ state'[s] = "RUNNABLE")
           /\ state'[s] = "SLEEPING" => chan[s] # parent[p]
           /\ state'[s] = "SLEEPING" /\ chan[s] = InitProc => Zombies(Children(p)) = {}
  <2>1. state' = ExitStates(p)
    BY Zenon DEF Exit
  <2>2. CASE Zombies(Children(p)) # {}
    BY Zenon, <2>1, <2>2 DEF ExitStates, Wakeup1
  <2>3. CASE Zombies(Children(p)) = {}
    BY Zenon, <2>1, <2>3 DEF ExitStates, Wakeup1
  <2> QED BY Zenon, <2>2, <2>3
<1>r. state[p] = "RUNNING" /\ p # InitProc /\ tickslock # c
  BY Zenon, <1>e, OnLemma DEF InSched
<1>n. \A d \in CPUS : proc[d] # None => state[proc[d]] = "RUNNING" /\ (d # c => proc[d] # p)
  BY Zenon, <1>e, <1>b, <1>t DEF OneStack
<1>1. OneStack'
  BY ZenonT(40), <1>e, <1>s, <1>n, <1>b, <1>t DEF OneStack
<1>2. OnCpu'
  <2> SUFFICES ASSUME NEW d \in CPUS, NEW s \in Slots, proc[d] = s PROVE
         /\ state'[s] \in Alive \cup {"ZOMBIE"}
         /\ state'[s] # "RUNNING" => InSched(s)'
         /\ HasPtlock(s)' => ptlock' = d
         /\ pc'[s] \in {"ticktest", "ticksleep"} => tickslock' = d
    BY Zenon, <1>e DEF OnCpu
  <2>1. CASE s = p
    BY <2>1, <1>e, <1>t, <1>s, <1>n DEF InSched, Alive
  <2>2. CASE s # p
    <3>1. state'[s] = "RUNNING" /\ pc'[s] = pc[s] /\ intr'[s] = intr[s]
      BY Zenon, <2>2, <1>e, <1>n, <1>s, <1>t
    <3>2. ~HasPtlock(s)
      BY Zenon, <1>e, <1>b, <1>t DEF OnCpu
    <3> QED BY Zenon, <3>1, <3>2, <1>b, <1>e DEF OnCpu, HasPtlock, Alive
  <2> QED BY Zenon, <2>1, <2>2
<1>3. OffCpu'
  <2> SUFFICES ASSUME NEW s \in Slots PROVE
         /\ state'[s] \in {"RUNNABLE", "SLEEPING"} =>
              intr'[s] = "yielded" \/ pc'[s] \in {"forkret", "waitslept", "tickslept"}
         /\ state'[s] \in {"UNUSED", "EMBRYO", "ZOMBIE"} => pc'[s] \in {"forkret", "zombie"}
         /\ intr'[s] # "none" => pc'[s] \in Preemptible
    BY Zenon DEF OffCpu
  <2> QED BY Zenon, <1>e, <1>s, <1>t, <1>b DEF OffCpu
<1>4. Forks'
  <2>1. \A s \in Slots : pc'[s] \in {"forked", "forkrun"} => pc'[s] = pc[s] /\ s # p
    BY Zenon, <1>e, <1>t
  <2>2. \A s \in Slots : state[s] = "EMBRYO" => state'[s] = "EMBRYO"
    BY Zenon, <1>s, <1>r
  <2> SUFFICES ASSUME NEW s \in Slots, pc'[s] \in {"forked", "forkrun"} PROVE
         /\ np[s] \in Slots /\ state'[np[s]] = "EMBRYO"
         /\ pc'[s] = "forkrun" => parent'[np[s]] = s
         /\ \A q \in Slots : pc'[q] \in {"forked", "forkrun"} /\ np[q] = np[s] => q = s
    BY Zenon, <1>e DEF Forks
  <2> QED BY Zenon, <2>1, <2>2, <1>p, <1>b DEF Forks
<1>5. InitStays'
  <2>1. state'[InitProc] \in Alive /\ pc'[InitProc] \notin {"exit", "zombie"}
    BY Zenon, <1>e, <1>s, <1>r, <1>t, <1>b DEF InitStays, Alive
  <2>2. parent'[InitProc] = None /\ \A s \in Slots : parent'[s] # s
    BY Zenon, <1>p, <1>r, <1>t, <1>b DEF InitStays
  <2> QED BY Zenon, <2>1, <2>2 DEF InitStays
<1>6. Ticking'
  BY Zenon, <1>e, <1>r, <1>t, <1>b, <1>n DEF Ticking
<1>7. NoMissedExit'
  <2> SUFFICES ASSUME NEW q \in Slots, state'[q] = "SLEEPING", chan[q] = q,
                      NEW z \in Slots, parent'[z] = q, state'[z] = "ZOMBIE"
               PROVE  FALSE
    BY Zenon, <1>e DEF NoMissedExit, Zombies, Children
  <2>1. q # p /\ state[q] = "SLEEPING" /\ q # parent[p]
    BY Zenon, <1>s
  <2>2. Zombies(Children(q)) = {}
    BY Zenon, <2>1 DEF IInv, NoMissedExit
  <2>3. z # p /\ state[z] = "ZOMBIE"
    BY Zenon, <2>1, <1>s, <1>p, <1>b DEF InitStays
  <2>4. parent[z] = p /\ q = InitProc
    BY Zenon, <2>2, <2>3, <1>p DEF Zombies, Children
  <2>5. Zombies(Children(p)) # {}
    BY Zenon, <2>3, <2>4 DEF Zombies, Children
  <2> QED BY Zenon, <2>1, <2>4, <2>5, <1>s
<1>8. NoMissedTick'
  BY Zenon, <1>s, <1>e DEF IInv, NoMissedTick
<1>9. LiveParent'
  <2> SUFFICES ASSUME NEW s \in Slots \ {InitProc}, state'[s] \in Alive \cup {"ZOMBIE"}
               PROVE  parent'[s] \in Slots /\ state'[parent'[s]] \in Alive
    BY Zenon DEF LiveParent
  <2>1. state[s] \in Alive \cup {"ZOMBIE"}
    BY Zenon, <1>s, <1>r DEF Alive
  <2>2. parent[s] \in Slots /\ state[parent[s]] \in Alive
    BY Zenon, <2>1 DEF IInv, LiveParent
  <2>3. \A q \in Slots \ {p} : state[q] \in Alive => state'[q] \in Alive
    BY Zenon, <1>s DEF Alive
  <2> QED BY <2>2, <2>3, <1>p, <1>r, <1>t, <1>b DEF InitStays
<1>10. NoSchedPanic'
  BY Zenon, <1>e DEF IInv, NoSchedPanic
<1> QED BY Zenon, <1>1, <1>2, <1>3, <1>4, <1>5, <1>6, <1>7, <1>8, <1>9, <1>10 DEF IInv

-----------------------------------------------------------------------------
(* sched: its checks pass, and the process is off the cpu with its state set. *)
LEMMA SchedStep ==
  ASSUME IInv, TypeOK', NEW c \in CPUS, NEW p \in Slots, Sched(c, p)
  PROVE  IInv'
<1>b. OneStack /\ OnCpu /\ OffCpu /\ Forks /\ InitStays /\ Ticking /\ None \notin Slots
  BY Zenon, SlotsLemma DEF IInv
<1>g. proc[c] = p /\ InSched(p) /\ state[p] # "RUNNING" /\ UNCHANGED <<table, locks, pc, intr, np, left>>
  BY Zenon DEF Sched
<1>l. ptlock = c /\ tickslock # c
  <2>1. ptlock = c
    BY Zenon, <1>g, <1>b DEF OneStack
  <2>2. pc[p] \notin {"ticktest", "ticksleep"}
    BY Zenon, <1>g, <1>b DEF OffCpu, InSched, Preemptible
  <2> QED BY Zenon, <2>1, <2>2, <1>g, OnLemma
<1>e. proc' = [proc EXCEPT ![c] = None] /\ panic' = panic
  BY Zenon, <1>l DEF Sched
<1>t. proc \in [CPUS -> Slots \cup {None}]
  BY Zenon DEF IInv, TypeOK
<1>d. proc'[c] = None /\ \A d \in CPUS : d # c => proc'[d] = proc[d]
  BY Zenon, <1>e, <1>t
<1>s. state' = state /\ ptlock' = ptlock
  BY Zenon, <1>g DEF table, locks
<1>1. OneStack'
  <2>1. \A x, y \in CPUS : proc'[x] = proc'[y] /\ proc'[x] # None => x = y
    BY Zenon, <1>d, <1>b DEF OneStack
  <2>2. \A s \in Slots : state'[s] = "RUNNING" => \E x \in CPUS : proc'[x] = s
    <3> SUFFICES ASSUME NEW s \in Slots, state[s] = "RUNNING" PROVE \E x \in CPUS : proc'[x] = s
      BY Zenon, <1>s
    <3>1. PICK x \in CPUS : proc[x] = s
      BY Zenon, <1>b DEF OneStack
    <3>2. x # c
      BY Zenon, <3>1, <1>g
    <3> QED BY Zenon, <3>1, <3>2, <1>d
  <2>3. \A x \in CPUS : proc'[x] # None /\ state'[proc'[x]] # "RUNNING" => ptlock' = x
    BY Zenon, <1>d, <1>s, <1>b DEF OneStack
  <2> QED BY Zenon, <2>1, <2>2, <2>3 DEF OneStack
<1>2. OnCpu'
  BY Zenon, <1>d, <1>g, <1>b DEF OnCpu, InSched, HasPtlock, table, locks
<1>3. OffCpu' /\ Forks' /\ InitStays'
  BY <1>g, <1>b DEF OffCpu, Forks, InitStays, table
<1>4. Ticking'
  BY Zenon, <1>d, <1>g, <1>l, <1>b DEF Ticking, locks
<1>5. NoMissedExit' /\ NoMissedTick' /\ LiveParent' /\ NoSchedPanic'
  BY Zenon, <1>g, <1>e DEF IInv, NoMissedExit, Zombies, Children, NoMissedTick, LiveParent, NoSchedPanic, table
<1> QED BY Zenon, <1>1, <1>2, <1>3, <1>4, <1>5 DEF IInv

(* The scheduler switches to a RUNNABLE process: no other cpu is on its stack,
   because a cpu that still were would hold ptable.lock. *)
LEMMA SwitchStep ==
  ASSUME IInv, TypeOK', NEW c \in CPUS, SchedSwitch(c)
  PROVE  IInv'
<1>b. OneStack /\ OnCpu /\ OffCpu /\ Forks /\ InitStays /\ Ticking /\ None \notin Slots
  BY Zenon, SlotsLemma DEF IInv
<1>t. proc \in [CPUS -> Slots \cup {None}] /\ state \in [Slots -> States] /\ NoCpu \notin CPUS
  BY Zenon, CpuAssumption DEF IInv, TypeOK
<1>0. PICK r \in Slots :
      /\ r \in Ahead(c)
      /\ proc' = [proc EXCEPT ![c] = r] /\ state' = [state EXCEPT ![r] = "RUNNING"]
  BY Zenon DEF SchedSwitch, First
<1>r. r \in Slots /\ state[r] = "RUNNABLE"
  BY Zenon, <1>0 DEF Ahead
<1>e. /\ proc[c] = None /\ ptlock = c
      /\ proc' = [proc EXCEPT ![c] = r] /\ state' = [state EXCEPT ![r] = "RUNNING"]
      /\ UNCHANGED <<parent, chan, locks, pc, intr, np, left, panic>>
  BY Zenon, <1>0 DEF SchedSwitch
<1>d. /\ proc'[c] = r /\ \A d \in CPUS : d # c => proc'[d] = proc[d]
      /\ state'[r] = "RUNNING" /\ \A s \in Slots : s # r => state'[s] = state[s]
  BY Zenon, <1>e, <1>t, <1>r
<1>n. \A d \in CPUS : proc[d] # r /\ (proc[d] # None => proc[d] \in Slots /\ state[proc[d]] = "RUNNING")
  BY <1>e, <1>r, <1>b, <1>t DEF OneStack
<1>1. OneStack'
  BY <1>d, <1>e, <1>n, <1>b, <1>r DEF OneStack
<1>2. OnCpu'
  <2> SUFFICES ASSUME NEW d \in CPUS, NEW s \in Slots, proc'[d] = s PROVE
         /\ state'[s] \in Alive \cup {"ZOMBIE"}
         /\ state'[s] # "RUNNING" => InSched(s)'
         /\ HasPtlock(s)' => ptlock' = d
         /\ pc'[s] \in {"ticktest", "ticksleep"} => tickslock' = d
    BY Zenon DEF OnCpu
  <2>1. CASE d = c
    <3>1. pc[r] \notin {"ticktest", "ticksleep"}
      BY Zenon, <1>r, <1>b DEF OffCpu, Preemptible
    <3> QED BY Zenon, <2>1, <3>1, <1>d, <1>e DEF Alive, locks
  <2>2. CASE d # c
    <3>1. proc[d] = s /\ s # r /\ state'[s] = state[s]
      BY Zenon, <2>2, <1>d, <1>n
    <3> QED BY Zenon, <3>1, <1>e, <1>b DEF OnCpu, InSched, HasPtlock, locks
  <2> QED BY Zenon, <2>1, <2>2
<1>3. OffCpu'
  <2> SUFFICES ASSUME NEW s \in Slots PROVE
         /\ state'[s] \in {"RUNNABLE", "SLEEPING"} =>
              intr'[s] = "yielded" \/ pc'[s] \in {"forkret", "waitslept", "tickslept"}
         /\ state'[s] \in {"UNUSED", "EMBRYO", "ZOMBIE"} => pc'[s] \in {"forkret", "zombie"}
         /\ intr'[s] # "none" => pc'[s] \in Preemptible
    BY Zenon DEF OffCpu
  <2> QED BY Zenon, <1>d, <1>e, <1>b DEF OffCpu
<1>4. Forks'
  <2>1. \A s \in Slots : state[s] = "EMBRYO" => state'[s] = "EMBRYO"
    BY Zenon, <1>d, <1>r
  <2> QED BY Zenon, <2>1, <1>e, <1>b DEF Forks
<1>5. InitStays'
  BY Zenon, <1>d, <1>e, <1>b, SlotsLemma DEF InitStays, Alive
<1>6. Ticking'
  BY Zenon, <1>d, <1>e, <1>n, <1>b DEF Ticking, locks
<1>7. NoMissedExit' /\ NoMissedTick'
  <2>1. \A s \in Slots : Zombies(Children(s))' = Zombies(Children(s))
    BY <1>d, <1>e, <1>r DEF Zombies, Children
  <2> QED BY <2>1, <1>d, <1>e DEF IInv, NoMissedExit, NoMissedTick
<1>8. LiveParent'
  BY <1>d, <1>e, <1>r DEF IInv, LiveParent, Alive
<1>9. NoSchedPanic'
  BY Zenon, <1>e DEF IInv, NoSchedPanic
<1> QED BY Zenon, <1>1, <1>2, <1>3, <1>4, <1>5, <1>6, <1>7, <1>8, <1>9 DEF IInv

-----------------------------------------------------------------------------
(* The invariant is inductive. *)
LEMMA NextIInv == IInv /\ [Next]_vars => IInv'
<1> SUFFICES ASSUME IInv, [Next]_vars PROVE IInv'
  BY Zenon
<1>1. CASE UNCHANGED vars
  <2> USE <1>1 DEF vars, table, locks
  <2>1. TypeOK'
    BY Zenon DEF IInv, TypeOK
  <2>2. OneStack' /\ OnCpu' /\ OffCpu'
    BY Zenon DEF IInv, OneStack, OnCpu, OffCpu, InSched, HasPtlock
  <2>3. Forks' /\ InitStays' /\ Ticking'
    BY Zenon DEF IInv, Forks, InitStays, Ticking
  <2>4. NoMissedExit' /\ NoMissedTick' /\ LiveParent' /\ NoSchedPanic'
    BY Zenon DEF IInv, NoMissedExit, Zombies, Children, NoMissedTick, LiveParent, NoSchedPanic
  <2> QED BY Zenon, <2>1, <2>2, <2>3, <2>4 DEF IInv
<1>2. CASE Next
  <2>t. TypeOK'
    BY Zenon, <1>2, TypeStep DEF IInv
  <2>1. ASSUME NEW c \in CPUS, Scheduler(c) \/ TimerIdle(c) PROVE IInv'
    BY Zenon, <2>1, <2>t, SchedulerSteps, SwitchStep, TimerSteps DEF Scheduler
  <2>2. ASSUME NEW c \in CPUS, NEW p \in Slots, Body(c, p) PROVE IInv'
    BY Zenon, <2>2, <2>t, ForkSteps, ExitStep, LocalSteps DEF Body
  <2>3. ASSUME NEW c \in CPUS, NEW p \in Slots, Locked(c, p) PROVE IInv'
    BY Zenon, <2>3, <2>t, ReapStep, SchedStep, LocalSteps DEF Locked
  <2>4. ASSUME NEW c \in CPUS, NEW p \in Slots, User(c, p) PROVE IInv'
    BY Zenon, <2>4, <2>t, ForkSteps, KillStep, LocalSteps DEF User
  <2>5. ASSUME NEW c \in CPUS, NEW p \in Slots, Timer(c, p) PROVE IInv'
    BY Zenon, <2>5, <2>t, TimerSteps
  <2>6. CASE Halted
    BY Zenon, <2>6, <1>1 DEF Halted
  <2> QED BY Zenon, <1>2, <2>1, <2>2, <2>3, <2>4, <2>5, <2>6 DEF Next
<1> QED BY Zenon, <1>1, <1>2

(* The invariant holds in every reachable state. *)
LEMMA Invariance == Spec => []IInv
BY InitIInv, NextIInv, PTL DEF Spec

(* Fields of struct proc, locals and locks keep their types. *)
THEOREM ProcTypeOK == Spec => []TypeOK
<1>1. IInv => TypeOK
  BY Zenon DEF IInv
<1> QED BY <1>1, Invariance, PTL

(* No two cpus are ever on the same kernel stack (yield, sleep, exit, sched_RR). *)
THEOREM KernelStacks == Spec => []OneStack
<1>1. IInv => OneStack
  BY Zenon DEF IInv
<1> QED BY <1>1, Invariance, PTL

(* wait() never sleeps through a child's exit. *)
THEOREM ExitsSeen == Spec => []NoMissedExit
<1>1. IInv => NoMissedExit
  BY Zenon DEF IInv
<1> QED BY <1>1, Invariance, PTL

(* sys_sleep never sleeps through its last tick. *)
THEOREM TicksSeen == Spec => []NoMissedTick
<1>1. IInv => NoMissedTick
  BY Zenon DEF IInv
<1> QED BY <1>1, Invariance, PTL

(* Every process has somebody alive to reap it. *)
THEOREM ParentsAlive == Spec => []LiveParent
<1>1. IInv => LiveParent
  BY Zenon DEF IInv
<1> QED BY <1>1, Invariance, PTL

(* The panics in sched() are never reached. *)
THEOREM SchedChecksPass == Spec => []NoSchedPanic
<1>1. IInv => NoSchedPanic
  BY Zenon DEF IInv
<1> QED BY <1>1, Invariance, PTL

-----------------------------------------------------------------------------
(* A step that takes a slot out of ZOMBIE is its parent's reaping it. *)
LEMMA ZombieStep ==
  ASSUME IInv, Next, NEW s \in Slots, state[s] = "ZOMBIE", state'[s] # "ZOMBIE"
  PROVE  /\ state'[s] = "UNUSED"
         /\ pc[parent[s]] = "waitscan"
         /\ \E c \in CPUS : proc[c] = parent[s] /\ ptlock = c
<1>t. state \in [Slots -> States] /\ OffCpu /\ Forks /\ OnCpu
  BY Zenon DEF IInv, TypeOK
<1>u. ASSUME state' = state PROVE FALSE
  BY Zenon, <1>u
<1>w. ASSUME NEW c \in CPUS, Tick(c) PROVE FALSE
  BY Zenon, <1>w DEF Tick, Wakeup1
<1>1. ASSUME NEW c \in CPUS, Scheduler(c) \/ TimerIdle(c) PROVE FALSE
  <2>1. CASE SchedSwitch(c)
    <3>1. PICK q \in Slots : state[q] = "RUNNABLE" /\ state' = [state EXCEPT ![q] = "RUNNING"]
      BY Zenon, <2>1 DEF SchedSwitch, First, Ahead
    <3> QED BY Zenon, <3>1, <1>t
  <2>2. CASE SchedAcquire(c) \/ SchedRelease(c)
    BY Zenon, <2>2, <1>u DEF SchedAcquire, SchedRelease, table
  <2> QED BY Zenon, <1>1, <2>1, <2>2, <1>w DEF Scheduler, TimerIdle
<1>2. ASSUME NEW c \in CPUS, NEW p \in Slots, Body(c, p) PROVE FALSE
  <2>1. CASE ForkFail(c, p) \/ ForkRun(c, p)
    <3>1. np[p] \in Slots /\ state[np[p]] = "EMBRYO"
      BY Zenon, <2>1, <1>t DEF ForkFail, ForkRun, Runs, Forks
    <3> QED BY Zenon, <2>1, <3>1, <1>t DEF ForkFail, ForkRun
  <2>2. CASE Exit(c, p)
    BY Zenon, <2>2 DEF Exit, ExitStates, Wakeup1
  <2>3. CASE ForkCopy(c, p) \/ TickAcquire(c, p) \/ SysRet(c, p)
    BY Zenon, <2>3, <1>u DEF ForkCopy, TickAcquire, SysRet, table
  <2> QED BY Zenon, <1>2, <2>1, <2>2, <2>3 DEF Body
<1>3. ASSUME NEW c \in CPUS, NEW p \in Slots, Locked(c, p), ~WaitReap(c, p) PROVE FALSE
  <2>1. CASE WaitSleep(c, p) \/ TickSleep(c, p) \/ Yield(c, p)
    <3>1. proc[c] = p /\ state' \in {[state EXCEPT ![p] = x] : x \in {"SLEEPING", "RUNNABLE"}}
      BY Zenon, <2>1 DEF WaitSleep, TickSleep, Yield, Runs
    <3>2. pc[p] \notin {"forkret", "zombie"}
      BY Zenon, <2>1, <1>t DEF WaitSleep, TickSleep, Yield, Runs, OffCpu, Preemptible
    <3>3. s # p
      BY Zenon, <3>2, <1>t DEF OffCpu
    <3> QED BY Zenon, <3>1, <3>3, <1>t
  <2>2. CASE WaitNone(c, p) \/ TickTest(c, p) \/ TimerKilled(c, p) \/ Sched(c, p)
    BY Zenon, <2>2, <1>u DEF WaitNone, TickTest, TimerKilled, Sched, table
  <2>3. CASE Forkret(c, p) \/ YieldResume(c, p) \/ WaitResume(c, p) \/ TickResume(c, p)
    BY Zenon, <2>3, <1>u DEF Forkret, YieldResume, WaitResume, TickResume, table
  <2> QED BY Zenon, <1>3, <2>1, <2>2, <2>3 DEF Locked
<1>4. ASSUME NEW c \in CPUS, NEW p \in Slots, User(c, p) \/ Timer(c, p) PROVE FALSE
  <2>1. CASE ForkAlloc(c, p)
    <3> DEFINE unused == {q \in Slots : state[q] = "UNUSED"}
    <3>1. CASE unused = {}
      BY Zenon, <2>1, <3>1, <1>u DEF ForkAlloc, table
    <3>2. CASE unused # {}
      <4>1. PICK q \in Slots : state[q] = "UNUSED" /\ state' = [state EXCEPT ![q] = "EMBRYO"]
        BY Zenon, <2>1, <3>2 DEF ForkAlloc, First
      <4> QED BY Zenon, <4>1, <1>t
    <3> QED BY Zenon, <3>1, <3>2
  <2>2. ASSUME NEW k \in KillPids, Kill(c, p, k) PROVE FALSE
    <3> DEFINE hits == {q \in Slots : pid[q] = k}
    <3>1. CASE hits = {}
      BY Zenon, <2>2, <3>1, <1>u DEF Kill
    <3>2. CASE hits # {}
      <4>1. PICK q \in Slots : state' = [state EXCEPT ![q] = KilledState(q)]
        BY Zenon, <2>2, <3>2 DEF Kill
      <4> QED BY Zenon, <4>1, <1>t DEF KilledState
    <3> QED BY Zenon, <3>1, <3>2
  <2>3. CASE SysExit(c, p) \/ Fault(c, p) \/ SysWait(c, p) \/ SysSleep(c, p)
    BY Zenon, <2>3, <1>u DEF SysExit, Fault, SysWait, SysSleep, table
  <2> QED BY Zenon, <1>4, <2>1, <2>2, <2>3, <1>w DEF User, Timer
<1>5. ASSUME NEW c \in CPUS, NEW p \in Slots, WaitReap(c, p)
      PROVE  state'[s] = "UNUSED" /\ parent[s] = p /\ pc[p] = "waitscan" /\ proc[c] = p /\ ptlock = c
  <2>1. PICK z \in Slots : z \in Zombies(Children(p)) /\ state' = [state EXCEPT ![z] = "UNUSED"]
    BY Zenon, <1>5 DEF WaitReap, First
  <2>3. z \in Slots /\ parent[z] = p
    BY Zenon, <2>1 DEF Zombies, Children
  <2>4. state' = [state EXCEPT ![z] = "UNUSED"] /\ pc[p] = "waitscan" /\ proc[c] = p
    BY Zenon, <1>5, <2>1 DEF WaitReap, Runs
  <2>5. s = z /\ state'[s] = "UNUSED"
    BY Zenon, <2>3, <2>4, <1>t
  <2> QED BY Zenon, <2>3, <2>4, <2>5, OnLemma DEF HasPtlock
<1>6. CASE Halted
  BY Zenon, <1>6, <1>u DEF Halted, vars, table
<1> QED BY Zenon, <1>1, <1>2, <1>3, <1>4, <1>5, <1>6 DEF Next

(* A zombie stays one until its parent, in wait() and holding ptable.lock, frees it. *)
THEOREM ZombiesKept == Spec => ZombieUntilReaped
<1> DEFINE Step == \A s \in Slots : state[s] = "ZOMBIE" /\ state'[s] # "ZOMBIE" =>
              /\ state'[s] = "UNUSED"
              /\ pc[parent[s]] = "waitscan"
              /\ \E c \in CPUS : proc[c] = parent[s] /\ ptlock = c
<1>1. IInv /\ [Next]_vars => [Step]_vars
  BY Zenon, ZombieStep
<1> QED BY <1>1, Invariance, PTL DEF Spec, ZombieUntilReaped
=============================================================================
