--------------------------------- MODULE Mem ---------------------------------
(***************************************************************************)
(* Memory: the page allocator of kalloc.c, the page tables of vm.c, and    *)
(* what allocates and frees through them: fork, exit and wait, growproc    *)
(* (sbrk) and exec.  Any allocation may find memory exhausted; processes   *)
(* run concurrently, one page of one of their loops at a time (kmem.lock   *)
(* makes each kalloc and kfree atomic).                                    *)
(*                                                                         *)
(* Addresses and sizes are in units of which PGSIZE make a page, so that   *)
(* sizes need not be page-aligned.  Which free page kalloc returns is not  *)
(* told apart: the lowest stands for the head of the list.                 *)
(***************************************************************************)
EXTENDS Integers, FiniteSets

CONSTANTS
  Procs,        \* slots of ptable, numbers; the first is initproc
  Pages,        \* numbers, not 0
  PGSIZE,
  NPT,          \* entries of a page table
  UPAGES,       \* user pages below KERNBASE
  Grows,        \* arguments of sbrk
  Images        \* sizes of programs to exec

KERNBASE == UPAGES * PGSIZE
Vpns == 0 .. UPAGES - 1
Tabs == 0 .. (UPAGES - 1) \div NPT
InitProc == CHOOSE p \in Procs : \A q \in Procs : p <= q

MemAssumption ==
  /\ Procs \subseteq Nat \ {0} /\ Procs # {} /\ Pages \subseteq Nat \ {0}
  /\ PGSIZE > 0 /\ NPT > 0 /\ UPAGES > 0

VARIABLES
  free,     \* how many times each page is on kmem.freelist
  state,    \* of each slot: "unused", "embryo", "live", "zombie"
  kstack, as, sz,   \* of each slot: pages, address space and size
  pc,       \* what a process is doing: "user", or a loop of a system call
  new,      \* the address space it is building
  at, to,   \* the loop's address, and its end
  child,    \* fork's np
  panicked

procVars == <<state, kstack, as, sz>>
work == <<pc, new, at, to, child>>
vars == <<free, procVars, work, panicked>>

(* a pgdir with its kernel mappings in table "k"; 0 where nothing is mapped *)
Places == {<<"dir">>, <<"ktab">>} \cup {<<"tab", t>> : t \in Tabs} \cup {<<"pte", v>> : v \in Vpns}
NoAs == [x \in Places |-> 0]

PGROUNDUP(a) == ((a + PGSIZE - 1) \div PGSIZE) * PGSIZE

-----------------------------------------------------------------------------
(* kalloc.c *)

Avail == {g \in Pages : free[g] > 0}
Lowest(S) == CHOOSE g \in S : \A h \in S : g <= h
First == Lowest(Avail)
Second == Lowest(Avail \ {First})
Taken(S) == [g \in Pages |-> IF g \in S THEN free[g] - 1 ELSE free[g]]

(* kfree of what address space a holds at places X *)
Given(f, a, X) == [g \in Pages |-> f[g] + Cardinality({x \in X : a[x] = g})]
Kfreed(f, pg) == [f EXCEPT ![pg] = @ + 1]

-----------------------------------------------------------------------------
(* vm.c *)

Tab(v) == <<"tab", v \div NPT>>
(* pages that mapping v takes: the page itself, and its table if walkpgdir has to make it *)
Needs(a, v) == IF a[Tab(v)] = 0 THEN 2 ELSE 1

(* kalloc and mappages of page v *)
Mapped(a, v) ==
  IF a[Tab(v)] = 0 THEN [a EXCEPT ![<<"pte", v>>] = First, ![Tab(v)] = Second]
  ELSE [a EXCEPT ![<<"pte", v>>] = First]
MapTakes(a, v) == IF a[Tab(v)] = 0 THEN {First, Second} ELSE {First}

(* allocuvm's limit *)
Below(newsz) == newsz < KERNBASE

(* deallocuvm(old, to): the places it frees *)
Dealloc(old, to_) == {<<"pte", v>> : v \in {w \in Vpns : w * PGSIZE >= PGROUNDUP(to_) /\ w * PGSIZE < old}}
Cleared(a, X) == [x \in Places |-> IF x \in X THEN 0 ELSE a[x]]

(* freevm: user pages, page tables, directory *)
freevm == Places

(* kinit, then userinit: setupkvm, inituvm's one page, a kernel stack *)
Init ==
  LET as1 == [x \in Places |->
        CASE x = <<"dir">> -> 1 [] x = <<"ktab">> -> 2 [] x = Tab(0) -> 3 [] x = <<"pte", 0>> -> 4
          [] OTHER -> 0]
  IN /\ free = [g \in Pages |-> IF g <= 5 THEN 0 ELSE 1]
     /\ state = [p \in Procs |-> IF p = InitProc THEN "live" ELSE "unused"]
     /\ kstack = [p \in Procs |-> IF p = InitProc THEN 5 ELSE 0]
     /\ as = [p \in Procs |-> IF p = InitProc THEN as1 ELSE NoAs]
     /\ sz = [p \in Procs |-> IF p = InitProc THEN PGSIZE ELSE 0]
     /\ pc = [p \in Procs |-> "user"] /\ new = [p \in Procs |-> NoAs]
     /\ at = [p \in Procs |-> 0] /\ to = [p \in Procs |-> 0] /\ child = [p \in Procs |-> 0]
     /\ panicked = "no"

Goto(p, l, a, b, c) ==
  /\ pc' = [pc EXCEPT ![p] = l] /\ at' = [at EXCEPT ![p] = a]
  /\ to' = [to EXCEPT ![p] = b] /\ child' = [child EXCEPT ![p] = c]
Return(p) == Goto(p, "user", 0, 0, 0) /\ new' = [new EXCEPT ![p] = NoAs]
Panic(why) == panicked' = why /\ UNCHANGED <<free, procVars, work>>
Enters(p) == state[p] = "live" /\ pc[p] = "user"

-----------------------------------------------------------------------------
(* fork: allocproc's kernel stack, then copyuvm *)
Fork(p, q) ==
  /\ Enters(p) /\ state[q] = "unused" /\ Avail # {}
  /\ state' = [state EXCEPT ![q] = "embryo"]
  /\ kstack' = [kstack EXCEPT ![q] = First]
  /\ free' = Taken({First})
  /\ Goto(p, "forkvm", 0, 0, q)
  /\ UNCHANGED <<as, sz, new, panicked>>

(* copyuvm failed: the child's kernel stack and slot *)
StackFreed(f, p) == Kfreed(f, kstack[child[p]])
ForkFails(p, f) ==
  /\ free' = StackFreed(f, p)
  /\ kstack' = [kstack EXCEPT ![child[p]] = 0]
  /\ state' = [state EXCEPT ![child[p]] = "unused"]
  /\ Return(p)
  /\ UNCHANGED <<as, sz, panicked>>

(* exec fails at "bad": the new address space goes, the old one stays *)
LeaksNew(p) == free
NewFreed(p) == Given(free, new[p], freevm)
ExecFails(p) ==
  /\ free' = NewFreed(p)
  /\ Return(p) /\ UNCHANGED <<procVars, panicked>>

(* setupkvm: a directory, and a table for the kernel's mappings; it gives back the
   first when there is no second *)
Setupkvm(p) ==
  /\ pc[p] \in {"forkvm", "execvm"}
  /\ IF Cardinality(Avail) >= 2
     THEN /\ new' = [new EXCEPT ![p] = [NoAs EXCEPT ![<<"dir">>] = First, ![<<"ktab">>] = Second]]
          /\ free' = Taken({First, Second})
          /\ Goto(p, IF pc[p] = "forkvm" THEN "copy" ELSE "load", 0, to[p], child[p])
          /\ UNCHANGED <<procVars, panicked>>
     ELSE IF pc[p] = "forkvm" THEN ForkFails(p, free) ELSE ExecFails(p)

(* copyuvm's loop, to the size of the parent *)
Copyuvm(p) ==
  LET v == at[p] \div PGSIZE
      q == child[p]
  IN /\ pc[p] = "copy"
     /\ IF at[p] >= sz[p]
        THEN /\ as' = [as EXCEPT ![q] = new[p]] /\ sz' = [sz EXCEPT ![q] = sz[p]]
             /\ state' = [state EXCEPT ![q] = "live"]
             /\ Return(p) /\ UNCHANGED <<free, kstack, panicked>>
        ELSE IF as[p][<<"pte", v>>] = 0 THEN Panic("page not present")
        ELSE IF Cardinality(Avail) < Needs(new[p], v)
        THEN ForkFails(p, Given(free, new[p], freevm))
        ELSE /\ new' = [new EXCEPT ![p] = Mapped(@, v)] /\ free' = Taken(MapTakes(new[p], v))
             /\ Goto(p, "copy", at[p] + PGSIZE, 0, q)
             /\ UNCHANGED <<procVars, panicked>>

(* exec of a program of n units *)
Exec(p, n) ==
  /\ Enters(p)
  /\ Goto(p, "execvm", 0, n, 0)
  /\ UNCHANGED <<free, procVars, new, panicked>>

(* allocuvm in exec: "load" to the end of the program, "stack" for two more pages.
   It fails past KERNBASE or without memory; so may reading the file, or copying
   the arguments *)
Allocuvm(p) ==
  LET v == at[p] \div PGSIZE
  IN /\ pc[p] \in {"load", "stack"} /\ Below(to[p]) /\ at[p] < to[p]
     /\ Cardinality(Avail) >= Needs(new[p], v)
     /\ IF new[p][<<"pte", v>>] # 0 THEN Panic("remap")
        ELSE /\ new' = [new EXCEPT ![p] = Mapped(@, v)] /\ free' = Taken(MapTakes(new[p], v))
             /\ Goto(p, pc[p], at[p] + PGSIZE, to[p], 0)
             /\ UNCHANGED <<procVars, panicked>>
Loaded(p) ==
  /\ pc[p] = "load" /\ at[p] >= to[p]
  /\ Goto(p, "stack", PGROUNDUP(to[p]), PGROUNDUP(to[p]) + 2 * PGSIZE, 0)
  /\ UNCHANGED <<free, procVars, new, panicked>>
ExecBad(p) == pc[p] \in {"load", "stack"} /\ ExecFails(p)

(* the commit: the new image is in place before the old one is freed *)
ExecCommits(p) ==
  /\ pc[p] = "stack" /\ at[p] >= to[p]
  /\ as' = [as EXCEPT ![p] = new[p]] /\ sz' = [sz EXCEPT ![p] = to[p]]
  /\ free' = Given(free, as[p], freevm)
  /\ Return(p)
  /\ UNCHANGED <<state, kstack, panicked>>

(* growproc.  Shrinking below 0 wraps around, and deallocuvm then does nothing;
   shrinking to 0 frees the memory, but deallocuvm's result 0 looks like an error
   to growproc, which returns without setting sz.  Such a process has no code to
   return to: it faults, and trap makes it exit *)
SbrkMore(p, n) ==
  /\ Enters(p) /\ n > 0 /\ Below(sz[p] + n)
  /\ Goto(p, "grow", PGROUNDUP(sz[p]), sz[p] + n, 0)
  /\ UNCHANGED <<free, procVars, new, panicked>>
SbrkLess(p, n) ==
  LET X == Dealloc(sz[p], sz[p] + n)
  IN /\ Enters(p) /\ n < 0 /\ sz[p] + n >= 0
     /\ free' = Given(free, as[p], X)
     /\ as' = [as EXCEPT ![p] = Cleared(@, X)]
     /\ IF sz[p] + n = 0 THEN pc' = [pc EXCEPT ![p] = "fault"] /\ UNCHANGED sz
        ELSE sz' = [sz EXCEPT ![p] = sz[p] + n] /\ UNCHANGED pc
     /\ UNCHANGED <<state, kstack, new, at, to, child, panicked>>

(* allocuvm in growproc; when it fails it takes back what it added *)
TakesBack(p) == Dealloc(to[p], sz[p])
Grow(p) ==
  LET v == at[p] \div PGSIZE
  IN /\ pc[p] = "grow"
     /\ IF at[p] >= to[p]
        THEN sz' = [sz EXCEPT ![p] = to[p]] /\ Return(p)
             /\ UNCHANGED <<free, state, kstack, as, panicked>>
        ELSE IF Cardinality(Avail) < Needs(as[p], v)
        THEN /\ free' = Given(free, as[p], TakesBack(p))
             /\ as' = [as EXCEPT ![p] = Cleared(@, TakesBack(p))]
             /\ Return(p) /\ UNCHANGED <<state, kstack, sz, panicked>>
        ELSE IF as[p][<<"pte", v>>] # 0 THEN Panic("remap")
        ELSE /\ as' = [as EXCEPT ![p] = Mapped(@, v)] /\ free' = Taken(MapTakes(as[p], v))
             /\ Goto(p, "grow", at[p] + PGSIZE, to[p], 0)
             /\ UNCHANGED <<state, kstack, sz, new, panicked>>

(* exit leaves the memory to the parent's wait (module Proc says who that is) *)
Exit(p) ==
  /\ Enters(p) \/ (state[p] = "live" /\ pc[p] = "fault")
  /\ p # InitProc
  /\ state' = [state EXCEPT ![p] = "zombie"]
  /\ UNCHANGED <<free, kstack, as, sz, work, panicked>>
Wait(p, q) ==
  /\ Enters(p) /\ state[q] = "zombie"
  /\ free' = Kfreed(Given(free, as[q], freevm), kstack[q])
  /\ state' = [state EXCEPT ![q] = "unused"] /\ kstack' = [kstack EXCEPT ![q] = 0]
  /\ as' = [as EXCEPT ![q] = NoAs] /\ sz' = [sz EXCEPT ![q] = 0]
  /\ pc' = [pc EXCEPT ![q] = "user"]
  /\ UNCHANGED <<new, at, to, child, panicked>>

Step(p) ==
  \/ \E q \in Procs : Fork(p, q) \/ Wait(p, q)
  \/ Setupkvm(p) \/ Copyuvm(p) \/ (\E n \in Images : Exec(p, n))
  \/ Allocuvm(p) \/ Loaded(p) \/ ExecBad(p) \/ ExecCommits(p)
  \/ (\E n \in Grows : SbrkMore(p, n) \/ SbrkLess(p, n)) \/ Grow(p)
  \/ Exit(p)
Next == panicked = "no" /\ \E p \in Procs : Step(p)
Spec == Init /\ [][Next]_vars

-----------------------------------------------------------------------------
TypeOK ==
  /\ free \in [Pages -> Nat]
  /\ state \in [Procs -> {"unused", "embryo", "live", "zombie"}]
  /\ kstack \in [Procs -> Pages \cup {0}] /\ sz \in [Procs -> 0 .. KERNBASE - 1]
  /\ as \in [Procs -> [Places -> Pages \cup {0}]] /\ new \in [Procs -> [Places -> Pages \cup {0}]]
  /\ pc \in [Procs -> {"user", "forkvm", "copy", "execvm", "load", "stack", "grow", "fault"}]
  /\ at \in [Procs -> 0 .. KERNBASE + PGSIZE] /\ to \in [Procs -> 0 .. KERNBASE + 3 * PGSIZE]
  /\ child \in [Procs -> Procs \cup {0}] /\ panicked \in {"no", "page not present", "remap"}

(* every page is in exactly one place, on every path including the failing ones: on
   the free list, a kernel stack, or one entry of one address space.  So no page is
   leaked, freed twice, or shared by two processes. *)
Uses(g) ==
  Cardinality({p \in Procs : kstack[p] = g})
  + Cardinality({x \in Procs \X Places : as[x[1]][x[2]] = g})
  + Cardinality({x \in Procs \X Places : new[x[1]][x[2]] = g})
EachPageOnce == \A g \in Pages : free[g] + Uses(g) = 1

(* the pages mapped for a process are those below its size, partial ones included:
   growproc failing half way, and every shrink but one to 0, put them back in step *)
SizeIsMapped ==
  \A p \in Procs : state[p] \in {"live", "zombie"} /\ pc[p] \notin {"grow", "fault"} =>
    \A v \in Vpns : (as[p][<<"pte", v>>] # 0) <=> (v * PGSIZE < sz[p])

(* copyuvm finds every page of the parent present, and no page is mapped twice: the
   panics of copyuvm ("pte should exist" and "page not present", here one) and "remap",
   those of vm.c that depend on what was mapped before *)
NoVmPanic == panicked = "no"
=============================================================================
