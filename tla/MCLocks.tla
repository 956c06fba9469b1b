------------------------------ MODULE MCLocks ------------------------------
(* Two cpus and two threads, one pipe and one sleep lock.  Symmetry: the threads
   are alike; the cpus are not, they take different interrupts. *)
EXTENDS Locks, TLC

Symmetry == Permutations(Threads)

(* Calls of each shape: a sleep, with a lock of its own and with ptable.lock, a
   wakeup, and exit, whose files lead to pipeclose. *)
Programs ==
  [t \in Threads |-> {sys_sleep, wait, exit} \cup {pipeclose(p) : p \in Pipes}]

(* The state without values that are set before they are read: intena with no pushcli
   outstanding, and sched()'s local after its return. *)
Live ==
  <<holder, ncli, [c \in CPUS |-> ncli[c] > 0 /\ intena[c]], IF_, spin, run, todo, inirq, irq,
    [t \in Threads |-> saved[t] /\ t \in Ready], panic>>
=============================================================================
