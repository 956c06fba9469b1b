------------------------------ MODULE MCProc ------------------------------
(* The process table on small instances. *)
EXTENDS Proc

(* The state without values that are set before they are read: a cpu's place in the
   table outside its loop over it, the ticks left outside sys_sleep, and where the
   thread of a slot without a process was. *)
InSleep(s) == state[s] \in Alive /\ pc[s] \in {"ticktest", "ticksleep", "tickslept", "tickacq"}
Live ==
  <<state, pid, parent, chan, killed, nextpid, proc, locks, intr, np, panic,
    [c \in CPUS |-> IF proc[c] = None /\ ptlock = c THEN scan[c] ELSE 1],
    [s \in Slots |-> IF state[s] \in Alive THEN pc[s] ELSE "forkret"],
    [s \in Slots |-> IF InSleep(s) THEN left[s] ELSE 0]>>
=============================================================================
