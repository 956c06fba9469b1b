------------------------------- MODULE Stride -------------------------------
(***************************************************************************)
(* The stride build (SCHED_MACRO = STRIDE, one cpu) from boot on.  The     *)
(* heap holds copies of table entries, c->proc is set to the copy at the   *)
(* root, and everything the process and the scheduler then do to "the      *)
(* process" (state, chan, context, runtime) is done to that copy, which    *)
(* the next round throws away.  The only process there is until the first  *)
(* one returns from forkret is the first one, so the table is one entry;   *)
(* the choice among several is module Heap.                                *)
(***************************************************************************)
EXTENDS Integers

CONSTANTS MaxTicks, STRIDE1, TICKETS_INIT

VARIABLES
  table,    \* ptable.proc[0]
  heap,     \* heap.arr[0]
  at,       \* where the scheduler is; "lost": it switched to a context no longer there
  live,     \* the context the process last saved, on its kernel stack
  waiting,  \* the process waits for its disk block
  ticks

vars == <<table, heap, at, live, waiting, ticks>>

(* userinit *)
Init ==
  /\ table = [state |-> "RUNNABLE", chan |-> "none", context |-> 0,
              stride |-> STRIDE1 \div TICKETS_INIT, pass |-> 0, runtime |-> 0, last_scheduled |-> 0]
  /\ heap = table
  /\ at = "fill"
  /\ live = 0
  /\ waiting = FALSE
  /\ ticks = 0

(* the heap is filled with a copy, and the root chosen *)
Fill ==
  /\ at = "fill" /\ table.state = "RUNNABLE"
  /\ heap' = table
  /\ at' = "switch"
  /\ UNCHANGED <<table, live, waiting, ticks>>

Dispatch ==
  /\ at = "switch"
  /\ heap' = [heap EXCEPT !.state = "RUNNING", !.last_scheduled = ticks]
  /\ at' = IF heap.context = live THEN "run" ELSE "lost"
  /\ UNCHANGED <<table, live, waiting, ticks>>

(* forkret, iinit, ..., iderw: sleep on the buffer; sched saves the context *)
Sleep ==
  /\ at = "run"
  /\ heap' = [heap EXCEPT !.state = "SLEEPING", !.chan = "buf", !.context = live + 1]
  /\ live' = live + 1
  /\ waiting' = TRUE
  /\ at' = "back"
  /\ UNCHANGED <<table, ticks>>

(* a timer interrupt before that: the tick, and yield *)
Yield ==
  /\ at = "run" /\ ticks < MaxTicks
  /\ ticks' = ticks + 1
  /\ heap' = [heap EXCEPT !.state = "RUNNABLE", !.context = live + 1]
  /\ live' = live + 1
  /\ at' = "back"
  /\ UNCHANGED <<table, waiting>>

(* after swtch: account for the run *)
Back ==
  /\ at = "back"
  /\ heap' = [heap EXCEPT !.runtime = @ + ticks - heap.last_scheduled]
  /\ at' = "fill"
  /\ UNCHANGED <<table, live, waiting, ticks>>

(* interrupts: the scheduler has them on until it takes ptable.lock *)
Interruptible == at \in {"fill", "switch"}

wakeup(e, chan) ==
  IF e.state = "SLEEPING" /\ e.chan = chan THEN [e EXCEPT !.state = "RUNNABLE"] ELSE e

DiskIntr ==
  /\ Interruptible /\ waiting
  /\ table' = wakeup(table, "buf")
  /\ waiting' = FALSE
  /\ UNCHANGED <<heap, at, live, ticks>>

Tick ==
  /\ Interruptible /\ ticks < MaxTicks
  /\ ticks' = ticks + 1
  /\ table' = wakeup(table, "ticks")
  /\ UNCHANGED <<heap, at, live, waiting>>

Next == Fill \/ Dispatch \/ Sleep \/ Yield \/ Back \/ DiskIntr \/ Tick

Spec == Init /\ [][Next]_vars

-----------------------------------------------------------------------------
(* What README.md asks of the scheduler *)

(* "it selects the runnable process with the lowest pass value": a process that has
   gone to sleep and was not woken is not given the cpu. *)
SleeperNotChosen == at = "switch" => ~waiting
=============================================================================
