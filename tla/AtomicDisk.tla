--------------------------- MODULE AtomicDisk ---------------------------
(***************************************************************************)
(* What the logging layer promises the file system (log.c 9-22): blocks    *)
(* that any number of operations update in memory, and a durable version   *)
(* that moves from one state to the next only when no operation is active, *)
(* so that a crash undoes unfinished operations as a whole.                *)
(***************************************************************************)
CONSTANTS Procs, Blocks, Vals

VARIABLES
  mem,    \* what the running system reads
  dur,    \* what a crash leaves
  busy    \* the operations in progress

vars == <<mem, dur, busy>>

Init ==
  /\ mem \in [Blocks -> Vals]
  /\ dur = mem
  /\ busy = {}

Begin(p) == p \notin busy /\ busy' = busy \cup {p} /\ UNCHANGED <<mem, dur>>

Write(p, b, v) ==
  /\ p \in busy
  /\ mem' = [mem EXCEPT ![b] = v]
  /\ UNCHANGED <<dur, busy>>

End(p) == p \in busy /\ busy' = busy \ {p} /\ UNCHANGED <<mem, dur>>

Commit == busy = {} /\ dur' = mem /\ UNCHANGED <<mem, busy>>

Crash == mem' = dur /\ busy' = {} /\ UNCHANGED dur

Next ==
  \/ Commit \/ Crash
  \/ \E p \in Procs : Begin(p) \/ End(p)
  \/ \E p \in Procs, b \in Blocks, v \in Vals : Write(p, b, v)

Spec == Init /\ [][Next]_vars
=============================================================================
