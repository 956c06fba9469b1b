-------------------------------- MODULE Heap --------------------------------
(***************************************************************************)
(* The binary min-heap of the stride scheduler (proc.c 399-443): an array  *)
(* of copies of struct proc, filled by push and read by getmin.  A round   *)
(* of the scheduler empties it, pushes the processes it finds and takes    *)
(* the root.  push's loop is one step per exchange.                        *)
(***************************************************************************)
EXTENDS Integers

CONSTANTS
  NPROC,   \* capacity
  Pass, Runtime, Pid   \* values of the fields that compare looks at

HeapAssumption ==
  NPROC \in Nat \ {0} /\ Pass \subseteq Int /\ Runtime \subseteq Int /\ Pid \subseteq Int

Procs == [pass : Pass, runtime : Runtime, pid : Pid]
Index == 0 .. NPROC - 1

VARIABLES
  arr, size,   \* minheap
  idx,         \* push's local, -1 between calls
  pushed       \* history: what was pushed since the heap was last emptied

vars == <<arr, size, idx, pushed>>

TypeOK ==
  /\ arr \in [Index -> Procs]
  /\ size \in 0 .. NPROC
  /\ idx \in -1 .. NPROC - 1
  /\ pushed \subseteq Procs

Init ==
  /\ arr \in [Index -> Procs]   \* heap is an uninitialised local
  /\ size = 0
  /\ idx = -1
  /\ pushed = {}

-----------------------------------------------------------------------------
parent(i) == (i - 1) \div 2

NoRuntime(p, q) ==
  IF p.pass # q.pass THEN (IF p.pass < q.pass THEN -1 ELSE 1)
  ELSE IF p.pid # q.pid THEN (IF p.pid < q.pid THEN -1 ELSE 1)
  ELSE 0

compare(p, q) ==
  IF p.pass # q.pass THEN (IF p.pass < q.pass THEN -1 ELSE 1)
  ELSE IF p.runtime # q.runtime THEN (IF p.runtime < q.runtime THEN -1 ELSE 1)
  ELSE IF p.pid # q.pid THEN (IF p.pid < q.pid THEN -1 ELSE 1)
  ELSE 0

greater(p, q) == compare(p, q) > 0

Between == idx = -1

(* sched_stride: heap.size = 0 *)
Clear ==
  /\ Between
  /\ size' = 0
  /\ pushed' = {}
  /\ UNCHANGED <<arr, idx>>

Accepts == Between /\ size # NPROC

(* push, up to its loop *)
PushStart(p) ==
  /\ Accepts
  /\ idx' = size
  /\ arr' = [arr EXCEPT ![size] = p]
  /\ pushed' = pushed \cup {p}
  /\ UNCHANGED size

Rises == idx # 0 /\ greater(arr[parent(idx)], arr[idx])

(* one turn of the loop: swap with the parent *)
PushSwap ==
  /\ ~Between /\ Rises
  /\ arr' = [arr EXCEPT ![idx] = arr[parent(idx)], ![parent(idx)] = arr[idx]]
  /\ idx' = parent(idx)
  /\ UNCHANGED <<size, pushed>>

PushDone ==
  /\ ~Between /\ ~Rises
  /\ size' = size + 1
  /\ idx' = -1
  /\ UNCHANGED <<arr, pushed>>

getmin == arr[0]

Next == Clear \/ (\E p \in Procs : PushStart(p)) \/ PushSwap \/ PushDone

Spec == Init /\ [][Next]_vars

-----------------------------------------------------------------------------
(* Properties *)

(* the order of README.md, Task 2: lowest pass, then lowest runtime, then pid *)
Precedes(p, q) ==
  \/ p.pass < q.pass
  \/ p.pass = q.pass /\ p.runtime < q.runtime
  \/ p.pass = q.pass /\ p.runtime = q.runtime /\ p.pid <= q.pid

(* getmin of a heap that is not empty is one of the processes pushed into it, and
   none of them comes before it in the scheduling order: neither push's exchanges
   nor the capacity lose or misplace the least one. *)
GetminIsLeast ==
  Between /\ size > 0 =>
    /\ getmin \in pushed
    /\ \A p \in pushed : Precedes(getmin, p)

(* Between calls the array is a heap that holds exactly what was pushed: every
   entry comes after its parent. *)
HeapOrder ==
  Between =>
    /\ \A i \in 1 .. size - 1 : Precedes(arr[(i - 1) \div 2], arr[i])
    /\ pushed = {arr[i] : i \in 0 .. size - 1}
=============================================================================
