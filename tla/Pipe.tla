------------------------------- MODULE Pipe -------------------------------
(***************************************************************************)
(* A pipe (pipe.c) between processes that read and processes that write,   *)
(* with sleep, wakeup and kill as proc.c has them.  The lock p->lock is    *)
(* explicit: a process that finds the pipe full or empty reads its killed  *)
(* flag and then sleeps, and kill, which takes only ptable.lock, can come  *)
(* between the two.                                                        *)
(***************************************************************************)
EXTENDS Integers, Sequences

CONSTANTS
  Readers, Writers,   \* processes that have the read end, the write end
  NoProc,             \* holder of the free lock
  PIPESIZE,
  WRAP,               \* nread and nwrite count modulo this: 2^32 in the code
  MaxN                \* bound: the longest read or write asked for

PipeAssumption ==
  /\ PIPESIZE \in Nat \ {0} /\ WRAP \in Nat /\ MaxN \in Nat \ {0}
  /\ WRAP % PIPESIZE = 0 /\ WRAP > PIPESIZE
ProcAssumption == Readers \cap Writers = {} /\ NoProc \notin Readers \cup Writers

Parties == Readers \cup Writers
Bytes == Writers \X (1..MaxN)    \* a byte is named by its place in a write

VARIABLES
  data, nread, nwrite, readopen, writeopen,  \* struct pipe
  lock,    \* p->lock
  pc,      \* "idle"; "acq": acquiring p->lock; "loop": in the loop with it held;
           \* "sleep": calling sleep() with it held; "asleep"; "closed"
  n, i,    \* a writer's arguments and local variable
  killed

pipe == <<data, nread, nwrite, readopen, writeopen>>
vars == <<pipe, lock, pc, n, i, killed>>

InCall == {"acq", "loop", "sleep", "asleep"}

TypeOK ==
  /\ data \in [0..PIPESIZE - 1 -> Bytes \cup {<<>>}]
  /\ nread \in 0..WRAP - 1 /\ nwrite \in 0..WRAP - 1
  /\ readopen \in BOOLEAN /\ writeopen \in BOOLEAN
  /\ lock \in Parties \cup {NoProc}
  /\ pc \in [Parties -> {"idle", "closed"} \cup InCall]
  /\ n \in [Writers -> 0..MaxN] /\ i \in [Writers -> 0..MaxN]
  /\ killed \in [Parties -> BOOLEAN]

(* after pipealloc and the forks that share the ends *)
Init ==
  /\ data = [x \in 0..PIPESIZE - 1 |-> << >>]
  /\ nread = 0 /\ nwrite = 0
  /\ readopen = TRUE /\ writeopen = TRUE
  /\ lock = NoProc
  /\ pc = [p \in Parties |-> "idle"]
  /\ n = [w \in Writers |-> 0] /\ i = [w \in Writers |-> 0]
  /\ killed = [p \in Parties |-> FALSE]

-----------------------------------------------------------------------------
Add(x, k) == (x + k) % WRAP      \* unsigned arithmetic
OffByOne == nwrite = Add(nread, PIPESIZE + 1)
Full == nwrite = Add(nread, PIPESIZE)
Empty == nread = nwrite
Used == (nwrite - nread) % WRAP

Goto(p, l) == pc' = [pc EXCEPT ![p] = l]

(* pc after wakeup() of the processes in S sleeping on the pipe, p going to l *)
Woken(S, p, l) ==
  [r \in Parties |-> IF r = p THEN l
                   ELSE IF r \in S /\ pc[r] = "asleep" THEN "acq" ELSE pc[r]]

(* acquire(&p->lock), on entry or on return from sleep() *)
Acquire(p) ==
  /\ pc[p] = "acq" /\ lock = NoProc
  /\ lock' = p /\ Goto(p, "loop")
  /\ UNCHANGED <<pipe, n, i, killed>>

(* sleep(): ptable.lock is taken before p->lock is released, so no wakeup is lost *)
Sleep(p) ==
  /\ pc[p] = "sleep"
  /\ lock' = NoProc /\ Goto(p, "asleep")
  /\ UNCHANGED <<pipe, n, i, killed>>

-----------------------------------------------------------------------------
(* pipewrite *)

WriteCall(w) ==
  /\ pc[w] = "idle" /\ ~killed[w]
  /\ \E k \in 1..MaxN : n' = [n EXCEPT ![w] = k]
  /\ Goto(w, "acq")
  /\ UNCHANGED <<pipe, lock, i, killed>>

(* one byte goes in *)
WriteByte(w) ==
  /\ pc[w] = "loop" /\ i[w] < n[w]
  /\ ~Full
  /\ data' = [data EXCEPT ![nwrite % PIPESIZE] = <<w, i[w] + 1>>]
  /\ nwrite' = Add(nwrite, 1)
  /\ i' = [i EXCEPT ![w] = @ + 1]
  /\ UNCHANGED <<nread, readopen, writeopen, lock, pc, n, killed>>

(* the call's locals are gone *)
Return(w) == n' = [n EXCEPT ![w] = 0] /\ i' = [i EXCEPT ![w] = 0]

(* full, and nobody to read or nobody to wait: return -1 *)
NoReadopenTest(w) == killed[w]
GivesUp(w) == ~readopen \/ killed[w]

WriteFail(w) ==
  /\ pc[w] = "loop" /\ i[w] < n[w]
  /\ Full /\ GivesUp(w)
  /\ lock' = NoProc /\ Goto(w, "idle")
  /\ Return(w)
  /\ UNCHANGED <<pipe, killed>>

(* full: wake the readers and go to sleep *)
WriteFull(w) ==
  /\ pc[w] = "loop" /\ i[w] < n[w]
  /\ Full /\ ~GivesUp(w)
  /\ pc' = Woken(Readers, w, "sleep")
  /\ UNCHANGED <<pipe, lock, n, i, killed>>

SilentDone(w) ==
  /\ pc[w] = "loop" /\ i[w] = n[w]
  /\ lock' = NoProc /\ Goto(w, "idle")
  /\ Return(w)
  /\ UNCHANGED <<pipe, killed>>
WriteDone(w) ==
  /\ pc[w] = "loop" /\ i[w] = n[w]
  /\ lock' = NoProc
  /\ pc' = Woken(Readers, w, "idle")
  /\ Return(w)
  /\ UNCHANGED <<pipe, killed>>

-----------------------------------------------------------------------------
(* piperead *)

ReadCall(r) ==
  /\ pc[r] = "idle" /\ ~killed[r]
  /\ Goto(r, "acq")
  /\ UNCHANGED <<pipe, lock, n, i, killed>>

(* nothing to read: return -1 if killed, else go to sleep *)
ReadEmpty(r) ==
  /\ pc[r] = "loop"
  /\ Empty /\ writeopen
  /\ IF killed[r]
     THEN lock' = NoProc /\ Goto(r, "idle")
     ELSE Goto(r, "sleep") /\ UNCHANGED lock
  /\ UNCHANGED <<pipe, n, i, killed>>

(* copy what there is, up to k bytes, wake the writers, return *)
ReadCopy(r, k) ==
  /\ pc[r] = "loop"
  /\ ~(Empty /\ writeopen)
  /\ nread' = Add(nread, IF Used < k THEN Used ELSE k)
  /\ lock' = NoProc
  /\ pc' = Woken(Writers, r, "idle")
  /\ UNCHANGED <<data, nwrite, readopen, writeopen, n, i, killed>>

-----------------------------------------------------------------------------
(* A process closes its end, by close() or in exit(); the last one to do so
   calls pipeclose, which wakes the other side. *)
Close(p) ==
  /\ pc[p] = "idle" /\ lock = NoProc
  /\ LET side == IF p \in Readers THEN Readers ELSE Writers
         last == \A r \in side \ {p} : pc[r] = "closed" IN
       /\ readopen' = (readopen /\ ~(last /\ p \in Readers))
       /\ writeopen' = (writeopen /\ ~(last /\ p \in Writers))
       /\ pc' = IF last THEN Woken(Parties \ side, p, "closed") ELSE [pc EXCEPT ![p] = "closed"]
  /\ UNCHANGED <<data, nread, nwrite, lock, n, i, killed>>

(* kill: a sleeper becomes runnable and goes on to reacquire p->lock *)
Kill(p) ==
  /\ pc[p] # "closed" /\ ~killed[p]
  /\ killed' = [killed EXCEPT ![p] = TRUE]
  /\ pc' = [pc EXCEPT ![p] = IF @ = "asleep" THEN "acq" ELSE @]
  /\ UNCHANGED <<pipe, lock, n, i>>

AllClosed == (\A p \in Parties : pc[p] = "closed") /\ UNCHANGED vars

Step(p) ==
  \/ Acquire(p) \/ Sleep(p)
  \/ p \in Writers /\ (WriteByte(p) \/ WriteFail(p) \/ WriteFull(p) \/ WriteDone(p))
  \/ p \in Readers /\ (ReadEmpty(p) \/ \E k \in 1..MaxN : ReadCopy(p, k))

Next ==
  \/ \E p \in Parties : Step(p) \/ Close(p) \/ Kill(p)
  \/ \E w \in Writers : WriteCall(w)
  \/ \E r \in Readers : ReadCall(r)
  \/ AllClosed

Spec == Init /\ [][Next]_vars

(* A process inside a call keeps executing.  Calling read and write, closing and
   killing are up to the programs. *)
FairSpec == Spec /\ \A p \in Parties : WF_vars(Step(p))

-----------------------------------------------------------------------------
(* Properties *)

Queue == [x \in 1..Used |-> data[(nread + x - 1) % PIPESIZE]]

Abstract == INSTANCE Fifo WITH q <- Queue, Size <- PIPESIZE

(* The ring buffer is a bounded queue: no byte is lost, repeated, reordered or
   overwritten, for any interleaving of readers and writers and across the wrap
   of the unsigned counters (pipewrite 84-94, piperead 113-117). *)
PipeIsFifo == Abstract!Spec

WriterKilled == \E w \in Writers : killed[w]

(* No lost wakeup: while nobody is inside the pipe's lock, a sleeping writer has no
   room in an open pipe, and a sleeping reader nothing to read from one, unless a
   writer was killed.  (pipewrite returns -1 at 86-88 without the wakeup of the
   readers for the bytes it did write.) *)
SleepersJustified ==
  lock = NoProc =>
    /\ \A r \in Readers : pc[r] = "asleep" => (Empty /\ writeopen) \/ WriterKilled
    /\ \A w \in Writers : pc[w] = "asleep" => Full /\ readopen

(* A reader in a call returns once there is something to read or no writer is
   left (one reader, no writer killed). *)
ReaderServed ==
  \A r \in Readers :
    pc[r] \in InCall /\ (~Empty \/ ~writeopen) ~> pc[r] \notin InCall \/ WriterKilled

(* A writer in a call does not outwait its last reader. *)
WriterReleased ==
  \A w \in Writers : pc[w] \in InCall /\ ~readopen ~> pc[w] \notin InCall

(* A killed process leaves the pipe: one that kill wakes "from sleep if necessary"
   (proc.c 681), or that has not tested killed since, returns from its call instead
   of sleeping again.  (A kill that falls between the test and sleep() waits for
   the next wakeup: such a process is at "sleep", not at "acq" or "loop".) *)
KilledLeaves ==
  \A p \in Parties : killed[p] /\ pc[p] \in {"acq", "loop"} ~> pc[p] \notin InCall
=============================================================================
