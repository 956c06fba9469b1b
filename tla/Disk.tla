-------------------------------- MODULE Disk --------------------------------
(***************************************************************************)
(* The buffer cache (bio.c), its sleep locks (sleeplock.c) and the queue   *)
(* of the disk driver (ide.c), used by several processes at once.          *)
(*                                                                         *)
(* One action is one section under bcache.lock, a sleep lock's spinlock or *)
(* idelock.  sleep() gives its spinlock up in the same step (module Proc   *)
(* shows why), so a process that goes to sleep is one action, and          *)
(* returning from sleep is a fresh test of the loop's condition.           *)
(***************************************************************************)
EXTENDS Integers, Sequences, FiniteSets, SequencesExt

CONSTANTS
  Procs, Bufs, Blocks, Vals,
  Nobody,      \* an unlocked sleep lock
  None,        \* no buffer, no block, no command
  havedisk1,   \* ideinit found the file system's disk
  MaxPinned    \* bound: blocks log.c keeps B_DIRTY at a time

DiskAssumption ==
  /\ Nobody \notin Procs /\ None \notin Bufs \cup Blocks
  /\ havedisk1 \in BOOLEAN /\ MaxPinned \in Nat

VARIABLES
  lru,         \* bcache's list; head.next, the most recently used, is first
  blockno, valid, dirty, refcnt, data,   \* struct buf, by buffer
  holder,      \* the sleep lock of each buffer: locked and pid
  idequeue,
  cmd,         \* the command the controller executes
  irq,         \* the controller has raised its interrupt
  disk,        \* the blocks on the disk
  pc, mine     \* where each process is, and the buffer it is using

bufVars == <<lru, blockno, valid, dirty, refcnt, data>>
ideVars == <<idequeue, cmd, irq, disk>>
vars == <<bufVars, holder, ideVars, pc, mine>>

PCs == {"idle", "lock", "locksleep", "iosleep", "iowoken", "use", "drop", "nobuffers", "panic"}
Commands == [write : BOOLEAN, block : Blocks, data : Vals]

TypeOK ==
  /\ lru \in Seq(Bufs) /\ Len(lru) = Cardinality(Bufs) /\ Range(lru) = Bufs
  /\ blockno \in [Bufs -> Blocks \cup {None}]
  /\ valid \in [Bufs -> BOOLEAN] /\ dirty \in [Bufs -> BOOLEAN]
  /\ refcnt \in [Bufs -> Nat]
  /\ data \in [Bufs -> Vals]
  /\ holder \in [Bufs -> Procs \cup {Nobody}]
  /\ idequeue \in Seq(Bufs)
  /\ cmd \in Commands \cup {None} /\ irq \in BOOLEAN
  /\ disk \in [Blocks -> Vals]
  /\ pc \in [Procs -> PCs]
  /\ mine \in [Procs -> Bufs \cup {None}]

(* binit; the buffers start zeroed, for no block of the file system's device *)
Init ==
  /\ lru = SetToSeq(Bufs)
  /\ blockno = [b \in Bufs |-> None]
  /\ valid = [b \in Bufs |-> FALSE] /\ dirty = [b \in Bufs |-> FALSE]
  /\ refcnt = [b \in Bufs |-> 0]
  /\ \E v \in Vals : data = [b \in Bufs |-> v] /\ disk = [n \in Blocks |-> v]
  /\ holder = [b \in Bufs |-> Nobody]
  /\ idequeue = << >> /\ cmd = None /\ irq = FALSE
  /\ pc = [p \in Procs |-> "idle"]
  /\ mine = [p \in Procs |-> None]

Goto(p, l) == pc' = [pc EXCEPT ![p] = l]

-----------------------------------------------------------------------------
(* bget, under bcache.lock *)

(* positions in the list: the first buffer for block n, and the least recently
   used one that may be recycled; 0 if there is none *)
AnyUnreferenced == SelectLastInSeq(lru, LAMBDA b : refcnt[b] = 0)
AnyClean == SelectLastInSeq(lru, LAMBDA b : ~dirty[b])
Found(n) == SelectInSeq(lru, LAMBDA b : blockno[b] = n)
Recyclable == SelectLastInSeq(lru, LAMBDA b : refcnt[b] = 0 /\ ~dirty[b])

BgetCached(p, n) ==
  /\ pc[p] = "idle" /\ Found(n) # 0
  /\ LET b == lru[Found(n)]
     IN /\ refcnt' = [refcnt EXCEPT ![b] = @ + 1]
        /\ mine' = [mine EXCEPT ![p] = b]
  /\ Goto(p, "lock")
  /\ UNCHANGED <<lru, blockno, valid, dirty, data, holder, ideVars>>

BgetRecycle(p, n) ==
  /\ pc[p] = "idle" /\ Found(n) = 0
  /\ IF Recyclable = 0
     THEN Goto(p, "nobuffers") /\ UNCHANGED <<bufVars, mine>>
     ELSE LET b == lru[Recyclable]
          IN /\ blockno' = [blockno EXCEPT ![b] = n]
             /\ valid' = [valid EXCEPT ![b] = FALSE]
             /\ dirty' = [dirty EXCEPT ![b] = FALSE]
             /\ refcnt' = [refcnt EXCEPT ![b] = 1]
             /\ mine' = [mine EXCEPT ![p] = b]
             /\ Goto(p, "lock")
             /\ UNCHANGED <<lru, data>>
  /\ UNCHANGED <<holder, ideVars>>

-----------------------------------------------------------------------------
(* sleep locks *)

holdingsleep(p) == holder[mine[p]] = p

(* pc after wakeup(chan), p itself going on to l *)
NoWakeup(p, b, l) == [pc EXCEPT ![p] = l]
WokenLock(p, b, l) ==
  [q \in Procs |-> IF q = p THEN l
                   ELSE IF pc[q] = "locksleep" /\ mine[q] = b THEN "lock" ELSE pc[q]]

(* brelse, up to the end of releasesleep *)
ReleaseSleep(p) ==
  /\ pc[p] = "use"
  /\ IF ~holdingsleep(p)
     THEN Goto(p, "panic") /\ UNCHANGED holder
     ELSE /\ holder' = [holder EXCEPT ![mine[p]] = Nobody]
          /\ pc' = WokenLock(p, mine[p], "drop")
  /\ UNCHANGED <<bufVars, ideVars, mine>>

Unreferenced(b) == [refcnt EXCEPT ![b] = @ - 1]

MovedToFront(b) == <<b>> \o Remove(lru, b)

(* the rest of brelse, under bcache.lock *)
Drop(p) ==
  /\ pc[p] = "drop"
  /\ LET b == mine[p]
     IN /\ refcnt' = Unreferenced(b)
        /\ lru' = IF refcnt[b] = 1 THEN MovedToFront(b) ELSE lru
  /\ mine' = [mine EXCEPT ![p] = None]
  /\ Goto(p, "idle")
  /\ UNCHANGED <<blockno, valid, dirty, data, holder, ideVars>>

-----------------------------------------------------------------------------
(* the disk driver *)

(* idestart: what the controller is told for buffer b with content v *)
Command(b, d, v) == [write |-> d, block |-> blockno[b], data |-> v]

(* iderw's checks, of a buffer whose B_DIRTY is d *)
CannotStart(p, b, d) == holder'[b] # p \/ (valid[b] /\ ~d) \/ ~havedisk1

(* iderw, until it sleeps: append b, start the disk if b is first.  A buffer that
   passes the checks is not valid or is dirty, so the loop must sleep. *)
StartDisk(p, b, d, v) ==
  IF CannotStart(p, b, d)
  THEN Goto(p, "panic") /\ UNCHANGED <<idequeue, cmd>>
  ELSE /\ idequeue' = Append(idequeue, b)
       /\ cmd' = IF idequeue = << >> THEN Command(b, d, v) ELSE cmd
       /\ Goto(p, "iosleep")

(* bread, once it has the lock, which protects the buffer *)
bread(p) ==
  IF valid[mine[p]] THEN Goto(p, "use") /\ UNCHANGED <<idequeue, cmd>>
  ELSE StartDisk(p, mine[p], dirty[mine[p]], data[mine[p]])

(* acquiresleep at the end of bget, and what follows it *)
AcquireSleep(p) ==
  /\ pc[p] = "lock"
  /\ IF holder[mine[p]] # Nobody
     THEN Goto(p, "locksleep") /\ UNCHANGED <<holder, idequeue, cmd>>
     ELSE /\ holder' = [holder EXCEPT ![mine[p]] = p]
          /\ bread(p)
  /\ UNCHANGED <<bufVars, irq, disk, mine>>

(* iderw, back from sleep *)
IoWoken(p) ==
  /\ pc[p] = "iowoken"
  /\ Goto(p, IF valid[mine[p]] /\ ~dirty[mine[p]] THEN "use" ELSE "iosleep")
  /\ UNCHANGED <<bufVars, holder, ideVars, mine>>

(* the caller changes the buffer, and bwrite *)
BWrite(p, v) ==
  /\ pc[p] = "use"
  /\ UNCHANGED <<lru, blockno, valid, refcnt, holder, irq, disk, mine>>
  /\ IF ~holdingsleep(p)
     THEN Goto(p, "panic") /\ UNCHANGED <<dirty, data, idequeue, cmd>>
     ELSE /\ data' = [data EXCEPT ![mine[p]] = v]
          /\ dirty' = [dirty EXCEPT ![mine[p]] = TRUE]
          /\ StartDisk(p, mine[p], TRUE, v)

Pinned == {b \in Bufs : dirty[b] /\ ~\E i \in DOMAIN idequeue : idequeue[i] = b}

(* ... or log_write, which keeps the buffer in the cache by marking it *)
LogWrite(p, v) ==
  /\ pc[p] = "use"
  /\ Cardinality(Pinned \cup {mine[p]}) <= MaxPinned
  /\ data' = [data EXCEPT ![mine[p]] = v]
  /\ dirty' = [dirty EXCEPT ![mine[p]] = TRUE]
  /\ UNCHANGED <<lru, blockno, valid, refcnt, holder, ideVars, pc, mine>>

(* the controller carries a command out: a write reaches the disk, a read fills
   its buffer; it then interrupts *)
Controller ==
  /\ cmd # None /\ ~irq
  /\ IF cmd.write
     THEN disk' = [disk EXCEPT ![cmd.block] = cmd.data] /\ UNCHANGED cmd
     ELSE cmd' = [cmd EXCEPT !.data = disk[cmd.block]] /\ UNCHANGED disk
  /\ irq' = TRUE
  /\ UNCHANGED <<bufVars, holder, idequeue, pc, mine>>

Ideintr ==
  /\ irq /\ idequeue # << >>
  /\ LET b == Head(idequeue)
         rest == Tail(idequeue)
     IN /\ data' = IF dirty[b] THEN data ELSE [data EXCEPT ![b] = cmd.data]
        /\ valid' = [valid EXCEPT ![b] = TRUE]
        /\ dirty' = [dirty EXCEPT ![b] = FALSE]
        /\ pc' = [q \in Procs |-> IF pc[q] = "iosleep" /\ mine[q] = b THEN "iowoken" ELSE pc[q]]
        /\ idequeue' = rest
        /\ cmd' = IF rest = << >> THEN None
                  ELSE Command(Head(rest), dirty[Head(rest)], data[Head(rest)])
  /\ irq' = FALSE
  /\ UNCHANGED <<lru, blockno, refcnt, holder, disk, mine>>

(* kill makes a sleeping process runnable whatever it waits for *)
Kill(p) ==
  /\ \/ pc[p] = "locksleep" /\ Goto(p, "lock")
     \/ pc[p] = "iosleep" /\ Goto(p, "iowoken")
  /\ UNCHANGED <<bufVars, holder, ideVars, mine>>

Next ==
  \/ \E p \in Procs, n \in Blocks : BgetCached(p, n) \/ BgetRecycle(p, n)
  \/ \E p \in Procs, v \in Vals : BWrite(p, v) \/ LogWrite(p, v)
  \/ \E p \in Procs : \/ AcquireSleep(p) \/ IoWoken(p)
                      \/ ReleaseSleep(p) \/ Drop(p) \/ Kill(p)
  \/ Controller
  \/ Ideintr

Spec == Init /\ [][Next]_vars

-----------------------------------------------------------------------------
(* Properties *)

Using(b) == {p \in Procs : mine[p] = b}

(* The cache never has two buffers for one block, and a buffer's reference count is
   the number of processes between their bget and the end of their brelse: that is
   what makes it the synchronisation point for a block, and what keeps a buffer
   that someone waits for from being recycled (bget, brelse). *)
OneCopy ==
  /\ \A b, c \in Bufs : blockno[b] = blockno[c] /\ blockno[b] # None => b = c
  /\ \A b \in Bufs : refcnt[b] = Cardinality(Using(b))

(* No wakeup is lost: a process asleep in acquiresleep waits for a lock that is
   held, and one asleep in iderw for a buffer that is in the driver's queue, once,
   with the disk at work on the queue's first buffer. *)
SleepersWaitForSomething ==
  /\ \A p \in Procs :
       /\ pc[p] = "locksleep" => holder[mine[p]] # Nobody
       /\ pc[p] = "iosleep" => \E i \in DOMAIN idequeue : idequeue[i] = mine[p]
  /\ \A i, j \in DOMAIN idequeue : idequeue[i] = idequeue[j] => i = j
  /\ IF idequeue = << >> THEN cmd = None
     ELSE cmd # None /\ cmd.block = blockno[Head(idequeue)]

(* The panics of bwrite, brelse and, with the disk there, iderw are out of reach:
   who uses a buffer holds its lock, and bread and bwrite hand over buffers with
   something to do.  bget's panic is not: NBUF equals LOGSIZE.  But it takes as many
   buffers pinned by the log and in use by processes as there are. *)
NoDiskPanic ==
  /\ \A p \in Procs : pc[p] # "panic"
  /\ Recyclable = 0 =>
       Cardinality(Pinned) + Cardinality({p \in Procs : mine[p] # None}) >= Cardinality(Bufs)

(* the valid and the locked buffers for block n *)
ValidFor(n) == {b \in Bufs : blockno[b] = n /\ valid[b]}
LockedFor(n) == {b \in Bufs : blockno[b] = n /\ holder[b] # Nobody}

Content(n) ==
  LET bs == ValidFor(n) IN IF bs = {} THEN disk[n] ELSE data[CHOOSE b \in bs : TRUE]
Owner(n) ==
  LET bs == LockedFor(n) IN IF bs = {} THEN Nobody ELSE holder[CHOOSE b \in bs : TRUE]

Store == INSTANCE BlockStore WITH
  content <- [n \in Blocks |-> Content(n)], owner <- [n \in Blocks |-> Owner(n)]

(* Behind the cache, the recycling, the queue and the interrupts there is one
   content per block, and nothing but its current owner changes it: no stale read,
   no lost write (bio.c 3-14). *)
IsBlockStore == Store!Spec
=============================================================================
