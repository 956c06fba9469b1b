----------------------------- MODULE MCStorage -----------------------------
(***************************************************************************)
(* Blocks: the log (Log), and the buffer cache and the disk queue under it *)
(* (Disk).  A behaviour picks one of the two and runs it on its own small  *)
(* instance.                                                               *)
(***************************************************************************)
EXTENDS Log, TLC

CONSTANTS Nobody, None, p1, p2, b1, b2, b3, n1, n2, n3, n4, v1, v2

VARIABLES
  part,
  d_lru, d_blockno, d_valid, d_dirty, d_refcnt, d_data, d_holder, d_idequeue, d_cmd, d_irq,
  d_disk, d_pc, d_mine

dVars == <<d_lru, d_blockno, d_valid, d_dirty, d_refcnt, d_data, d_holder, d_idequeue, d_cmd,
           d_irq, d_disk, d_pc, d_mine>>

(* two processes, and three buffers of which the log may pin two: bget may find none *)
D == INSTANCE Disk WITH
  Procs <- {p1, p2}, Bufs <- {b1, b2, b3}, Blocks <- {n1, n2, n3, n4}, Vals <- {v1, v2},
  Nobody <- Nobody, None <- None, havedisk1 <- TRUE, MaxPinned <- 2,
  lru <- d_lru, blockno <- d_blockno, valid <- d_valid, dirty <- d_dirty, refcnt <- d_refcnt,
  data <- d_data, holder <- d_holder, idequeue <- d_idequeue, cmd <- d_cmd, irq <- d_irq,
  disk <- d_disk, pc <- d_pc, mine <- d_mine

ASSUME LogAssumption /\ ValueAssumption /\ D!DiskAssumption

(* Disk's processes, block numbers and contents are interchangeable, and so are its
   buffers: the order in which binit lists them is a choice of their names. *)
Symmetry ==
  Permutations({p1, p2}) \cup Permutations({n1, n2, n3, n4}) \cup Permutations({v1, v2})
    \cup Permutations({b1, b2, b3})

(* The state without what is left in log blocks that are written before they are read. *)
Live ==
  <<part, dVars, home, hdr, mode, mem, procs, step, tail,
    [i \in LogSlots |-> IF i <= Len(hdr) \/ (step = "log" /\ i < tail) THEN ldata[i] ELSE 0]>>

-----------------------------------------------------------------------------
Part(x) == part = x

StorageInit ==
  /\ part \in {"disk", "log"} /\ Init /\ D!Init
  /\ Part("log") \/ home = [b \in Blocks |-> 0]

LogNext == Part("log") /\ Next /\ UNCHANGED <<part, dVars>>
DiskNext == Part("disk") /\ D!Next /\ UNCHANGED <<part, vars>>

StorageNext == LogNext \/ DiskNext
StorageSpec == StorageInit /\ [][StorageNext]_<<part, vars, dVars>>

-----------------------------------------------------------------------------
(* Log's properties are checked as they stand.                                *)

(* The cache has one buffer for a block, counts its users, runs out of buffers
   only when as many are pinned and in use as there are, and no other check in
   bio.c and ide.c fails.                                                     *)
CacheSound == Part("disk") => D!TypeOK /\ D!OneCopy /\ D!NoDiskPanic

(* Who sleeps for a buffer's lock or for the disk will be woken.              *)
SleepersWaitForSomething == Part("disk") => D!SleepersWaitForSomething

(* Cache, sleep locks and disk queue implement a store of blocks that have one
   owner at a time.                                                           *)
IsBlockStore == D!IsBlockStore
=============================================================================
