-------------------------------- MODULE Log --------------------------------
(***************************************************************************)
(* The write-ahead log (log.c) with the part of the buffer cache it leans  *)
(* on (bio.c): begin_op, log_write, end_op and the group commit, crashes   *)
(* at any disk write, and recovery, which can crash too.                   *)
(*                                                                         *)
(* One action is one section under log.lock or one synchronous block       *)
(* write.  A buffer is modified and handed to log_write under its sleep    *)
(* lock; log_write reads log.lh.n before it takes log.lock, so the check   *)
(* and the append are two actions.                                         *)
(***************************************************************************)
EXTENDS Integers, Sequences, FiniteSets

CONSTANTS
  Procs, Blocks, Vals,
  NoBlock,        \* no buffer held
  Absent,         \* block not in the buffer cache
  MAXOPBLOCKS, LOGSIZE,
  NLOG,           \* sb.nlog: blocks of the on-disk log, its header included
  OpBlocks        \* bound: distinct blocks that one operation writes

LogAssumption ==
  /\ MAXOPBLOCKS \in Nat /\ LOGSIZE \in Nat /\ NLOG \in Nat /\ OpBlocks \in Nat
  /\ 0 < MAXOPBLOCKS /\ MAXOPBLOCKS <= LOGSIZE
  /\ OpBlocks <= MAXOPBLOCKS
ValueAssumption == NoBlock \notin Blocks /\ Absent \notin Vals

VARIABLES
  home,         \* disk: the blocks at their home locations
  hdr,          \* disk: the header block, the list of logged block numbers
  ldata,        \* disk: the log's data blocks
  mode,         \* "up", "recover", or "panic"
  cache,        \* buffer contents
  pinned,       \* B_DIRTY
  lh,           \* log.lh: its first log.lh.n block numbers
  outstanding, committing,
  op,           \* where each process is: "idle", "begin", "asleep" (on &log),
                \* "run" (inside an operation), "commit" (end_op's commit)
  held,         \* the modified buffer it is passing to log_write
  wrote,        \* the blocks its operation has logged
  step, tail    \* position in commit() or recover_from_log()

disk == <<home, hdr, ldata>>
mem == <<cache, pinned, lh, outstanding, committing>>
procs == <<op, held, wrote>>
vars == <<disk, mode, mem, procs, step, tail>>

LogSlots == 1..LOGSIZE

TypeOK ==
  /\ home \in [Blocks -> Vals]
  /\ hdr \in Seq(Blocks) /\ Len(hdr) <= LOGSIZE
  /\ ldata \in [LogSlots -> Vals]
  /\ mode \in {"up", "recover", "panic"}
  /\ cache \in [Blocks -> Vals \cup {Absent}]
  /\ pinned \in [Blocks -> BOOLEAN]
  /\ lh \in Seq(Blocks) /\ Len(lh) <= LOGSIZE
  /\ outstanding \in Nat
  /\ committing \in BOOLEAN
  /\ op \in [Procs -> {"idle", "begin", "asleep", "run", "commit"}]
  /\ held \in [Procs -> Blocks \cup {NoBlock}]
  /\ wrote \in [Procs -> SUBSET Blocks]
  /\ step \in {"none", "log", "install", "finish", "readhead"}
  /\ tail \in 1..LOGSIZE + 1

(* A file system as mkfs leaves it: any contents, an empty log; the first boot
   recovers from it. *)
Init ==
  /\ \E v \in Vals : home = [b \in Blocks |-> v] /\ ldata = [i \in LogSlots |-> v]
  /\ hdr = << >>
  /\ mode = "recover"
  /\ cache = [b \in Blocks |-> Absent]
  /\ pinned = [b \in Blocks |-> FALSE]
  /\ lh = << >>
  /\ outstanding = 0
  /\ committing = FALSE
  /\ op = [p \in Procs |-> "idle"]
  /\ held = [p \in Procs |-> NoBlock]
  /\ wrote = [p \in Procs |-> {}]
  /\ step = "readhead"
  /\ tail = 1

-----------------------------------------------------------------------------
(* The buffer cache, as the log sees it *)

(* what bread returns *)
Content(b) == IF cache[b] = Absent THEN home[b] ELSE cache[b]

Referenced(b) == \E p \in Procs : held[p] = b

(* bread for a reader outside any operation *)
Read(b) ==
  /\ mode = "up"
  /\ cache[b] = Absent
  /\ cache' = [cache EXCEPT ![b] = home[b]]
  /\ UNCHANGED <<disk, mode, pinned, lh, outstanding, committing, procs, step, tail>>

(* bget recycles a buffer that nobody references and that is not B_DIRTY *)
Evict(b) ==
  /\ mode = "up"
  /\ cache[b] # Absent
  /\ ~pinned[b] /\ ~Referenced(b)
  /\ cache' = [cache EXCEPT ![b] = Absent]
  /\ UNCHANGED <<disk, mode, pinned, lh, outstanding, committing, procs, step, tail>>

-----------------------------------------------------------------------------
(* Operations *)

StartOp(p) ==
  /\ mode = "up" /\ op[p] = "idle"
  /\ op' = [op EXCEPT ![p] = "begin"]
  /\ UNCHANGED <<disk, mode, mem, held, wrote, step, tail>>

(* begin_op's test: no commit under way, and room for this operation and for
   all that the outstanding ones may still write *)
ForgetThisOp == ~committing /\ Len(lh) + outstanding * MAXOPBLOCKS <= LOGSIZE
Admits == ~committing /\ Len(lh) + (outstanding + 1) * MAXOPBLOCKS <= LOGSIZE

BeginOp(p) ==
  /\ mode = "up" /\ op[p] = "begin"
  /\ IF Admits
     THEN /\ outstanding' = outstanding + 1
          /\ op' = [op EXCEPT ![p] = "run"]
     ELSE /\ op' = [op EXCEPT ![p] = "asleep"]
          /\ UNCHANGED outstanding
  /\ UNCHANGED <<disk, mode, cache, pinned, lh, committing, held, wrote, step, tail>>

(* an operation reads and modifies a buffer, and log_write checks, before it takes
   log.lock, that the log has room and that an operation is under way *)
Modify(p, b, v) ==
  /\ mode = "up" /\ op[p] = "run" /\ held[p] = NoBlock
  /\ ~Referenced(b)
  /\ Cardinality(wrote[p] \cup {b}) <= OpBlocks
  /\ cache' = [cache EXCEPT ![b] = v]
  /\ IF Len(lh) >= LOGSIZE \/ Len(lh) >= NLOG - 1 \/ outstanding < 1
     THEN mode' = "panic" /\ UNCHANGED held
     ELSE held' = [held EXCEPT ![p] = b] /\ UNCHANGED mode
  /\ UNCHANGED <<disk, pinned, lh, outstanding, committing, op, wrote, step, tail>>

Logged(b) == \E i \in 1..Len(lh) : lh[i] = b

NoPin(b) == pinned
Pin(b) == [pinned EXCEPT ![b] = TRUE]

(* log_write under log.lock: absorb or append, pin; then brelse *)
LogWrite(p) ==
  /\ mode = "up" /\ held[p] # NoBlock
  /\ lh' = IF Logged(held[p]) THEN lh ELSE Append(lh, held[p])
  /\ pinned' = Pin(held[p])
  /\ wrote' = [wrote EXCEPT ![p] = @ \cup {held[p]}]
  /\ held' = [held EXCEPT ![p] = NoBlock]
  /\ UNCHANGED <<disk, mode, cache, outstanding, committing, op, step, tail>>

(* op after wakeup(&log), when p's end_op leaves it at l *)
Woken(p, l) ==
  [q \in Procs |-> IF q = p THEN l ELSE IF op[q] = "asleep" THEN "begin" ELSE op[q]]

StillOutstanding == outstanding - 1

(* end_op: the last one out commits *)
EndOp(p) ==
  /\ mode = "up" /\ op[p] = "run" /\ held[p] = NoBlock
  /\ outstanding' = StillOutstanding
  /\ wrote' = [wrote EXCEPT ![p] = {}]
  /\ IF committing
     THEN mode' = "panic" /\ UNCHANGED <<committing, op, step, tail>>
     ELSE /\ UNCHANGED mode
          /\ IF StillOutstanding = 0
             THEN /\ committing' = TRUE
                  /\ op' = [op EXCEPT ![p] = "commit"]
                  /\ step' = IF lh = << >> THEN "finish" ELSE "log"
                  /\ tail' = 1
             ELSE /\ op' = Woken(p, "idle")
                  /\ UNCHANGED <<committing, step, tail>>
  /\ UNCHANGED <<disk, cache, pinned, lh, held>>

-----------------------------------------------------------------------------
(* commit() and recovery: one disk write per action *)

(* write_log: copy a cached block to its log slot *)
WriteLog ==
  /\ mode = "up" /\ step = "log" /\ tail <= Len(lh)
  /\ ldata' = [ldata EXCEPT ![tail] = Content(lh[tail])]
  /\ cache' = [cache EXCEPT ![lh[tail]] = Content(lh[tail])]
  /\ tail' = tail + 1
  /\ UNCHANGED <<home, hdr, mode, pinned, lh, outstanding, committing, procs, step>>

LogWritten == step = "log" /\ tail > Len(lh)

(* write_head: the commit point *)
WriteHead ==
  /\ mode = "up" /\ LogWritten
  /\ hdr' = lh
  /\ step' = "install" /\ tail' = 1
  /\ UNCHANGED <<home, ldata, mode, mem, procs>>

(* install_trans, in commit() or in recovery *)
InstallTrans ==
  /\ mode # "panic" /\ step = "install" /\ tail <= Len(lh)
  /\ home' = [home EXCEPT ![lh[tail]] = ldata[tail]]
  /\ cache' = [cache EXCEPT ![lh[tail]] = ldata[tail]]
  /\ pinned' = [pinned EXCEPT ![lh[tail]] = FALSE]
  /\ tail' = tail + 1
  /\ UNCHANGED <<hdr, ldata, mode, lh, outstanding, committing, procs, step>>

(* log.lh.n = 0 and write_head: erase the transaction *)
EraseEarly == step = "install"
Installed == step = "install" /\ tail > Len(lh)

ClearHead ==
  /\ mode # "panic" /\ Installed
  /\ lh' = << >> /\ hdr' = << >>
  /\ tail' = 1
  /\ IF mode = "recover"
     THEN mode' = "up" /\ step' = "none"
     ELSE step' = "finish" /\ UNCHANGED mode
  /\ UNCHANGED <<home, ldata, cache, pinned, outstanding, committing, procs>>

(* the end of end_op: the commit is over *)
FinishCommit(p) ==
  /\ mode = "up" /\ step = "finish" /\ op[p] = "commit"
  /\ committing' = FALSE
  /\ step' = "none"
  /\ op' = Woken(p, "idle")
  /\ UNCHANGED <<disk, mode, cache, pinned, lh, outstanding, held, wrote, tail>>

(* recovery reads the header *)
ReadHead ==
  /\ mode = "recover" /\ step = "readhead"
  /\ lh' = hdr
  /\ step' = "install" /\ tail' = 1
  /\ UNCHANGED <<disk, mode, cache, pinned, outstanding, committing, procs>>

(* power loss, or a reboot after a panic: memory is gone *)
Crash ==
  /\ mode' = "recover"
  /\ cache' = [b \in Blocks |-> Absent]
  /\ pinned' = [b \in Blocks |-> FALSE]
  /\ lh' = << >>
  /\ outstanding' = 0 /\ committing' = FALSE
  /\ op' = [p \in Procs |-> "idle"]
  /\ held' = [p \in Procs |-> NoBlock]
  /\ wrote' = [p \in Procs |-> {}]
  /\ step' = "readhead" /\ tail' = 1
  /\ UNCHANGED disk

Commit == WriteLog \/ WriteHead \/ InstallTrans \/ ClearHead \/ ReadHead

Next ==
  \/ \E b \in Blocks : Read(b) \/ Evict(b)
  \/ \E p \in Procs : StartOp(p) \/ BeginOp(p) \/ LogWrite(p) \/ EndOp(p) \/ FinishCommit(p)
  \/ \E p \in Procs, b \in Blocks, v \in Vals : Modify(p, b, v)
  \/ Commit
  \/ Crash

Spec == Init /\ [][Next]_vars

(* The disk completes its writes and the cpus keep running (WF); an operation
   makes finitely many writes, so it reaches end_op (SF). *)
Fairness ==
  /\ WF_vars(Commit)
  /\ \A p \in Procs :
       /\ WF_vars(BeginOp(p)) /\ WF_vars(LogWrite(p)) /\ WF_vars(FinishCommit(p))
       /\ SF_vars(EndOp(p))

FairSpec == Spec /\ Fairness

-----------------------------------------------------------------------------
(* Properties *)

(* the contents that recovery would leave: the log, if the header lists blocks,
   over the home locations *)
Recovered(b) ==
  LET slots == {i \in 1..Len(hdr) : hdr[i] = b}
  IN IF slots = {} THEN home[b] ELSE ldata[CHOOSE i \in slots : \A j \in slots : j <= i]

Running == {p \in Procs : op[p] = "run"}

Abstract == INSTANCE AtomicDisk WITH
  mem <- [b \in Blocks |-> IF mode = "recover" THEN Recovered(b) ELSE Content(b)],
  dur <- [b \in Blocks |-> Recovered(b)],
  busy <- IF mode = "recover" THEN {} ELSE Running

(* The log implements atomic, crash-safe updates: whatever the interleaving and
   wherever a crash falls, in commit, in install_trans or in recovery, the disk
   recovers to the last committed state, and a commit never holds half of an
   operation (log.c 9-22, commit, recover_from_log). *)
AtomicCommit == Abstract!Spec

(* The last end_op does not let go before its group is on disk: with no operation
   outstanding and no commit under way, a crash loses nothing (end_op). *)
QuietIsDurable ==
  mode = "up" /\ outstanding = 0 /\ ~committing =>
    \A b \in Blocks : Recovered(b) = Content(b)

(* begin_op reserves enough: what the running operations may still log, MAXOPBLOCKS
   each, fits in the LOGSIZE entries of the header (begin_op 132). *)
Unused == {r \in Running \X (1..MAXOPBLOCKS) : r[2] > Cardinality(wrote[r[1]])}
Reserved == Len(lh) + Cardinality(Unused) <= LOGSIZE

(* A sleeper in begin_op is never forgotten: someone who will wake it is inside an
   operation or committing (end_op's two wakeups). *)
SleeperHasWaker ==
  \A p \in Procs : op[p] = "asleep" => mode # "up" \/ committing \/ outstanding > 0

(* ... and it is woken in the end, unless log_write panics.  It may then find no
   room and sleep again: begin_op keeps no queue. *)
SleeperWoken == \A p \in Procs : op[p] = "asleep" ~> op[p] # "asleep" \/ mode = "panic"

(* "Thus there is never any reasoning required about whether a commit might write
   an uncommitted system call's updates to disk" (log.c 13-15): while a commit is
   under way no operation runs, and the blocks it logs do not change under it. *)
CommitAlone ==
  /\ committing => Running = {}
  /\ step \in {"log", "install"} /\ mode = "up" =>
       \A i \in 1..Len(lh) : i < tail \/ step = "install" =>
         ldata[i] = Content(lh[i])

(* Operations that keep to MAXOPBLOCKS blocks never meet log_write's panic:
   begin_op waits when the log is close to running out (log.c 19-21). *)
NoLogPanic == mode # "panic"

=============================================================================
