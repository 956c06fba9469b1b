----------------------------- MODULE LogProofs -----------------------------
(***************************************************************************)
(* The log is crash-safe for any number of operations, blocks and log      *)
(* slots: the disk always recovers to the last commit.                     *)
(***************************************************************************)
EXTENDS Log, Basics, FiniteSetTheorems, TLAPS

Distinct(s) == \A i, j \in 1..Len(s) : s[i] = s[j] => i = j

(* outstanding counts the operations that run, and only they hold buffers.    *)
Counted ==
  /\ IsFiniteSet(Running) /\ outstanding = Cardinality(Running)
  /\ \A p \in Procs : op[p] # "run" => held[p] = NoBlock /\ wrote[p] = {}

(* An operation keeps to its blocks, and they are in the log.                 *)
WithinOp ==
  \A p \in Procs :
    /\ IsFiniteSet(wrote[p]) /\ Cardinality(wrote[p]) <= OpBlocks
    /\ held[p] # NoBlock => Cardinality(wrote[p] \cup {held[p]}) <= OpBlocks
    /\ \A b \in wrote[p] : Logged(b)

(* Where commit and recovery are, and what the header says there.             *)
Phase ==
  /\ mode = "recover" =>
       /\ step \in {"readhead", "install"} /\ Running = {} /\ ~committing
       /\ \A p \in Procs : op[p] = "idle"
  /\ mode = "up" =>
       /\ step # "readhead" /\ (committing <=> step # "none")
       /\ committing => Running = {}
       /\ Running = {} /\ ~committing => lh = << >>
  /\ mode = "panic" => step = "none" /\ ~committing
  /\ step \in {"none", "log", "finish"} => hdr = << >>
  /\ step = "install" => lh = hdr
  /\ step \in {"finish", "readhead"} => lh = << >>
  /\ Distinct(lh) /\ Distinct(hdr)

(* A buffer that differs from its block on disk is held or pinned, and what   *)
(* is pinned is logged and not yet installed.                                 *)
Coherent ==
  mode # "panic" =>
    \A b \in Blocks :
      /\ cache[b] \notin {Absent, home[b]} => pinned[b] \/ Referenced(b)
      /\ Referenced(b) \/ pinned[b] => cache[b] # Absent
      /\ pinned[b] => Logged(b) /\ mode = "up"
      /\ step \in {"none", "log"} /\ Logged(b) => pinned[b]

(* How far write_log and install_trans have come.                             *)
Copied ==
  mode # "panic" =>
    \A i \in 1..Len(lh) :
      /\ step = "log" /\ i < tail => ldata[i] = cache[lh[i]]
      /\ step = "install" /\ i < tail => home[lh[i]] = ldata[i] /\ ~pinned[lh[i]]
      /\ step = "install" /\ mode = "up" /\ i >= tail =>
           pinned[lh[i]] /\ cache[lh[i]] = ldata[i]

IInv ==
  /\ TypeOK /\ Counted /\ WithinOp /\ Reserved /\ Phase /\ Coherent /\ Copied
  /\ SleeperHasWaker

-----------------------------------------------------------------------------
(* The accounts of the operations depend on who runs and on what they wrote.  *)
LEMMA SameAccounts ==
  ASSUME IInv, Running' = Running, UNCHANGED <<outstanding, held, wrote, lh>>
  PROVE  Counted' /\ WithinOp' /\ Reserved'
<1>1. \A p \in Procs : op'[p] # "run" => op[p] # "run" BY Zenon DEF Running
<1>2. Counted' BY Zenon, <1>1 DEF IInv, Counted
<1>3. WithinOp' BY Zenon DEF IInv, WithinOp, Logged
<1>4. Reserved'
  <2>1. Unused' = Unused BY Zenon DEF Unused
  <2> QED BY Zenon, <2>1 DEF IInv, Reserved
<1> QED BY Zenon, <1>2, <1>3, <1>4

(* Before the first boot.                                                     *)
LEMMA InitIInv ==
  ASSUME LogAssumption, ValueAssumption, Init
  PROVE  IInv
<1>1. PICK v \in Vals : home = [b \in Blocks |-> v] /\ ldata = [i \in LogSlots |-> v]
  BY Zenon DEF Init
<1>2. TypeOK
  <2>1. home \in [Blocks -> Vals] /\ ldata \in [LogSlots -> Vals] BY Zenon, <1>1
  <2>2. << >> \in Seq(Blocks) /\ Len(<< >>) = 0 /\ 1 \in 1..LOGSIZE + 1 BY DEF LogAssumption
  <2>3. 0 <= LOGSIZE BY DEF LogAssumption
  <2> QED BY Zenon, <2>1, <2>2, <2>3 DEF Init, TypeOK
<1>3. Running = {} BY Zenon DEF Init, Running
<1>4. Counted BY Zenon, <1>3, FS_EmptySet DEF Init, Counted
<1>5. WithinOp BY FS_EmptySet DEF Init, WithinOp, LogAssumption
<1>6. Reserved
  <2>1. Unused = {} BY Zenon, <1>3 DEF Unused
  <2> QED BY <2>1, FS_EmptySet DEF Init, Reserved, LogAssumption
<1>7. Phase BY <1>3 DEF Init, Phase, Distinct
<1>8. Coherent BY Zenon DEF Init, Coherent, Referenced, ValueAssumption
<1>9. Copied BY Zenon DEF Init, Copied
<1>10. SleeperHasWaker BY Zenon DEF Init, SleeperHasWaker
<1> QED BY <1>2, <1>4, <1>5, <1>6, <1>7, <1>8, <1>9, <1>10 DEF IInv

(* The cache takes in and lets go of blocks that equal the disk's.            *)
LEMMA CacheStep ==
  ASSUME LogAssumption, ValueAssumption, IInv, NEW b \in Blocks, Read(b) \/ Evict(b)
  PROVE  IInv'
<1>1. /\ UNCHANGED <<disk, mode, pinned, lh, outstanding, committing, procs, step, tail>>
      /\ mode = "up" /\ \E v \in {Absent, home[b]} : cache' = [cache EXCEPT ![b] = v]
      /\ cache[b] = Absent \/ (~pinned[b] /\ ~Referenced(b))
  BY Zenon DEF Read, Evict
<1>2. TypeOK' BY <1>1 DEF IInv, TypeOK, disk, procs
<1>3. Running' = Running BY Zenon, <1>1 DEF Running, procs
<1>4. Counted' /\ WithinOp' /\ Reserved' BY Zenon, <1>1, <1>3, SameAccounts DEF procs
<1>5. Phase' BY Zenon, <1>1, <1>3 DEF IInv, Phase, disk
<1>6. ~pinned[b] /\ ~Referenced(b)
  BY Zenon, <1>1 DEF IInv, Coherent
<1>7. \A c \in Blocks : c # b => cache'[c] = cache[c] BY Zenon, <1>1 DEF IInv, TypeOK
<1>8. cache'[b] \in {Absent, home[b]} BY Zenon, <1>1 DEF IInv, TypeOK
<1>9. Coherent'
  BY <1>1, <1>6, <1>7, <1>8 DEF IInv, Coherent, Referenced, Logged, disk, procs
<1>10. Copied'
  <2>1. \A i \in 1..Len(lh) : lh[i] \in Blocks BY DEF IInv, TypeOK
  <2>2. \A i \in 1..Len(lh) : step = "log" => lh[i] # b
    BY Zenon, <2>1, <1>1, <1>6 DEF IInv, Coherent, Logged
  <2>3. \A i \in 1..Len(lh) : step = "install" /\ i >= tail => lh[i] # b
    BY Zenon, <1>1, <1>6 DEF IInv, Copied
  <2> QED BY <1>1, <1>7, <2>1, <2>2, <2>3 DEF IInv, Copied, disk
<1>11. SleeperHasWaker' BY Zenon, <1>1 DEF IInv, SleeperHasWaker, procs
<1> QED BY Zenon, <1>2, <1>4, <1>5, <1>9, <1>10, <1>11 DEF IInv

(* Nothing but op changes, and nobody starts or stops running.                *)
LEMMA WaitStep ==
  ASSUME LogAssumption, IInv, NEW p \in Procs,
         mode = "up", op[p] \in {"idle", "begin"},
         \/ op' = [op EXCEPT ![p] = "begin"]
         \/ op' = [op EXCEPT ![p] = "asleep"] /\ ~Admits,
         UNCHANGED <<disk, mode, mem, held, wrote, step, tail>>
  PROVE  IInv'
<1>1. TypeOK' BY Zenon DEF IInv, TypeOK, disk, mem
<1>2. Running' = Running BY Zenon DEF Running, IInv, TypeOK
<1>3. Counted' /\ WithinOp' /\ Reserved' BY Zenon, <1>2, SameAccounts DEF mem
<1>4. Phase' BY Zenon, <1>2 DEF IInv, Phase, disk, mem
<1>5. Coherent' BY Zenon DEF IInv, Coherent, Referenced, Logged, disk, mem
<1>6. Copied' BY Zenon DEF IInv, Copied, disk, mem
<1>7. SleeperHasWaker'
  <2>1. CASE op' = [op EXCEPT ![p] = "begin"]
    BY Zenon, <2>1 DEF IInv, SleeperHasWaker, TypeOK, mem
  <2>2. CASE ~Admits /\ op' = [op EXCEPT ![p] = "asleep"]
    <3>1. committing \/ outstanding > 0
      <4> SUFFICES ASSUME ~committing, outstanding = 0 PROVE FALSE BY DEF IInv, TypeOK
      <4>1. Running = {} BY Zenon, FS_EmptySet DEF IInv, Counted
      <4>2. lh = << >> BY Zenon, <4>1 DEF IInv, Phase
      <4> QED BY <2>2, <4>2 DEF Admits, LogAssumption
    <3> QED BY Zenon, <2>2, <3>1 DEF SleeperHasWaker, mem
  <2> QED BY Zenon, <2>1, <2>2
<1> QED BY Zenon, <1>1, <1>3, <1>4, <1>5, <1>6, <1>7 DEF IInv

(* The reservations that are left are finitely many.                          *)
LEMMA UnusedFinite ==
  ASSUME LogAssumption, IsFiniteSet(Running)
  PROVE  /\ IsFiniteSet(Unused) /\ Cardinality(Unused) \in Nat
         /\ Cardinality(Unused) <= Cardinality(Running) * MAXOPBLOCKS
<1>1. MAXOPBLOCKS \in Nat \ {0} BY DEF LogAssumption
<1>2. IsFiniteSet(1..MAXOPBLOCKS) /\ Cardinality(1..MAXOPBLOCKS) = MAXOPBLOCKS
  BY <1>1, FS_Interval
<1>3. /\ IsFiniteSet(Running \X (1..MAXOPBLOCKS))
      /\ Cardinality(Running \X (1..MAXOPBLOCKS)) = Cardinality(Running) * MAXOPBLOCKS
  BY Zenon, <1>2, FS_Product
<1>4. Unused \in SUBSET (Running \X (1..MAXOPBLOCKS)) BY Zenon DEF Unused
<1>5. IsFiniteSet(Unused) /\ Cardinality(Unused) <= Cardinality(Running) * MAXOPBLOCKS
  BY Zenon, <1>3, <1>4, FS_Subset
<1> QED BY Zenon, <1>5, FS_CardinalityType

(* The same of the next state.                                                *)
LEMMA UnusedFiniteNext ==
  ASSUME LogAssumption, IsFiniteSet(Running')
  PROVE  /\ IsFiniteSet(Unused') /\ Cardinality(Unused') \in Nat
         /\ Cardinality(Unused') <= Cardinality(Running') * MAXOPBLOCKS
<1>1. MAXOPBLOCKS \in Nat \ {0} BY DEF LogAssumption
<1>2. IsFiniteSet(1..MAXOPBLOCKS) /\ Cardinality(1..MAXOPBLOCKS) = MAXOPBLOCKS
  BY <1>1, FS_Interval
<1>3. /\ IsFiniteSet(Running' \X (1..MAXOPBLOCKS))
      /\ Cardinality(Running' \X (1..MAXOPBLOCKS)) = Cardinality(Running') * MAXOPBLOCKS
  BY Zenon, <1>2, FS_Product
<1>4. Unused' \in SUBSET (Running' \X (1..MAXOPBLOCKS)) BY Zenon DEF Unused
<1>5. IsFiniteSet(Unused') /\ Cardinality(Unused') <= Cardinality(Running') * MAXOPBLOCKS
  BY Zenon, <1>3, <1>4, FS_Subset
<1> QED BY Zenon, <1>5, FS_CardinalityType

(* begin_op lets an operation in: the log has room for all that run now.      *)
LEMMA AdmitStep ==
  ASSUME LogAssumption, IInv, NEW p \in Procs, mode = "up", op[p] = "begin", Admits,
         outstanding' = outstanding + 1, op' = [op EXCEPT ![p] = "run"],
         UNCHANGED <<disk, mode, cache, pinned, lh, committing, held, wrote, step, tail>>
  PROVE  IInv'
<1>1. TypeOK' BY DEF IInv, TypeOK, disk
<1>2. Running' = Running \cup {p} /\ p \notin Running BY Zenon DEF Running, IInv, TypeOK
<1>3. IsFiniteSet(Running') /\ Cardinality(Running') = outstanding'
  BY Zenon, <1>2, FS_AddElement DEF IInv, Counted
<1>4. Counted' BY Zenon, <1>3 DEF IInv, Counted, TypeOK
<1>5. WithinOp' BY Zenon DEF IInv, WithinOp, Logged
<1>6. Reserved'
  <2>1. Cardinality(Unused') \in Nat /\ Cardinality(Unused') <= (outstanding + 1) * MAXOPBLOCKS
    BY Zenon, <1>3, UnusedFiniteNext
  <2>2. /\ Len(lh) \in Nat /\ (outstanding + 1) * MAXOPBLOCKS \in Nat
        /\ Len(lh) + (outstanding + 1) * MAXOPBLOCKS <= LOGSIZE /\ LOGSIZE \in Nat
    BY DEF IInv, TypeOK, Admits, LogAssumption
  <2>3. Len(lh') = Len(lh) BY Zenon
  <2> QED BY <2>1, <2>2, <2>3 DEF Reserved
<1>7. Phase' BY Zenon, <1>2 DEF IInv, Phase, disk, Admits
<1>8. Coherent' BY Zenon DEF IInv, Coherent, Referenced, Logged, disk
<1>9. Copied' BY Zenon DEF IInv, Copied, disk
<1>10. SleeperHasWaker' BY DEF IInv, TypeOK, SleeperHasWaker
<1> QED BY <1>1, <1>4, <1>5, <1>6, <1>7, <1>8, <1>9, <1>10 DEF IInv

(* Where an operation runs, no commit does.                                   *)
LEMMA RunningAlone ==
  ASSUME IInv, mode = "up", NEW p \in Procs, op[p] = "run"
  PROVE  p \in Running /\ ~committing /\ step = "none" /\ hdr = << >>
BY Zenon DEF IInv, Running, Phase

(* An operation modifies a buffer that nobody else holds.                     *)
LEMMA ModifyStep ==
  ASSUME LogAssumption, ValueAssumption, IInv,
         NEW p \in Procs, NEW b \in Blocks, NEW v \in Vals, Modify(p, b, v)
  PROVE  IInv'
<1>1. p \in Running /\ ~committing /\ step = "none" /\ hdr = << >>
  BY Zenon, RunningAlone DEF Modify
<1>2. TypeOK' BY Zenon DEF Modify, IInv, TypeOK, disk
<1>3. Running' = Running BY Zenon DEF Modify, Running
<1>4. CASE mode' = "panic" /\ held' = held
  <2>1. Counted' /\ WithinOp' /\ Reserved' BY Zenon, <1>3, <1>4, SameAccounts DEF Modify
  <2>2. Phase' BY Zenon, <1>1, <1>4 DEF Modify, IInv, Phase, disk
  <2> QED BY Zenon, <1>2, <1>4, <2>1, <2>2 DEF IInv, Coherent, Copied, SleeperHasWaker
<1>5. CASE mode' = mode /\ held' = [held EXCEPT ![p] = b]
  <2>1. held'[p] = b /\ \A q \in Procs : q # p => held'[q] = held[q] BY Zenon, <1>5 DEF IInv, TypeOK
  <2>2. Counted' BY Zenon, <1>3, <2>1 DEF Modify, IInv, Counted
  <2>3. WithinOp' BY Zenon, <2>1 DEF Modify, IInv, WithinOp, Logged
  <2>4. Reserved'
    <3>1. Unused' = Unused BY Zenon, <1>3 DEF Unused, Modify
    <3> QED BY Zenon, <3>1 DEF IInv, Reserved, Modify
  <2>5. Phase' BY Zenon, <1>1, <1>3, <1>5 DEF Modify, IInv, Phase, disk
  <2>6. \A c \in Blocks : Referenced(c)' <=> Referenced(c) \/ c = b
    BY Zenon, <2>1 DEF Referenced, Modify, ValueAssumption
  <2>7. cache'[b] = v /\ \A c \in Blocks : c # b => cache'[c] = cache[c]
    BY Zenon DEF Modify, IInv, TypeOK
  <2>8. v # Absent BY Zenon DEF ValueAssumption
  <2>9. Coherent' BY Zenon, <1>5, <2>6, <2>7, <2>8 DEF Modify, IInv, Coherent, Logged, disk
  <2>10. Copied' BY Zenon, <1>1 DEF Modify, Copied
  <2>11. SleeperHasWaker' BY Zenon, <1>5 DEF Modify, IInv, SleeperHasWaker
  <2> QED BY <1>2, <2>2, <2>3, <2>4, <2>5, <2>9, <2>10, <2>11 DEF IInv
<1> QED BY Zenon, <1>4, <1>5 DEF Modify

(* log_write's list grows by a block it does not have, or stays.              *)
LEMMA AbsorbOrAppend ==
  ASSUME IInv, NEW b \in Blocks, lh' = IF Logged(b) THEN lh ELSE Append(lh, b)
  PROVE  /\ lh' \in Seq(Blocks) /\ Distinct(lh')
         /\ Len(lh') = IF Logged(b) THEN Len(lh) ELSE Len(lh) + 1
         /\ \A c \in Blocks : Logged(c)' <=> Logged(c) \/ c = b
<1>1. lh \in Seq(Blocks) /\ Len(lh) \in Nat /\ Distinct(lh) BY DEF IInv, TypeOK, Phase
<1>2. CASE Logged(b) BY Zenon, <1>1, <1>2 DEF Logged
<1>3. CASE ~Logged(b)
  <2>1. /\ lh' \in Seq(Blocks) /\ Len(lh') = Len(lh) + 1 /\ lh'[Len(lh) + 1] = b
        /\ \A i \in 1..Len(lh) : lh'[i] = lh[i]
    BY <1>1, <1>3, AppendFacts
  <2>2. \A i \in 1..Len(lh') : i \in 1..Len(lh) \/ i = Len(lh) + 1 BY <1>1, <2>1
  <2>3. Distinct(lh') BY <1>1, <1>3, <2>1, <2>2 DEF Distinct, Logged
  <2>4. \A c \in Blocks : Logged(c)' <=> Logged(c) \/ c = b
    <3>1. 1..Len(lh) \subseteq 1..Len(lh') /\ Len(lh) + 1 \in 1..Len(lh') BY <1>1, <2>1
    <3> QED BY Zenon, <2>1, <2>2, <3>1 DEF Logged
  <2> QED BY Zenon, <1>3, <2>1, <2>3, <2>4
<1> QED BY Zenon, <1>2, <1>3

(* log_write spends a reservation for every entry it adds.                    *)
LEMMA SpendReservation ==
  ASSUME LogAssumption, IInv, NEW p \in Procs, op[p] = "run", NEW b \in Blocks,
         Cardinality(wrote[p] \cup {b}) <= OpBlocks,
         wrote' = [wrote EXCEPT ![p] = @ \cup {b}], op' = op,
         Len(lh') = IF Logged(b) THEN Len(lh) ELSE Len(lh) + 1
  PROVE  Reserved' /\ Len(lh') <= LOGSIZE
<1> DEFINE c == Cardinality(wrote[p])
           c1 == Cardinality(wrote'[p])
<1>1. /\ IsFiniteSet(Running) /\ p \in Running /\ Running' = Running
      /\ LOGSIZE \in Nat /\ MAXOPBLOCKS \in Nat /\ OpBlocks \in Nat /\ OpBlocks <= MAXOPBLOCKS
      /\ Len(lh) \in Nat
  BY DEF IInv, Counted, Running, LogAssumption, TypeOK
<1>2. IsFiniteSet(Unused) /\ Cardinality(Unused) \in Nat BY Zenon, <1>1, UnusedFinite
<1>3. IsFiniteSet(Unused') /\ Cardinality(Unused') \in Nat BY Zenon, <1>1, UnusedFiniteNext
<1>4. IsFiniteSet(wrote[p]) /\ c \in Nat BY Zenon, FS_CardinalityType DEF IInv, WithinOp
<1>5. wrote'[p] = wrote[p] \cup {b} /\ \A q \in Procs : q # p => wrote'[q] = wrote[q]
  BY Zenon DEF IInv, TypeOK
<1>6. c1 = (IF b \in wrote[p] THEN c ELSE c + 1) /\ c1 <= MAXOPBLOCKS
  <2>1. c1 = IF b \in wrote[p] THEN c ELSE c + 1 BY Zenon, <1>4, <1>5, FS_AddElement
  <2>2. c1 <= OpBlocks BY Zenon, <1>5
  <2> HIDE DEF c, c1
  <2>3. c1 \in Nat BY <1>4, <2>1
  <2> QED BY <1>1, <2>1, <2>2, <2>3
<1>7. Len(lh) + Cardinality(Unused) <= LOGSIZE BY Zenon DEF IInv, Reserved
<1>8. Running \subseteq Procs BY Zenon DEF Running
<1>9. Unused' \in SUBSET Unused
  <2> SUFFICES ASSUME NEW r \in Unused' PROVE r \in Unused BY Zenon
  <2>1. /\ r \in Running \X (1..MAXOPBLOCKS) /\ r[1] \in Procs /\ r[2] \in Nat
        /\ r[2] > Cardinality(wrote'[r[1]])
    BY <1>1, <1>8 DEF Unused
  <2>2. CASE r[1] = p
    <3>1. r[2] > c1 BY Zenon, <2>1, <2>2
    <3> HIDE DEF c1, c
    <3>2. r[2] > c BY <2>1, <3>1, <1>4, <1>6
    <3> QED BY <2>1, <2>2, <3>2 DEF Unused, c
  <2>3. CASE r[1] # p BY Zenon, <2>1, <2>3, <1>5 DEF Unused
  <2> QED BY Zenon, <2>2, <2>3
<1>10. CASE Logged(b)
  <2>1. Cardinality(Unused') <= Cardinality(Unused) BY Zenon, <1>2, <1>9, FS_Subset
  <2>2. Len(lh') = Len(lh) BY Zenon, <1>10
  <2> QED BY <1>1, <1>2, <1>3, <1>7, <2>1, <2>2 DEF Reserved
<1>11. CASE ~Logged(b)
  <2> DEFINE r == <<p, c + 1>>
  <2>1. b \notin wrote[p] BY Zenon, <1>11 DEF IInv, WithinOp
  <2>2. c1 = c + 1 BY Zenon, <1>6, <2>1
  <2>3. r \in Unused /\ r \notin Unused'
    <3>1. c + 1 \in 1..MAXOPBLOCKS /\ c + 1 > c BY <1>1, <1>4, <1>6, <2>2
    <3>2. r[1] = p /\ r[2] = c + 1 BY Zenon
    <3>3. r \in Unused BY Zenon, <1>1, <3>1 DEF Unused
    <3>4. ~(c + 1 > c1) BY <1>4, <2>2
    <3>5. r \notin Unused' BY Zenon, <3>4 DEF Unused
    <3> QED BY <3>3, <3>5
  <2> HIDE DEF r
  <2>4. IsFiniteSet(Unused \ {r}) /\ Cardinality(Unused \ {r}) = Cardinality(Unused) - 1
    BY Zenon, <1>2, <2>3, FS_RemoveElement
  <2>5. Unused' \in SUBSET (Unused \ {r}) BY Zenon, <1>9, <2>3
  <2>6. Cardinality(Unused') <= Cardinality(Unused) - 1 BY <2>4, <2>5, FS_Subset
  <2>7. Len(lh') = Len(lh) + 1 BY Zenon, <1>11
  <2> QED BY <1>1, <1>2, <1>3, <1>7, <2>6, <2>7 DEF Reserved
<1> QED BY Zenon, <1>10, <1>11

(* log_write: the buffer passes from the hands of its operation to the log.   *)
LEMMA LogWriteStep ==
  ASSUME LogAssumption, ValueAssumption, IInv, NEW p \in Procs, LogWrite(p)
  PROVE  IInv'
<1> DEFINE b == held[p]
<1>1. b \in Blocks /\ op[p] = "run" BY Zenon DEF LogWrite, IInv, TypeOK, Counted
<1>2. p \in Running /\ ~committing /\ step = "none" /\ hdr = << >>
  BY Zenon, <1>1, RunningAlone DEF LogWrite
<1>3. /\ lh' \in Seq(Blocks) /\ Distinct(lh')
      /\ Len(lh') = IF Logged(b) THEN Len(lh) ELSE Len(lh) + 1
      /\ \A c \in Blocks : Logged(c)' <=> Logged(c) \/ c = b
  BY Zenon, <1>1, AbsorbOrAppend DEF LogWrite
<1>4. Running' = Running BY Zenon DEF LogWrite, Running
<1>5. Reserved' /\ Len(lh') <= LOGSIZE
  <2>1. Cardinality(wrote[p] \cup {b}) <= OpBlocks BY Zenon DEF LogWrite, IInv, WithinOp
  <2> QED BY Zenon, <1>1, <1>3, <2>1, SpendReservation DEF LogWrite
<1>6. held'[p] = NoBlock /\ \A q \in Procs : q # p => held'[q] = held[q]
  BY Zenon DEF LogWrite, IInv, TypeOK
<1>7. wrote'[p] = wrote[p] \cup {b} /\ \A q \in Procs : q # p => wrote'[q] = wrote[q]
  BY Zenon DEF LogWrite, IInv, TypeOK
<1>8. pinned'[b] = TRUE /\ \A c \in Blocks : c # b => pinned'[c] = pinned[c]
  BY Zenon, <1>1 DEF LogWrite, Pin, IInv, TypeOK
<1>9. TypeOK' BY Zenon, <1>1, <1>3, <1>5 DEF LogWrite, Pin, IInv, TypeOK, disk
<1>10. Counted' BY Zenon, <1>1, <1>4, <1>6, <1>7 DEF LogWrite, IInv, Counted
<1>11. WithinOp'
  <2>1. \A q \in Procs : wrote[q] \subseteq Blocks BY Zenon DEF IInv, TypeOK
  <2>2. IsFiniteSet(wrote'[p]) /\ Cardinality(wrote'[p]) <= OpBlocks
    <3>1. IsFiniteSet(wrote[p]) BY Zenon DEF IInv, WithinOp
    <3>2. IsFiniteSet(wrote[p] \cup {b}) BY Zenon, <3>1, FS_AddElement
    <3>3. Cardinality(wrote[p] \cup {b}) <= OpBlocks BY DEF LogWrite, IInv, WithinOp
    <3> QED BY Zenon, <1>7, <3>2, <3>3
  <2> QED BY Zenon, <1>1, <1>3, <1>6, <1>7, <2>1, <2>2 DEF LogWrite, IInv, WithinOp
<1>12. Phase' BY Zenon, <1>2, <1>3, <1>4 DEF LogWrite, IInv, Phase, disk
<1>13. Coherent'
  <2>1. \A c \in Blocks : Referenced(c)' => Referenced(c) BY Zenon, <1>6 DEF Referenced, ValueAssumption
  <2>2. \A c \in Blocks : c # b /\ Referenced(c) => Referenced(c)' BY Zenon, <1>6 DEF Referenced
  <2>3. Referenced(b) BY Zenon DEF Referenced
  <2> QED BY <1>3, <1>8, <2>1, <2>2, <2>3 DEF LogWrite, IInv, Coherent, disk
<1>14. Copied' BY Zenon, <1>2 DEF LogWrite, Copied
<1>15. SleeperHasWaker' BY Zenon DEF LogWrite, IInv, SleeperHasWaker
<1> QED BY Zenon, <1>5, <1>9, <1>10, <1>11, <1>12, <1>13, <1>14, <1>15 DEF IInv

(* end_op: one fewer, and the last one out starts the commit.                 *)
LEMMA EndOpStep ==
  ASSUME LogAssumption, IInv, NEW p \in Procs, EndOp(p)
  PROVE  IInv'
<1>1. p \in Running /\ ~committing /\ step = "none" /\ hdr = << >>
  BY Zenon, RunningAlone DEF EndOp
<1>2. /\ IsFiniteSet(Running) /\ Cardinality(Running) = outstanding /\ outstanding \in Nat
  BY Zenon DEF IInv, Counted, TypeOK
<1>3. outstanding # 0 BY Zenon, <1>1, <1>2, FS_EmptySet
<1>4. outstanding' = outstanding - 1 /\ outstanding' \in Nat
  BY <1>2, <1>3 DEF EndOp, StillOutstanding
<1>5. /\ UNCHANGED <<disk, mode, cache, pinned, lh, held>> /\ wrote' = [wrote EXCEPT ![p] = {}]
      /\ IF outstanding' = 0
         THEN /\ committing' = TRUE /\ op' = [op EXCEPT ![p] = "commit"]
              /\ step' = (IF lh = << >> THEN "finish" ELSE "log") /\ tail' = 1
         ELSE op' = Woken(p, "idle") /\ UNCHANGED <<committing, step, tail>>
  BY Zenon, <1>1 DEF EndOp
<1>6. op'[p] # "run" /\ \A q \in Procs : q # p => (op'[q] = "run" <=> op[q] = "run")
  BY Zenon, <1>5 DEF IInv, TypeOK, Woken
<1>7. Running' = Running \ {p} BY Zenon, <1>6 DEF Running
<1>8. IsFiniteSet(Running') /\ Cardinality(Running') = outstanding'
  BY Zenon, <1>1, <1>2, <1>4, <1>7, FS_RemoveElement
<1>9. wrote'[p] = {} /\ \A q \in Procs : q # p => wrote'[q] = wrote[q]
  BY Zenon, <1>5 DEF IInv, TypeOK
<1>10. Counted' BY Zenon, <1>5, <1>6, <1>8, <1>9 DEF EndOp, IInv, Counted
<1>11. WithinOp'
  <2>1. IsFiniteSet({}) /\ Cardinality({}) <= OpBlocks BY FS_EmptySet DEF LogAssumption
  <2> QED BY Zenon, <1>5, <1>9, <2>1 DEF EndOp, IInv, WithinOp, Logged, ValueAssumption
<1>12. Reserved'
  <2>1. Unused' \in SUBSET Unused BY Zenon, <1>7, <1>9 DEF Unused, Running
  <2>2. IsFiniteSet(Unused) /\ Cardinality(Unused) \in Nat BY Zenon, <1>2, UnusedFinite
  <2>3. Cardinality(Unused') <= Cardinality(Unused) /\ IsFiniteSet(Unused')
    BY Zenon, <2>1, <2>2, FS_Subset
  <2>4. Cardinality(Unused') \in Nat BY Zenon, <2>3, FS_CardinalityType
  <2>5. Len(lh') = Len(lh) /\ Len(lh) \in Nat BY <1>5 DEF IInv, TypeOK
  <2> QED BY <2>2, <2>3, <2>4, <2>5 DEF IInv, Reserved, LogAssumption
<1>13. outstanding' = 0 <=> Running' = {} BY Zenon, <1>8, FS_EmptySet
<1>14. TypeOK'
  <2>1. op' \in [Procs -> {"idle", "begin", "asleep", "run", "commit"}]
    <3>1. CASE outstanding' = 0 BY Zenon, <1>5, <3>1 DEF IInv, TypeOK
    <3>2. CASE outstanding' # 0
      <4>1. op' = Woken(p, "idle") BY Zenon, <1>5, <3>2
      <4> QED BY Zenon, <4>1 DEF IInv, TypeOK, Woken
    <3> QED BY Zenon, <3>1, <3>2
  <2>2. wrote' \in [Procs -> SUBSET Blocks] BY Zenon, <1>5 DEF IInv, TypeOK
  <2>3. 1 \in 1..LOGSIZE + 1 BY DEF LogAssumption
  <2> QED BY Zenon, <1>4, <1>5, <2>1, <2>2, <2>3 DEF IInv, TypeOK, disk
<1>15. mode = "up" /\ mode' = "up" BY Zenon, <1>5 DEF EndOp
<1>16. Phase'
  BY Zenon, <1>1, <1>5, <1>13, <1>15 DEF IInv, Phase, disk
<1>17. Coherent' BY Zenon, <1>1, <1>5 DEF IInv, Coherent, Referenced, Logged, disk
<1>18. Copied'
  <2>1. \A i \in 1..Len(lh') : ~(i < 1) OBVIOUS
  <2> QED BY Zenon, <1>1, <1>5, <2>1 DEF Copied
<1>19. SleeperHasWaker'
  <2>1. CASE outstanding' = 0 BY Zenon, <1>5, <2>1 DEF SleeperHasWaker
  <2>2. CASE outstanding' # 0 BY Zenon, <1>5, <2>2 DEF SleeperHasWaker, Woken
  <2> QED BY Zenon, <2>1, <2>2
<1> QED BY <1>10, <1>11, <1>12, <1>14, <1>16, <1>17, <1>18, <1>19 DEF IInv

(* With no operation running, nobody holds a buffer or a reservation.         *)
LEMMA NobodyRuns ==
  ASSUME ValueAssumption, IInv, Running = {}
  PROVE  /\ \A q \in Procs : held[q] = NoBlock /\ wrote[q] = {}
         /\ \A c \in Blocks : ~Referenced(c)
<1>1. \A q \in Procs : op[q] # "run" BY Zenon DEF Running
<1>2. \A q \in Procs : held[q] = NoBlock /\ wrote[q] = {} BY Zenon, <1>1 DEF IInv, Counted
<1> QED BY Zenon, <1>2 DEF Referenced, ValueAssumption

(* The accounts with no operation running, whatever happens to the list.      *)
LEMMA NoAccounts ==
  ASSUME LogAssumption, ValueAssumption, Running' = {}, Len(lh') <= LOGSIZE, Len(lh') \in Nat,
         outstanding' = 0, \A q \in Procs : held'[q] = NoBlock /\ wrote'[q] = {}
  PROVE  Counted' /\ WithinOp' /\ Reserved'
<1>1. Counted' BY Zenon, FS_EmptySet DEF Counted
<1>2. WithinOp'
  <2>1. IsFiniteSet({}) /\ Cardinality({}) <= OpBlocks BY FS_EmptySet DEF LogAssumption
  <2> QED BY Zenon, <2>1 DEF WithinOp
<1>3. Reserved'
  <2>1. Unused' = {} BY Zenon DEF Unused
  <2>2. Cardinality({}) = 0 BY Zenon, FS_EmptySet
  <2> QED BY <2>1, <2>2 DEF Reserved, LogAssumption
<1> QED BY Zenon, <1>1, <1>2, <1>3

(* write_log copies a pinned buffer to its slot.                              *)
LEMMA WriteLogStep ==
  ASSUME LogAssumption, ValueAssumption, IInv, WriteLog
  PROVE  IInv'
<1> DEFINE b == lh[tail]
<1>1. /\ tail \in 1..Len(lh) /\ Len(lh) \in Nat /\ Len(lh) <= LOGSIZE /\ LOGSIZE \in Nat
      /\ b \in Blocks
  BY DEF WriteLog, IInv, TypeOK, LogAssumption
<1>2. pinned[b] /\ cache[b] # Absent
  BY Zenon, <1>1 DEF WriteLog, IInv, Coherent, Logged
<1>3. Content(b) = cache[b] BY Zenon, <1>2 DEF Content
<1>4. cache' = cache BY Zenon, <1>1, <1>3 DEF WriteLog, IInv, TypeOK
<1>5. ldata' = [ldata EXCEPT ![tail] = cache[b]] BY Zenon, <1>3 DEF WriteLog
<1>6. cache[b] \in Vals BY Zenon, <1>1, <1>2 DEF IInv, TypeOK
<1>7. tail' \in 1..LOGSIZE + 1 BY <1>1 DEF WriteLog
<1>8. TypeOK' BY Zenon, <1>4, <1>5, <1>6, <1>7 DEF WriteLog, IInv, TypeOK, procs
<1>9. Running' = Running BY Zenon DEF WriteLog, Running, procs
<1>10. Counted' /\ WithinOp' /\ Reserved' BY Zenon, <1>9, SameAccounts DEF WriteLog, procs
<1>11. Phase' BY Zenon, <1>9 DEF WriteLog, IInv, Phase, procs
<1>12. Coherent' BY Zenon, <1>4 DEF WriteLog, IInv, Coherent, Referenced, Logged, procs
<1>13. Copied'
  <2>1. tail \in LogSlots /\ \A i \in 1..Len(lh) : i \in LogSlots BY <1>1 DEF LogSlots
  <2>2. ldata'[tail] = cache[b] /\ \A i \in LogSlots : i # tail => ldata'[i] = ldata[i]
    BY Zenon, <1>5, <2>1 DEF IInv, TypeOK
  <2>3. \A i \in 1..Len(lh) : i < tail + 1 => i < tail \/ i = tail BY <1>1
  <2>4. step = "log" /\ step' = "log" /\ lh' = lh /\ tail' = tail + 1 /\ mode = "up"
    BY Zenon DEF WriteLog
  <2> QED BY <1>4, <2>1, <2>2, <2>3, <2>4 DEF IInv, Copied
<1>14. SleeperHasWaker' BY DEF WriteLog, IInv, SleeperHasWaker, procs
<1> QED BY Zenon, <1>8, <1>10, <1>11, <1>12, <1>13, <1>14 DEF IInv

(* write_head: from here on the log holds the new contents.                   *)
LEMMA WriteHeadStep ==
  ASSUME LogAssumption, ValueAssumption, IInv, WriteHead
  PROVE  IInv'
<1>1. /\ mode = "up" /\ step = "log" /\ tail > Len(lh) /\ hdr' = lh /\ step' = "install"
      /\ tail' = 1 /\ UNCHANGED <<home, ldata, mode, mem, procs>>
  BY Zenon DEF WriteHead, LogWritten
<1>2. TypeOK'
  <2>1. 1 \in 1..LOGSIZE + 1 BY DEF LogAssumption
  <2> QED BY Zenon, <1>1, <2>1 DEF IInv, TypeOK, mem, procs
<1>3. Running' = Running BY Zenon, <1>1 DEF Running, procs
<1>4. Counted' /\ WithinOp' /\ Reserved' BY Zenon, <1>1, <1>3, SameAccounts DEF mem, procs
<1>5. Phase' BY Zenon, <1>1, <1>3 DEF IInv, Phase, mem, procs
<1>6. Coherent' BY Zenon, <1>1 DEF IInv, Coherent, Referenced, Logged, mem, procs
<1>7. Copied'
  <2>1. \A i \in 1..Len(lh) : i < tail /\ ~(i < 1) BY <1>1 DEF IInv, TypeOK, LogAssumption
  <2>2. \A i \in 1..Len(lh) : ldata[i] = cache[lh[i]] BY Zenon, <1>1, <2>1 DEF IInv, Copied
  <2>3. \A i \in 1..Len(lh) : lh[i] \in Blocks /\ Logged(lh[i]) BY DEF IInv, TypeOK, Logged
  <2>4. \A i \in 1..Len(lh) : pinned[lh[i]] BY Zenon, <1>1, <2>3 DEF IInv, Coherent
  <2> QED BY Zenon, <1>1, <2>1, <2>2, <2>4 DEF Copied, mem
<1>8. SleeperHasWaker' BY Zenon, <1>1 DEF IInv, SleeperHasWaker, mem, procs
<1> QED BY <1>2, <1>4, <1>5, <1>6, <1>7, <1>8 DEF IInv

(* install_trans copies a slot home; the list names a block once.             *)
LEMMA InstallStep ==
  ASSUME LogAssumption, ValueAssumption, IInv, InstallTrans
  PROVE  IInv'
<1> DEFINE b == lh[tail]
<1>1. /\ tail \in 1..Len(lh) /\ Len(lh) \in Nat /\ Len(lh) <= LOGSIZE /\ LOGSIZE \in Nat
      /\ b \in Blocks /\ tail \in LogSlots
  BY DEF InstallTrans, IInv, TypeOK, LogAssumption, LogSlots
<1>2. ldata[tail] \in Vals BY Zenon, <1>1 DEF IInv, TypeOK
<1>3. /\ home'[b] = ldata[tail] /\ cache'[b] = ldata[tail] /\ pinned'[b] = FALSE
      /\ \A c \in Blocks : c # b => home'[c] = home[c] /\ cache'[c] = cache[c]
                                   /\ pinned'[c] = pinned[c]
  BY Zenon, <1>1 DEF InstallTrans, IInv, TypeOK
<1>4. tail' \in 1..LOGSIZE + 1 BY <1>1 DEF InstallTrans
<1>5. TypeOK' BY Zenon, <1>2, <1>4 DEF InstallTrans, IInv, TypeOK, procs
<1>6. Running = {} /\ mode \in {"up", "recover"} BY Zenon DEF InstallTrans, IInv, TypeOK, Phase
<1>7. Running' = Running BY Zenon DEF InstallTrans, Running, procs
<1>8. Counted' /\ WithinOp' /\ Reserved' BY Zenon, <1>7, SameAccounts DEF InstallTrans, procs
<1>9. Phase' BY Zenon, <1>7 DEF InstallTrans, IInv, Phase, procs
<1>10. \A c \in Blocks : ~Referenced(c) BY Zenon, <1>6, NobodyRuns
<1>11. \A c \in Blocks : ~Referenced(c)' BY Zenon, <1>10 DEF InstallTrans, Referenced, procs
<1>12. Coherent'
  BY <1>1, <1>3, <1>10, <1>11 DEF InstallTrans, IInv, Coherent, Logged
<1>13. Copied'
  <2>1. \A i \in 1..Len(lh) : lh[i] \in Blocks /\ (i # tail => lh[i] # b)
    BY <1>1 DEF IInv, TypeOK, Phase, Distinct
  <2>2. /\ step = "install" /\ step' = "install" /\ lh' = lh /\ tail' = tail + 1
        /\ ldata' = ldata /\ mode' = mode
    BY Zenon DEF InstallTrans
  <2>3. \A i \in 1..Len(lh) : /\ (i < tail + 1 => i < tail \/ i = tail)
                             /\ (i >= tail + 1 => i >= tail /\ i # tail)
    BY <1>1
  <2> QED BY <1>3, <1>6, <2>1, <2>2, <2>3 DEF IInv, Copied
<1>14. SleeperHasWaker' BY Zenon DEF InstallTrans, IInv, SleeperHasWaker, procs
<1> QED BY <1>5, <1>8, <1>9, <1>12, <1>13, <1>14 DEF IInv

(* The header is cleared when every block is home.                            *)
LEMMA ClearHeadStep ==
  ASSUME LogAssumption, ValueAssumption, IInv, ClearHead
  PROVE  IInv'
<1>1. /\ mode \in {"up", "recover"} /\ step = "install" /\ tail > Len(lh)
      /\ lh' = << >> /\ hdr' = << >> /\ tail' = 1 /\ mode' = "up"
      /\ step' = (IF mode = "recover" THEN "none" ELSE "finish")
      /\ UNCHANGED <<home, ldata, cache, pinned, outstanding, committing, procs>>
  BY Zenon DEF ClearHead, Installed, IInv, TypeOK
<1>2. Running = {} /\ (mode = "recover" <=> ~committing) BY Zenon, <1>1 DEF IInv, Phase
<1>3. Running' = {} BY Zenon, <1>1, <1>2 DEF Running, procs
<1>4. TypeOK'
  <2>1. 1 \in 1..LOGSIZE + 1 /\ 0 <= LOGSIZE BY DEF LogAssumption
  <2>2. << >> \in Seq(Blocks) /\ Len(<< >>) = 0 OBVIOUS
  <2> QED BY Zenon, <1>1, <2>1, <2>2 DEF IInv, TypeOK, procs
<1>5. Counted' /\ WithinOp' /\ Reserved'
  <2>1. \A q \in Procs : held[q] = NoBlock /\ wrote[q] = {} BY Zenon, <1>2, NobodyRuns
  <2>2. outstanding = 0 BY Zenon, <1>2, FS_EmptySet DEF IInv, Counted
  <2>3. Len(lh') = 0 /\ 0 <= LOGSIZE BY <1>1 DEF LogAssumption
  <2> QED BY <1>1, <1>3, <2>1, <2>2, <2>3, NoAccounts DEF procs
<1>6. Phase' BY <1>1, <1>2, <1>3 DEF Phase, Distinct
<1>7. \A c \in Blocks : ~pinned[c]
  <2>1. \A i \in 1..Len(lh) : i < tail BY <1>1 DEF IInv, TypeOK, LogAssumption
  <2> QED BY <1>1, <2>1 DEF IInv, Coherent, Copied, Logged
<1>8. Coherent'
  <2>1. \A c \in Blocks : ~Referenced(c) BY Zenon, <1>2, NobodyRuns
  <2> QED BY <1>1, <1>7, <2>1 DEF IInv, Coherent, Logged, Referenced, procs
<1>9. Copied' BY Zenon, <1>1 DEF Copied
<1>10. SleeperHasWaker' BY Zenon, <1>1, <1>2 DEF IInv, SleeperHasWaker, Phase, procs
<1> QED BY <1>4, <1>5, <1>6, <1>8, <1>9, <1>10 DEF IInv

(* The commit is over and every sleeper in begin_op is woken.                 *)
LEMMA FinishStep ==
  ASSUME LogAssumption, ValueAssumption, IInv, NEW p \in Procs, FinishCommit(p)
  PROVE  IInv'
<1>1. /\ mode = "up" /\ step = "finish" /\ op[p] = "commit" /\ committing' = FALSE
      /\ step' = "none" /\ op' = Woken(p, "idle")
      /\ UNCHANGED <<disk, mode, cache, pinned, lh, outstanding, held, wrote, tail>>
  BY Zenon DEF FinishCommit
<1>2. TypeOK' BY Zenon, <1>1 DEF IInv, TypeOK, Woken, disk
<1>3. Running' = Running BY Zenon, <1>1 DEF Running, Woken
<1>4. Counted' /\ WithinOp' /\ Reserved' BY Zenon, <1>1, <1>3, SameAccounts
<1>5. lh = << >> /\ hdr = << >> BY Zenon, <1>1 DEF IInv, Phase
<1>6. Phase' BY Zenon, <1>1, <1>3, <1>5 DEF IInv, Phase, disk
<1>7. Coherent' BY <1>1, <1>5 DEF IInv, Coherent, Referenced, Logged, disk
<1>8. Copied' BY Zenon, <1>1 DEF Copied
<1>9. SleeperHasWaker' BY Zenon, <1>1 DEF SleeperHasWaker, Woken
<1> QED BY Zenon, <1>2, <1>4, <1>6, <1>7, <1>8, <1>9 DEF IInv

(* Recovery reads the header.                                                 *)
LEMMA ReadHeadStep ==
  ASSUME LogAssumption, ValueAssumption, IInv, ReadHead
  PROVE  IInv'
<1>1. /\ mode = "recover" /\ step = "readhead" /\ lh' = hdr /\ step' = "install" /\ tail' = 1
      /\ UNCHANGED <<disk, mode, cache, pinned, outstanding, committing, procs>>
  BY Zenon DEF ReadHead
<1>2. TypeOK'
  <2>1. 1 \in 1..LOGSIZE + 1 BY DEF LogAssumption
  <2> QED BY <1>1, <2>1 DEF IInv, TypeOK, disk, procs
<1>3. Running = {} /\ Running' = {} BY Zenon, <1>1 DEF IInv, Phase, Running, procs
<1>4. Counted' /\ WithinOp' /\ Reserved'
  <2>1. \A q \in Procs : held[q] = NoBlock /\ wrote[q] = {} BY Zenon, <1>3, NobodyRuns
  <2>2. outstanding = 0 BY Zenon, <1>3, FS_EmptySet DEF IInv, Counted
  <2>3. Len(lh') <= LOGSIZE /\ Len(lh') \in Nat BY <1>1 DEF IInv, TypeOK
  <2> QED BY <1>1, <1>3, <2>1, <2>2, <2>3, NoAccounts DEF procs
<1>5. Phase' BY Zenon, <1>1, <1>3 DEF IInv, Phase, disk, procs
<1>6. Coherent' BY Zenon, <1>1 DEF IInv, Coherent, Referenced, disk, procs
<1>7. Copied'
  <2>1. \A i \in 1..Len(lh') : ~(i < 1) OBVIOUS
  <2>2. \A i \in 1..Len(hdr) : hdr[i] \in Blocks BY DEF IInv, TypeOK
  <2> QED BY Zenon, <1>1, <2>1, <2>2 DEF Copied
<1>8. SleeperHasWaker' BY Zenon, <1>1 DEF SleeperHasWaker
<1> QED BY <1>2, <1>4, <1>5, <1>6, <1>7, <1>8 DEF IInv

(* A crash, anywhere.                                                         *)
LEMMA CrashStep ==
  ASSUME LogAssumption, ValueAssumption, IInv, Crash
  PROVE  IInv'
<1>1. TypeOK'
  <2>1. 1 \in 1..LOGSIZE + 1 /\ 0 <= LOGSIZE BY DEF LogAssumption
  <2>2. << >> \in Seq(Blocks) /\ Len(<< >>) = 0 OBVIOUS
  <2> QED BY Zenon, <2>1, <2>2 DEF Crash, IInv, TypeOK, disk
<1>2. Running' = {} BY Zenon DEF Crash, Running
<1>3. Counted' /\ WithinOp' /\ Reserved'
  <2>1. Len(lh') = 0 /\ 0 <= LOGSIZE BY DEF Crash, LogAssumption
  <2> QED BY Zenon, <1>2, <2>1, NoAccounts DEF Crash
<1>4. Phase' BY <1>2 DEF Crash, IInv, Phase, Distinct, disk
<1>5. Coherent' BY Zenon DEF Crash, Coherent, Referenced, ValueAssumption
<1>6. Copied' BY Zenon DEF Crash, Copied
<1>7. SleeperHasWaker' BY Zenon DEF Crash, SleeperHasWaker
<1> QED BY <1>1, <1>3, <1>4, <1>5, <1>6, <1>7 DEF IInv

(* Every step keeps the invariant.                                            *)
LEMMA NextIInv ==
  ASSUME LogAssumption, ValueAssumption, IInv, [Next]_vars
  PROVE  IInv'
<1>1. ASSUME NEW p \in Procs, StartOp(p) PROVE IInv' BY Zenon, <1>1, WaitStep DEF StartOp
<1>2. ASSUME NEW p \in Procs, BeginOp(p) PROVE IInv'
  <2>1. CASE Admits BY Zenon, <1>2, <2>1, AdmitStep DEF BeginOp
  <2>2. CASE ~Admits BY Zenon, <1>2, <2>2, WaitStep DEF BeginOp, mem
  <2> QED BY Zenon, <2>1, <2>2
<1>3. CASE UNCHANGED vars
  <2>1. Running' = Running BY Zenon, <1>3 DEF vars, procs, Running
  <2>2. Counted' /\ WithinOp' /\ Reserved' BY Zenon, <1>3, <2>1, SameAccounts DEF vars, mem, procs
  <2> QED BY <1>3, <2>1, <2>2 DEF vars, disk, mem, procs, IInv, TypeOK, Phase, Coherent, Copied,
        SleeperHasWaker, Referenced, Logged
<1> QED
  BY Zenon, <1>1, <1>2, <1>3, CacheStep, ModifyStep, LogWriteStep, EndOpStep, FinishStep, WriteLogStep,
     WriteHeadStep, InstallStep, ClearHeadStep, ReadHeadStep, CrashStep
     DEF Next, Commit

-----------------------------------------------------------------------------
(* What the disk recovers to, of a header h, log data d and home blocks m.    *)
Rec(h, d, m, b) ==
  LET slots == {i \in 1..Len(h) : h[i] = b}
  IN IF slots = {} THEN m[b] ELSE d[CHOOSE i \in slots : \A j \in slots : j <= i]

(* A logged block recovers from its slot.                                     *)
LEMMA RecSlot ==
  ASSUME NEW h, Len(h) \in Nat, Distinct(h), NEW d, NEW m, NEW i \in 1..Len(h)
  PROVE  Rec(h, d, m, h[i]) = d[i]
<1> DEFINE slots == {j \in 1..Len(h) : h[j] = h[i]}
<1>1. slots = {i} BY Zenon DEF Distinct
<1>2. i <= i OBVIOUS
<1> HIDE DEF slots
<1>3. (CHOOSE x \in slots : \A j \in slots : j <= x) = i BY Zenon, <1>1, <1>2
<1> QED BY Zenon, <1>1, <1>3 DEF Rec, slots

(* Any other block recovers from its home.                                    *)
LEMMA RecHome ==
  ASSUME NEW h, NEW d, NEW m, NEW b, \A i \in 1..Len(h) : h[i] # b
  PROVE  Rec(h, d, m, b) = m[b]
<1>1. {i \in 1..Len(h) : h[i] = b} = {} BY Zenon
<1> QED BY Zenon, <1>1 DEF Rec

(* With an empty header the disk recovers to the home blocks.                 *)
LEMMA RecEmpty ==
  ASSUME NEW d, NEW m, NEW b
  PROVE  Rec(<< >>, d, m, b) = m[b]
BY RecHome

(* Before the header is written and after it is cleared, what is on disk is   *)
(* in the home blocks; with no operation running the cache agrees with it,    *)
(* but for the logged blocks.                                                 *)
LEMMA CleanIsHome ==
  ASSUME ValueAssumption, IInv, mode # "panic", Running = {}, NEW b \in Blocks, ~pinned[b]
  PROVE  Content(b) = home[b]
<1>1. ~Referenced(b) BY Zenon, NobodyRuns
<1> QED BY Zenon, <1>1 DEF IInv, Coherent, Content

(* With no operation outstanding and no commit under way a crash loses        *)
(* nothing; a commit runs alone and its blocks do not change under it; what   *)
(* operations may still log fits; a sleeper in begin_op has someone to wake   *)
(* it: for any number of operations and blocks and any size of the log, with  *)
(* a crash at any point (log.c 119-234).                                      *)
THEOREM LogIsSound ==
  ASSUME LogAssumption, ValueAssumption
  PROVE  Spec => [](QuietIsDurable /\ CommitAlone /\ Reserved /\ SleeperHasWaker)
<1>1. Init => IInv BY Zenon, InitIInv
<1>2. IInv /\ [Next]_vars => IInv' BY Zenon, NextIInv
<1>3. ASSUME IInv PROVE QuietIsDurable
  <2> SUFFICES ASSUME mode = "up", outstanding = 0, ~committing, NEW b \in Blocks
               PROVE  Recovered(b) = Content(b)
    BY Zenon DEF QuietIsDurable
  <2>1. Running = {} BY Zenon, <1>3, FS_EmptySet DEF IInv, Counted
  <2>2. lh = << >> /\ step = "none" /\ hdr = << >> BY Zenon, <1>3, <2>1 DEF IInv, Phase
  <2>3. ~pinned[b] BY <1>3, <2>2 DEF IInv, Coherent, Logged
  <2>4. Recovered(b) = Rec(hdr, ldata, home, b) BY Zenon DEF Recovered, Rec
  <2>5. Recovered(b) = home[b] BY Zenon, <2>2, <2>4, RecEmpty
  <2> QED BY <1>3, <2>1, <2>3, <2>5, CleanIsHome
<1>4. ASSUME IInv PROVE CommitAlone
  <2>1. committing => Running = {} BY Zenon, <1>4 DEF IInv, TypeOK, Phase
  <2>2. ASSUME step \in {"log", "install"}, mode = "up", NEW i \in 1..Len(lh),
               i < tail \/ step = "install"
        PROVE  ldata[i] = Content(lh[i])
    <3>1. lh[i] \in Blocks /\ Logged(lh[i]) /\ Running = {} /\ i \in Int /\ tail \in Int
      BY <1>4, <2>2 DEF IInv, TypeOK, Logged, Phase
    <3>2. CASE step = "log"
      <4>1. ldata[i] = cache[lh[i]] /\ cache[lh[i]] # Absent
        BY Zenon, <1>4, <2>2, <3>1, <3>2 DEF IInv, Copied, Coherent
      <4> QED BY Zenon, <4>1 DEF Content
    <3>3. CASE step = "install" /\ i < tail
      <4>1. home[lh[i]] = ldata[i] /\ ~pinned[lh[i]] BY Zenon, <1>4, <2>2, <3>3 DEF IInv, Copied
      <4> QED BY Zenon, <1>4, <2>2, <3>1, <4>1, CleanIsHome
    <3>4. CASE step = "install" /\ i >= tail
      <4>1. ldata[i] = cache[lh[i]] /\ pinned[lh[i]] BY Zenon, <1>4, <2>2, <3>4 DEF IInv, Copied
      <4>2. cache[lh[i]] # Absent BY <1>4, <2>2, <3>1, <4>1 DEF IInv, Coherent
      <4> QED BY Zenon, <4>1, <4>2 DEF Content
    <3> QED BY <2>2, <3>1, <3>2, <3>3, <3>4
  <2> QED BY Zenon, <2>1, <2>2 DEF CommitAlone
<1>5. IInv => Reserved /\ SleeperHasWaker BY Zenon DEF IInv
<1> QED BY <1>1, <1>2, <1>3, <1>4, <1>5, PTL DEF Spec

(* The reservations of begin_op are enough: what is in the log and what the   *)
(* running operations may still add to it fit its LOGSIZE slots together, for *)
(* any number of operations, any limit on one and any LOGSIZE that holds one  *)
(* (log.c 124-156, and log_write's panic).                                    *)
THEOREM LogHasRoom ==
  ASSUME LogAssumption, ValueAssumption
  PROVE  Spec => []Reserved
<1>1. Init => IInv BY Zenon, InitIInv
<1>2. IInv /\ [Next]_vars => IInv' BY Zenon, NextIInv
<1>3. IInv => Reserved BY Zenon DEF IInv
<1> QED BY <1>1, <1>2, <1>3, PTL DEF Spec

-----------------------------------------------------------------------------
(* The refinement: what is read, what a crash leaves, who is busy.            *)
MemNow == [b \in Blocks |-> IF mode = "recover" THEN Recovered(b) ELSE Content(b)]
DurNow == [b \in Blocks |-> Recovered(b)]
BusyNow == IF mode = "recover" THEN {} ELSE Running

(* Recovered, and Recovered in the next state, as Rec.                        *)
LEMMA RecoveredIs ==
  ASSUME NEW b
  PROVE  /\ Recovered(b) = Rec(hdr, ldata, home, b)
         /\ Recovered(b)' = Rec(hdr', ldata', home', b)
BY Zenon DEF Recovered, Rec

(* The durable contents stay with the disk.                                   *)
LEMMA SameDisk ==
  ASSUME UNCHANGED disk
  PROVE  DurNow' = DurNow /\ \A b \in Blocks : Recovered(b)' = Recovered(b)
<1>1. \A b \in Blocks : Recovered(b)' = Recovered(b) BY Zenon, RecoveredIs DEF disk
<1> QED BY Zenon, <1>1 DEF DurNow

(* A step that reads and recovers the same, with the same busy, is a stutter. *)
LEMMA Stutters ==
  ASSUME MemNow' = MemNow, DurNow' = DurNow, BusyNow' = BusyNow
  PROVE  [Abstract!Next]_(Abstract!vars)
BY Zenon DEF Abstract!vars, MemNow, DurNow, BusyNow

(* A running system that leaves the disk alone and reads the same.            *)
LEMMA QuietStep ==
  ASSUME UNCHANGED <<disk, mode>>, mode = "up", Running' = Running,
         \A b \in Blocks : Content(b)' = Content(b)
  PROVE  [Abstract!Next]_(Abstract!vars)
<1>1. DurNow' = DurNow BY Zenon, SameDisk
<1>2. MemNow' = MemNow /\ BusyNow' = BusyNow BY Zenon DEF MemNow, BusyNow
<1> QED BY Zenon, <1>1, <1>2, Stutters

(* Steps of one operation, and of the cache.                                  *)
LEMMA OperationRefines ==
  ASSUME ValueAssumption, IInv, NEW p \in Procs,
         StartOp(p) \/ BeginOp(p) \/ LogWrite(p) \/ EndOp(p) \/ FinishCommit(p)
  PROVE  [Abstract!Next]_(Abstract!vars)
<1>1. /\ UNCHANGED <<disk, cache>> /\ mode = "up"
  BY Zenon DEF StartOp, BeginOp, LogWrite, EndOp, FinishCommit, mem
<1>2. \A b \in Blocks : Content(b)' = Content(b) BY Zenon, <1>1 DEF Content, disk
<1>3. DurNow' = DurNow BY Zenon, <1>1, SameDisk
<1>4. CASE StartOp(p)
  BY Zenon, <1>1, <1>2, <1>4, QuietStep DEF StartOp, Running, IInv, TypeOK
<1>5. CASE BeginOp(p)
  <2>1. mode' = mode BY Zenon, <1>5 DEF BeginOp
  <2>2. CASE Admits
    <3>1. Running' = Running \cup {p} /\ p \notin Running
      BY <1>5, <2>2 DEF BeginOp, Running, IInv, TypeOK
    <3>2. MemNow' = MemNow /\ BusyNow = Running /\ BusyNow' = Running \cup {p}
      BY Zenon, <1>1, <1>2, <2>1, <3>1 DEF MemNow, BusyNow
    <3>3. Abstract!Begin(p) BY Zenon, <1>3, <3>1, <3>2 DEF Abstract!Begin, MemNow, DurNow, BusyNow
    <3> QED BY Zenon, <3>3 DEF Abstract!Next
  <2>3. CASE ~Admits
    <3>1. Running' = Running BY Zenon, <1>5, <2>3 DEF BeginOp, Running, IInv, TypeOK
    <3> QED BY <1>1, <1>2, <2>1, <3>1, QuietStep
  <2> QED BY Zenon, <2>2, <2>3
<1>6. CASE LogWrite(p)
  BY Zenon, <1>1, <1>2, <1>6, QuietStep DEF LogWrite, Running
<1>7. CASE EndOp(p)
  <2>1. p \in Running /\ ~committing BY Zenon, <1>7, RunningAlone DEF EndOp
  <2>2. mode' = mode BY Zenon, <1>7, <2>1 DEF EndOp
  <2>3. Running' = Running \ {p} BY Zenon, <1>7, <2>1 DEF EndOp, Running, Woken, IInv, TypeOK
  <2>4. MemNow' = MemNow /\ BusyNow = Running /\ BusyNow' = Running \ {p}
    BY Zenon, <1>1, <1>2, <2>2, <2>3 DEF MemNow, BusyNow
  <2>5. Abstract!End(p) BY Zenon, <1>3, <2>1, <2>4 DEF Abstract!End, MemNow, DurNow, BusyNow
  <2> QED BY Zenon, <2>5 DEF Abstract!Next
<1>8. CASE FinishCommit(p)
  <2>1. Running' = Running BY Zenon, <1>8 DEF FinishCommit, Running, Woken
  <2> QED BY Zenon, <1>1, <1>2, <1>8, <2>1, QuietStep DEF FinishCommit
<1> QED BY Zenon, <1>4, <1>5, <1>6, <1>7, <1>8

(* An operation writes, even if log_write then panics.                        *)
LEMMA ModifyRefines ==
  ASSUME ValueAssumption, IInv, NEW p \in Procs, NEW b \in Blocks, NEW v \in Vals,
         Modify(p, b, v)
  PROVE  [Abstract!Next]_(Abstract!vars)
<1>1. /\ p \in Running /\ Running' = Running /\ mode = "up" /\ mode' \in {"up", "panic"}
      /\ UNCHANGED disk
  BY Zenon DEF Modify, Running
<1>2. DurNow' = DurNow BY Zenon, <1>1, SameDisk
<1>3. BusyNow = Running /\ BusyNow' = Running BY Zenon, <1>1 DEF BusyNow
<1>4. \A c \in Blocks : Content(c)' = IF c = b THEN v ELSE Content(c)
  BY Zenon, <1>1 DEF Modify, Content, IInv, TypeOK, ValueAssumption, disk
<1>5. MemNow' = [MemNow EXCEPT ![b] = v] BY Zenon, <1>1, <1>4 DEF MemNow
<1>6. Abstract!Write(p, b, v)
  BY Zenon, <1>1, <1>2, <1>3, <1>5 DEF Abstract!Write, MemNow, DurNow, BusyNow
<1> QED BY Zenon, <1>6 DEF Abstract!Next

(* The cache lets a buffer go, or reads one: contents equal to the disk's.    *)
LEMMA CacheRefines ==
  ASSUME ValueAssumption, IInv, NEW b \in Blocks, Read(b) \/ Evict(b)
  PROVE  [Abstract!Next]_(Abstract!vars)
<1>1. /\ UNCHANGED <<disk, mode, procs>> /\ mode = "up" BY Zenon DEF Read, Evict
<1>2. Running' = Running BY Zenon, <1>1 DEF Running, procs
<1>3. \A c \in Blocks : Content(c)' = Content(c)
  <2>1. home' = home /\ cache \in [Blocks -> Vals \cup {Absent}] BY Zenon, <1>1 DEF disk, IInv, TypeOK
  <2>2. CASE Read(b) BY Zenon, <2>1, <2>2 DEF Read, Content
  <2>3. CASE Evict(b)
    <3>1. cache[b] = home[b] BY Zenon, <2>3 DEF Evict, IInv, Coherent
    <3> QED BY Zenon, <2>1, <2>3, <3>1 DEF Evict, Content
  <2> QED BY Zenon, <2>2, <2>3
<1> QED BY Zenon, <1>1, <1>2, <1>3, QuietStep

(* write_log changes nothing that is read or recovered.                       *)
LEMMA WriteLogRefines ==
  ASSUME ValueAssumption, IInv, WriteLog
  PROVE  [Abstract!Next]_(Abstract!vars)
<1>1. mode = "up" /\ mode' = "up" /\ hdr = << >> /\ hdr' = << >> /\ home' = home
  BY Zenon DEF WriteLog, IInv, Phase
<1>2. Running' = Running BY Zenon DEF WriteLog, Running, procs
<1>3. \A b \in Blocks : Recovered(b)' = Recovered(b) BY <1>1, RecoveredIs, RecEmpty
<1>4. \A b \in Blocks : Content(b)' = Content(b)
  BY Zenon, <1>1 DEF WriteLog, Content, IInv, TypeOK
<1>5. DurNow' = DurNow /\ MemNow' = MemNow /\ BusyNow' = BusyNow
  BY Zenon, <1>1, <1>2, <1>3, <1>4 DEF DurNow, MemNow, BusyNow
<1> QED BY Zenon, <1>5, Stutters

(* The header's write makes the contents of the cache durable, all at once.   *)
LEMMA WriteHeadRefines ==
  ASSUME LogAssumption, ValueAssumption, IInv, WriteHead
  PROVE  [Abstract!Next]_(Abstract!vars)
<1>1. /\ mode = "up" /\ mode' = "up" /\ step = "log" /\ tail > Len(lh) /\ hdr' = lh
      /\ UNCHANGED <<home, ldata, cache, op>>
  BY Zenon DEF WriteHead, LogWritten, mem, procs
<1>2. Running = {} /\ Running' = {} BY Zenon, <1>1 DEF IInv, Phase, Running
<1>3. \A b \in Blocks : Content(b)' = Content(b) BY Zenon, <1>1 DEF Content
<1>4. ASSUME NEW b \in Blocks PROVE Recovered(b)' = Content(b)
  <2>1. Recovered(b)' = Rec(lh, ldata, home, b) BY Zenon, <1>1, RecoveredIs
  <2>2. ASSUME NEW i \in 1..Len(lh), lh[i] = b PROVE Rec(lh, ldata, home, b) = Content(b)
    <3>1. Len(lh) \in Nat /\ Distinct(lh) BY DEF IInv, TypeOK, Phase
    <3>2. Rec(lh, ldata, home, b) = ldata[i] BY Zenon, <2>2, <3>1, RecSlot
    <3>3. i < tail BY <1>1, <3>1 DEF IInv, TypeOK, LogAssumption
    <3>4. ldata[i] = cache[b] BY Zenon, <1>1, <2>2, <3>3 DEF IInv, Copied
    <3>5. Logged(b) BY Zenon, <2>2 DEF Logged
    <3>6. cache[b] # Absent BY Zenon, <1>1, <3>5 DEF IInv, Coherent
    <3> QED BY Zenon, <3>2, <3>4, <3>6 DEF Content
  <2>3. ASSUME \A i \in 1..Len(lh) : lh[i] # b PROVE Rec(lh, ldata, home, b) = Content(b)
    <3>1. Rec(lh, ldata, home, b) = home[b] BY <2>3, RecHome
    <3>2. ~pinned[b] BY Zenon, <1>1, <2>3 DEF IInv, Coherent, Logged
    <3> QED BY <1>1, <1>2, <3>1, <3>2, CleanIsHome
  <2> QED BY Zenon, <2>1, <2>2, <2>3
<1>5. MemNow' = MemNow /\ DurNow' = MemNow /\ BusyNow = {} /\ BusyNow' = {}
  BY Zenon, <1>1, <1>2, <1>3, <1>4 DEF MemNow, DurNow, BusyNow
<1>6. Abstract!Commit BY Zenon, <1>5 DEF Abstract!Commit, MemNow, DurNow, BusyNow
<1> QED BY Zenon, <1>6 DEF Abstract!Next

(* Installing a block, in commit or in recovery, changes nothing that is read *)
(* or recovered: the header still lists it.                                   *)
LEMMA InstallRefines ==
  ASSUME LogAssumption, ValueAssumption, IInv, InstallTrans
  PROVE  [Abstract!Next]_(Abstract!vars)
<1> DEFINE b == lh[tail]
<1>1. /\ tail \in 1..Len(lh) /\ Len(lh) \in Nat /\ b \in Blocks /\ lh = hdr /\ Distinct(lh)
      /\ mode \in {"up", "recover"} /\ Running = {} /\ step = "install" /\ ldata[tail] # Absent
  BY DEF InstallTrans, IInv, TypeOK, Phase, LogAssumption, LogSlots, ValueAssumption
<1>2. /\ hdr' = hdr /\ ldata' = ldata /\ mode' = mode /\ Running' = Running
      /\ home' = [home EXCEPT ![b] = ldata[tail]] /\ cache' = [cache EXCEPT ![b] = ldata[tail]]
  BY Zenon DEF InstallTrans, Running, procs
<1>3. home \in [Blocks -> Vals] /\ cache \in [Blocks -> Vals \cup {Absent}] BY Zenon DEF IInv, TypeOK
<1>4. ASSUME NEW c \in Blocks PROVE Recovered(c)' = Recovered(c)
  <2>1. CASE c = b
    <3>1. Rec(hdr, ldata, home, c) = ldata[tail] /\ Rec(hdr', ldata', home', c) = ldata[tail]
      BY Zenon, <1>1, <1>2, <2>1, RecSlot
    <3> QED BY Zenon, <3>1, RecoveredIs
  <2>2. CASE c # b
    <3>1. home'[c] = home[c] BY <1>1, <1>2, <1>3, <2>2
    <3>2. Rec(hdr', ldata', home', c) = Rec(hdr, ldata, home, c) BY <1>2, <3>1 DEF Rec
    <3> QED BY Zenon, <3>2, RecoveredIs
  <2> QED BY Zenon, <2>1, <2>2
<1>5. ASSUME mode = "up", NEW c \in Blocks PROVE Content(c)' = Content(c)
  <2>1. pinned[b] /\ cache[b] = ldata[tail]
    <3>1. tail >= tail BY <1>1
    <3> QED BY Zenon, <1>1, <1>5, <3>1 DEF IInv, Copied
  <2> QED BY Zenon, <1>1, <1>2, <1>3, <2>1 DEF Content
<1>6. MemNow' = MemNow /\ DurNow' = DurNow /\ BusyNow' = BusyNow
  BY <1>1, <1>2, <1>4, <1>5 DEF MemNow, DurNow, BusyNow
<1> QED BY Zenon, <1>6, Stutters

(* Clearing the header changes nothing: every block it lists is home.         *)
LEMMA ClearHeadRefines ==
  ASSUME LogAssumption, ValueAssumption, IInv, ClearHead
  PROVE  [Abstract!Next]_(Abstract!vars)
<1>1. /\ mode \in {"up", "recover"} /\ step = "install" /\ tail > Len(lh) /\ hdr' = << >>
      /\ mode' = "up" /\ lh = hdr /\ Distinct(lh) /\ Running = {} /\ Len(lh) \in Nat
      /\ UNCHANGED <<home, ldata, cache, op>>
  BY DEF ClearHead, Installed, IInv, TypeOK, Phase, procs
<1>2. Running' = {} BY Zenon, <1>1 DEF Running
<1>3. \A i \in 1..Len(lh) : home[lh[i]] = ldata[i] /\ ~pinned[lh[i]]
  <2>1. \A i \in 1..Len(lh) : i < tail BY <1>1 DEF IInv, TypeOK, LogAssumption
  <2> QED BY Zenon, <1>1, <2>1 DEF IInv, Copied
<1>4. ASSUME NEW b \in Blocks
      PROVE  Recovered(b) = home[b] /\ Recovered(b)' = home[b] /\ Content(b) = home[b]
  <2>1. Recovered(b)' = home[b] BY <1>1, RecoveredIs, RecEmpty
  <2>2. ASSUME NEW i \in 1..Len(lh), lh[i] = b PROVE Rec(hdr, ldata, home, b) = home[b]
    <3>1. Rec(lh, ldata, home, b) = ldata[i] BY Zenon, <1>1, <2>2, RecSlot
    <3> QED BY Zenon, <1>1, <1>3, <2>2, <3>1
  <2>3. ASSUME \A i \in 1..Len(lh) : lh[i] # b PROVE Rec(hdr, ldata, home, b) = home[b]
    BY <1>1, <2>3, RecHome
  <2>4. ~pinned[b] BY <1>1, <1>3 DEF IInv, Coherent, Logged
  <2>5. Content(b) = home[b] BY Zenon, <1>1, <2>4, CleanIsHome
  <2> QED BY Zenon, <2>1, <2>2, <2>3, <2>5, RecoveredIs
<1>5. \A b \in Blocks : Content(b)' = Content(b) BY Zenon, <1>1 DEF Content
<1>6. MemNow' = MemNow /\ DurNow' = DurNow /\ BusyNow' = BusyNow
  BY Zenon, <1>1, <1>2, <1>4, <1>5 DEF MemNow, DurNow, BusyNow
<1> QED BY <1>6, Stutters

(* A crash undoes what is not committed, as a whole.                          *)
LEMMA CrashRefines ==
  ASSUME Crash
  PROVE  [Abstract!Next]_(Abstract!vars)
<1>1. DurNow' = DurNow /\ \A b \in Blocks : Recovered(b)' = Recovered(b)
  BY Zenon, SameDisk DEF Crash
<1>2. MemNow' = DurNow /\ BusyNow' = {} BY Zenon, <1>1 DEF Crash, MemNow, DurNow, BusyNow
<1>3. Abstract!Crash BY Zenon, <1>1, <1>2 DEF Abstract!Crash, MemNow, DurNow, BusyNow
<1> QED BY Zenon, <1>3 DEF Abstract!Next

(* Every step of the log is a step of the atomic disk, or none.               *)
LEMMA NextRefines ==
  ASSUME LogAssumption, ValueAssumption, IInv, [Next]_vars
  PROVE  [Abstract!Next]_(Abstract!vars)
<1>1. CASE ReadHead
  <2>1. DurNow' = DurNow /\ \A b \in Blocks : Recovered(b)' = Recovered(b)
    BY Zenon, <1>1, SameDisk DEF ReadHead
  <2>2. MemNow' = MemNow /\ BusyNow' = BusyNow
    BY Zenon, <1>1, <2>1 DEF ReadHead, MemNow, BusyNow
  <2> QED BY Zenon, <2>1, <2>2, Stutters
<1>2. CASE UNCHANGED vars
  <2>1. DurNow' = DurNow /\ \A b \in Blocks : Recovered(b)' = Recovered(b)
    BY Zenon, <1>2, SameDisk DEF vars
  <2>2. MemNow' = MemNow /\ BusyNow' = BusyNow
    BY Zenon, <1>2, <2>1 DEF vars, disk, mem, procs, MemNow, BusyNow, Running, Content
  <2> QED BY <2>1, <2>2, Stutters
<1> QED
  BY <1>1, <1>2, CacheRefines, OperationRefines, ModifyRefines, WriteLogRefines, WriteHeadRefines,
     InstallRefines, ClearHeadRefines, CrashRefines
     DEF Next, Commit

(* The log implements atomic updates that survive crashes, for any number of  *)
(* operations, blocks, values and log slots: wherever a crash falls, in an    *)
(* operation, in commit, in install_trans or in recovery, the disk recovers   *)
(* to the last commit, and a commit never holds half of an operation (log.c   *)
(* 9-22, commit, recover_from_log).                                           *)
THEOREM ImplementsAtomicDisk ==
  ASSUME LogAssumption, ValueAssumption
  PROVE  Spec => AtomicCommit
<1>1. Init => IInv BY InitIInv
<1>2. IInv /\ [Next]_vars => IInv' BY NextIInv
<1>3. IInv /\ [Next]_vars => [Abstract!Next]_(Abstract!vars) BY Zenon, NextRefines
<1>4. Init => Abstract!Init
  <2> SUFFICES ASSUME Init PROVE Abstract!Init BY Zenon
  <2>1. PICK v \in Vals : home = [b \in Blocks |-> v] BY Zenon DEF Init
  <2>2. mode = "recover" /\ hdr = << >> BY Zenon DEF Init
  <2>3. \A b \in Blocks : Recovered(b) = v BY <2>1, <2>2, RecoveredIs, RecEmpty
  <2>4. MemNow \in [Blocks -> Vals] /\ DurNow = MemNow /\ BusyNow = {}
    BY Zenon, <2>2, <2>3 DEF MemNow, DurNow, BusyNow
  <2> QED BY Zenon, <2>4 DEF Abstract!Init, MemNow, DurNow, BusyNow
<1> QED BY <1>1, <1>2, <1>3, <1>4, PTL DEF Spec, AtomicCommit, Abstract!Spec
=============================================================================
