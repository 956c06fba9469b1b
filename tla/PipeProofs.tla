----------------------------- MODULE PipeProofs -----------------------------
(***************************************************************************)
(* Pipes of any size between any number of readers and writers: who sleeps *)
(* has a reason to, and the ring is a bounded queue.                       *)
(***************************************************************************)
EXTENDS Pipe, Basics, TLAPS

PCs == {"idle", "closed"} \cup InCall

Types ==
  /\ nread \in 0 .. WRAP - 1 /\ nwrite \in 0 .. WRAP - 1
  /\ readopen \in BOOLEAN /\ writeopen \in BOOLEAN
  /\ pc \in [Parties -> PCs] /\ killed \in [Parties -> BOOLEAN]

(* p->lock is held in the loop and on the way to sleep.                       *)
Holds == \A p \in Parties : pc[p] \in {"loop", "sleep"} => lock = p

(* The read end is closed when every reader has closed it.                    *)
Closed == ~readopen => \A r \in Readers : pc[r] = "closed"

(* A reader that sleeps found the pipe empty, and a writer that has put bytes *)
(* in since is still in its loop, from which it wakes the readers.            *)
Filling == \E w \in Writers : pc[w] = "loop"

SleepingReaders ==
  \A r \in Readers :
    /\ pc[r] = "sleep" => Empty /\ writeopen
    /\ pc[r] = "asleep" => (Empty /\ writeopen) \/ WriterKilled \/ Filling

SleepingWriters ==
  \A w \in Writers : pc[w] \in {"sleep", "asleep"} => Full /\ readopen

IInv == Types /\ Holds /\ Closed /\ SleepingReaders /\ SleepingWriters

(* It holds of a new pipe.                                                    *)
LEMMA InitIInv ==
  ASSUME PipeAssumption, ProcAssumption, Init
  PROVE  IInv
<1> USE DEF Init
<1>1. Types BY DEF Types, PCs, PipeAssumption
<1> QED BY Zenon, <1>1 DEF IInv, Holds, Closed, SleepingReaders, SleepingWriters, Parties

(* Counters modulo 2^32.                                                      *)
LEMMA AddType ==
  ASSUME PipeAssumption, NEW x \in Nat, NEW k \in Nat
  PROVE  Add(x, k) \in 0 .. WRAP - 1
<1>1. x + k \in Nat /\ WRAP \in Nat \ {0} BY DEF PipeAssumption
<1> QED BY Zenon, <1>1, ModRange DEF Add

(* A process gets p->lock.                                                    *)
LEMMA AcquireStep ==
  ASSUME ProcAssumption, IInv, NEW p \in Parties, Acquire(p)
  PROVE  IInv'
<1> USE DEF IInv, Acquire, Goto, pipe
<1>1. Types' BY Zenon DEF Types, PCs, InCall
<1>2. \A q \in Parties : pc[q] \notin {"loop", "sleep"} BY Zenon DEF Holds, ProcAssumption, Parties
<1>3. Holds' BY Zenon, <1>2 DEF Holds, Types
<1>4. Closed' BY DEF Closed, Types
<1>5. \A q \in Parties : pc'[q] \in {"sleep", "asleep"} => pc[q] = pc'[q] BY Zenon DEF Types
<1>6. SleepingReaders'
  BY Zenon, <1>2, <1>5 DEF SleepingReaders, Empty, WriterKilled, Filling, Parties
<1>7. SleepingWriters' BY Zenon, <1>5 DEF SleepingWriters, Full, Parties
<1> QED BY Zenon, <1>1, <1>3, <1>4, <1>6, <1>7

(* A process gives p->lock up and sleeps.                                     *)
LEMMA SleepStep ==
  ASSUME ProcAssumption, IInv, NEW p \in Parties, Sleep(p)
  PROVE  IInv'
<1> USE DEF IInv, Sleep, Goto, pipe
<1>1. Types' BY Zenon DEF Types, PCs, InCall
<1>2. \A q \in Parties : q # p => pc[q] \notin {"loop", "sleep"} /\ pc'[q] = pc[q]
  BY Zenon DEF Holds, Types
<1>3. pc'[p] = "asleep" BY Zenon DEF Types
<1>4. Holds' BY Zenon, <1>2, <1>3 DEF Holds
<1>5. Closed' BY DEF Closed, Types
<1>6. SleepingReaders'
  BY Zenon, <1>2, <1>3 DEF SleepingReaders, Empty, WriterKilled, Filling, Parties, ProcAssumption
<1>7. SleepingWriters' BY Zenon, <1>2, <1>3 DEF SleepingWriters, Full, Parties
<1> QED BY Zenon, <1>1, <1>4, <1>5, <1>6, <1>7

(* A call begins.                                                             *)
LEMMA CallStep ==
  ASSUME ProcAssumption, IInv, NEW p \in Parties, pc[p] = "idle", Goto(p, "acq"),
         UNCHANGED <<pipe, lock, killed>>
  PROVE  IInv'
<1> USE DEF IInv, Goto, pipe
<1>1. Types' BY Zenon DEF Types, PCs, InCall
<1>2. \A q \in Parties : q # p => pc'[q] = pc[q] BY Zenon DEF Types
<1>3. pc'[p] = "acq" BY Zenon DEF Types
<1>4. Holds' /\ Closed' BY Zenon, <1>2, <1>3 DEF Holds, Closed, Parties
<1>5. SleepingReaders'
  BY Zenon, <1>2, <1>3 DEF SleepingReaders, Empty, WriterKilled, Filling, Parties, ProcAssumption
<1>6. SleepingWriters' BY Zenon, <1>2, <1>3 DEF SleepingWriters, Full, Parties
<1> QED BY Zenon, <1>1, <1>4, <1>5, <1>6

(* A byte goes in: no writer sleeps, as the pipe is not full.                 *)
LEMMA WriteByteStep ==
  ASSUME PipeAssumption, ProcAssumption, IInv, NEW w \in Writers, WriteByte(w)
  PROVE  IInv'
<1> USE DEF IInv, WriteByte
<1>1. Types'
  <2>1. Add(nwrite, 1) \in 0 .. WRAP - 1 BY AddType DEF Types, PipeAssumption
  <2> QED BY Zenon, <2>1 DEF Types
<1>2. lock = w /\ \A q \in Parties : q # w => pc[q] \notin {"loop", "sleep"} BY Zenon DEF Holds, Parties
<1>3. Holds' /\ Closed' BY Zenon DEF Holds, Closed
<1>4. SleepingReaders'
  BY Zenon, <1>2 DEF SleepingReaders, Filling, Parties, ProcAssumption
<1>5. SleepingWriters' BY Zenon DEF SleepingWriters
<1> QED BY Zenon, <1>1, <1>3, <1>4, <1>5

(* A writer gives up: no reader sleeps that a killed writer does not excuse,  *)
(* since with the read end closed every reader is gone.                       *)
LEMMA WriteFailStep ==
  ASSUME ProcAssumption, IInv, NEW w \in Writers, WriteFail(w)
  PROVE  IInv'
<1> USE DEF IInv, WriteFail, Goto, pipe
<1>1. Types' BY Zenon DEF Types, PCs
<1>2. \A q \in Parties : q # w => pc[q] \notin {"loop", "sleep"} /\ pc'[q] = pc[q]
  BY Zenon DEF Holds, Types, Parties
<1>3. pc'[w] = "idle" BY Zenon DEF Types, Parties
<1>4. Holds' /\ Closed' BY Zenon, <1>2, <1>3 DEF Holds, Closed, Parties, ProcAssumption
<1>5. readopen => WriterKilled BY Zenon DEF GivesUp, WriterKilled
<1>6. ~readopen => \A r \in Readers : pc[r] = "closed" BY Zenon DEF Closed
<1>7. \A r \in Readers : r # w BY Zenon DEF ProcAssumption
<1>8. SleepingReaders'
  BY Zenon, <1>2, <1>5, <1>6, <1>7 DEF SleepingReaders, WriterKilled, Parties
<1>9. SleepingWriters' BY Zenon, <1>2, <1>3 DEF SleepingWriters, Full, Parties
<1> QED BY Zenon, <1>1, <1>4, <1>8, <1>9

(* The holder of the lock wakes the readers on its way to sleep or out.       *)
LEMMA WakeReadersStep ==
  ASSUME ProcAssumption, IInv, NEW w \in Writers, WriteFull(w) \/ WriteDone(w)
  PROVE  IInv'
<1> DEFINE l == IF WriteFull(w) THEN "sleep" ELSE "idle"
<1> USE DEF IInv
<1>1. /\ pc[w] = "loop" /\ pc' = Woken(Readers, w, l)
      /\ UNCHANGED <<pipe, killed>> /\ (l = "sleep" => lock' = lock)
  BY Zenon DEF WriteFull, WriteDone
<1>2. l = "sleep" => Full /\ readopen BY Zenon DEF WriteFull, GivesUp
<1>3. l \in {"sleep", "idle"} BY Zenon
<1> HIDE DEF l
<1>4. Types' BY Zenon, <1>1, <1>3 DEF Types, PCs, InCall, Woken, pipe
<1>5. lock = w /\ \A q \in Parties : q # w => pc[q] \notin {"loop", "sleep"}
  BY Zenon, <1>1 DEF Holds, Parties
<1>6. pc'[w] = l BY Zenon, <1>1 DEF Woken, Parties
<1>7. \A q \in Parties : q # w => pc'[q] = IF q \in Readers /\ pc[q] = "asleep" THEN "acq" ELSE pc[q]
  BY Zenon, <1>1 DEF Woken
<1>8. Holds' BY Zenon, <1>1, <1>3, <1>5, <1>6, <1>7 DEF Holds
<1>9. Closed' BY Zenon, <1>1, <1>7 DEF Closed, pipe, Parties, ProcAssumption
<1>10. SleepingReaders' BY Zenon, <1>5, <1>7 DEF SleepingReaders, Parties, ProcAssumption
<1>11. SleepingWriters'
  BY Zenon, <1>1, <1>2, <1>3, <1>6, <1>7 DEF SleepingWriters, Parties, ProcAssumption, Full, pipe
<1> QED BY Zenon, <1>4, <1>8, <1>9, <1>10, <1>11

(* A reader finds nothing: it leaves, or goes to sleep on an empty open pipe. *)
LEMMA ReadEmptyStep ==
  ASSUME ProcAssumption, IInv, NEW r \in Readers, ReadEmpty(r)
  PROVE  IInv'
<1> DEFINE l == IF killed[r] THEN "idle" ELSE "sleep"
<1> USE DEF IInv
<1>1. /\ pc[r] = "loop" /\ Empty /\ writeopen /\ pc' = [pc EXCEPT ![r] = l]
      /\ UNCHANGED <<pipe, killed>> /\ (l = "sleep" => lock' = lock)
  BY Zenon DEF ReadEmpty, Goto
<1>2. l \in {"sleep", "idle"} BY Zenon
<1> HIDE DEF l
<1>3. Types' BY Zenon, <1>1, <1>2 DEF Types, PCs, InCall, pipe
<1>4. lock = r /\ \A q \in Parties : q # r => pc[q] \notin {"loop", "sleep"}
  BY Zenon, <1>1 DEF Holds, Parties
<1>5. pc'[r] = l BY Zenon, <1>1 DEF Types, Parties
<1>6. \A q \in Parties : q # r => pc'[q] = pc[q] BY Zenon, <1>1 DEF Types
<1>7. Holds' BY Zenon, <1>1, <1>2, <1>4, <1>5, <1>6 DEF Holds
<1>8. Closed' BY Zenon, <1>1, <1>6 DEF Closed, pipe, Parties, ProcAssumption
<1>9. Empty' /\ writeopen' BY Zenon, <1>1 DEF Empty, pipe
<1>10. SleepingReaders' BY Zenon, <1>9 DEF SleepingReaders
<1>11. SleepingWriters'
  BY Zenon, <1>1, <1>6 DEF SleepingWriters, Parties, ProcAssumption, Full, pipe
<1> QED BY Zenon, <1>3, <1>7, <1>8, <1>10, <1>11

(* A reader copies and wakes every writer.  Another reader that sleeps is     *)
(* excused already: the pipe is not both empty and open, and no writer holds  *)
(* the lock.                                                                  *)
LEMMA ReadCopyStep ==
  ASSUME PipeAssumption, ProcAssumption, IInv, NEW r \in Readers, NEW k \in 1 .. MaxN,
         ReadCopy(r, k)
  PROVE  IInv'
<1> USE DEF IInv, ReadCopy
<1>1. nread' \in 0 .. WRAP - 1
  <2>1. nread \in Nat /\ nwrite \in Int /\ k \in Nat /\ WRAP \in Nat \ {0} /\ MaxN \in Nat
    BY DEF Types, PipeAssumption
  <2>2. Used \in Nat BY <2>1 DEF Used, Types
  <2> QED BY Zenon, <2>1, <2>2, AddType
<1>2. Types' BY Zenon, <1>1 DEF Types, PCs, InCall, Woken
<1>3. lock = r /\ \A q \in Parties : q # r => pc[q] \notin {"loop", "sleep"} BY Zenon DEF Holds, Parties
<1>4. pc'[r] = "idle" BY Zenon DEF Woken, Parties
<1>5. \A q \in Parties : q # r => pc'[q] = IF q \in Writers /\ pc[q] = "asleep" THEN "acq" ELSE pc[q]
  BY Zenon DEF Woken
<1>6. Holds' BY Zenon, <1>3, <1>4, <1>5 DEF Holds
<1>7. Closed' BY Zenon DEF Closed, Woken
<1>8. \A q \in Readers : pc[q] = "asleep" => WriterKilled
  BY Zenon, <1>3 DEF SleepingReaders, Filling, Parties, ProcAssumption
<1>9. SleepingReaders'
  BY Zenon, <1>3, <1>4, <1>5, <1>8 DEF SleepingReaders, WriterKilled, Parties, ProcAssumption
<1>10. SleepingWriters' BY Zenon, <1>3, <1>5 DEF SleepingWriters, Parties, ProcAssumption
<1> QED BY Zenon, <1>2, <1>6, <1>7, <1>9, <1>10

(* The last process of a side closes it and wakes the other side.             *)
LEMMA CloseStep ==
  ASSUME ProcAssumption, IInv, NEW p \in Parties, Close(p)
  PROVE  IInv'
<1> DEFINE side == IF p \in Readers THEN Readers ELSE Writers
           last == \A r \in side \ {p} : pc[r] = "closed"
<1> USE DEF IInv
<1>1. /\ pc[p] = "idle" /\ lock = NoProc
      /\ readopen' = (readopen /\ ~(last /\ p \in Readers))
      /\ writeopen' = (writeopen /\ ~(last /\ p \in Writers))
      /\ pc' = IF last THEN Woken(Parties \ side, p, "closed") ELSE [pc EXCEPT ![p] = "closed"]
      /\ UNCHANGED <<nread, nwrite, lock, killed>>
  BY Zenon DEF Close
<1>2. \A q \in Parties : pc[q] \notin {"loop", "sleep"} BY Zenon, <1>1 DEF Holds, ProcAssumption, Parties
<1>3. pc'[p] = "closed" BY Zenon, <1>1 DEF Types, Woken
<1>4. \A q \in Parties : q # p =>
        pc'[q] = IF last /\ q \notin side /\ pc[q] = "asleep" THEN "acq" ELSE pc[q]
  BY Zenon, <1>1 DEF Types, Woken
<1>5. Types'
  <2>1. pc' \in [Parties -> PCs]
    <3>1. CASE last BY Zenon, <3>1, <1>1 DEF Types, PCs, InCall, Woken
    <3>2. CASE ~last BY Zenon, <3>2, <1>1 DEF Types, PCs, InCall
    <3> QED BY Zenon, <3>1, <3>2
  <2>2. readopen' \in BOOLEAN /\ writeopen' \in BOOLEAN BY Zenon, <1>1
  <2> QED BY Zenon, <1>1, <2>1, <2>2 DEF Types
<1>6. Holds' BY Zenon, <1>2, <1>3, <1>4 DEF Holds
<1>7. Closed'
  <2>1. CASE readopen
    <3>1. ~readopen' => last /\ p \in Readers BY Zenon, <2>1, <1>1
    <3>2. last /\ p \in Readers => \A r \in Readers : r # p => pc[r] = "closed" BY Zenon
    <3> HIDE DEF last, side
    <3> QED BY Zenon, <3>1, <3>2, <1>3, <1>4 DEF Closed, Parties
  <2>2. CASE ~readopen BY Zenon, <2>2, <1>3, <1>4 DEF Closed, Parties
  <2> QED BY Zenon, <2>1, <2>2
<1>8. SleepingReaders'
  <2> SUFFICES ASSUME NEW r \in Readers, pc'[r] = "asleep"
               PROVE  (Empty /\ writeopen)' \/ WriterKilled'
    BY Zenon, <1>2, <1>3, <1>4 DEF SleepingReaders, Parties
  <2>1. r # p /\ r \in Parties BY Zenon, <1>3 DEF Parties
  <2>2. pc[r] = "asleep" /\ ~(last /\ r \notin side) BY Zenon, <2>1, <1>4
  <2>3. last => p \notin Writers BY Zenon, <2>2 DEF ProcAssumption
  <2> HIDE DEF last, side
  <2>4. (Empty /\ writeopen) \/ WriterKilled BY Zenon, <1>2, <2>2 DEF SleepingReaders, Filling, Parties
  <2> QED BY Zenon, <1>1, <2>3, <2>4 DEF Empty, WriterKilled
<1>9. SleepingWriters'
  <2> SUFFICES ASSUME NEW w \in Writers, pc'[w] = "asleep" PROVE (Full /\ readopen)'
    BY Zenon, <1>2, <1>3, <1>4 DEF SleepingWriters, Parties
  <2>1. w # p /\ w \in Parties BY Zenon, <1>3 DEF Parties
  <2>2. pc[w] = "asleep" /\ ~(last /\ w \notin side) BY Zenon, <2>1, <1>4
  <2>3. last => p \notin Readers BY Zenon, <2>2 DEF ProcAssumption
  <2> HIDE DEF last, side
  <2>4. Full /\ readopen BY Zenon, <2>2 DEF SleepingWriters
  <2> QED BY Zenon, <1>1, <2>3, <2>4 DEF Full
<1> QED BY Zenon, <1>5, <1>6, <1>7, <1>8, <1>9

(* kill wakes its victim and nobody else.                                     *)
LEMMA KillStep ==
  ASSUME ProcAssumption, IInv, NEW p \in Parties, Kill(p)
  PROVE  IInv'
<1> USE DEF IInv, Kill, pipe
<1>1. Types' BY Zenon DEF Types, PCs, InCall
<1>2. \A q \in Parties : pc'[q] = pc[q] \/ (pc[q] = "asleep" /\ pc'[q] = "acq") BY Zenon DEF Types
<1>3. \A q \in Parties : killed[q] => killed'[q] BY Zenon DEF Types
<1>4. WriterKilled => WriterKilled' BY Zenon, <1>3 DEF WriterKilled, Parties
<1>5. Filling => Filling' BY Zenon, <1>2 DEF Filling, Parties
<1>6. Holds' /\ Closed' BY Zenon, <1>2 DEF Holds, Closed, Parties
<1>7. SleepingReaders' BY Zenon, <1>2, <1>4, <1>5 DEF SleepingReaders, Empty, Parties
<1>8. SleepingWriters' BY Zenon, <1>2 DEF SleepingWriters, Full, Parties
<1> QED BY Zenon, <1>1, <1>6, <1>7, <1>8

(* Every step keeps the invariant.                                            *)
LEMMA NextIInv ==
  ASSUME PipeAssumption, ProcAssumption, IInv, [Next]_vars
  PROVE  IInv'
<1>1. ASSUME NEW p \in Parties, Step(p) PROVE IInv'
  <2>1. CASE Acquire(p) BY Zenon, <2>1, AcquireStep
  <2>2. CASE Sleep(p) BY Zenon, <2>2, SleepStep
  <2>3. ASSUME p \in Writers, WriteByte(p) \/ WriteFail(p) \/ WriteFull(p) \/ WriteDone(p)
        PROVE  IInv'
    BY Zenon, <2>3, WriteByteStep, WriteFailStep, WakeReadersStep
  <2>4. ASSUME p \in Readers, ReadEmpty(p) PROVE IInv' BY Zenon, <2>4, ReadEmptyStep
  <2>5. ASSUME p \in Readers, NEW k \in 1 .. MaxN, ReadCopy(p, k) PROVE IInv'
    BY Zenon, <2>5, ReadCopyStep
  <2> QED BY Zenon, <1>1, <2>1, <2>2, <2>3, <2>4, <2>5 DEF Step
<1>2. ASSUME NEW w \in Writers, WriteCall(w) PROVE IInv'
  BY Zenon, <1>2, CallStep DEF WriteCall, Parties
<1>3. ASSUME NEW r \in Readers, ReadCall(r) PROVE IInv'
  BY Zenon, <1>3, CallStep DEF ReadCall, Parties
<1>4. CASE UNCHANGED vars
  BY Zenon, <1>4 DEF vars, pipe, IInv, Types, Holds, Closed, SleepingReaders, SleepingWriters,
              Empty, Full, WriterKilled, Filling
<1> QED BY Zenon, <1>1, <1>2, <1>3, <1>4, CloseStep, KillStep DEF Next, AllClosed

(* No wakeup is lost in a pipe, for any number of readers and writers, any    *)
(* size and any interleaving with close and kill (pipe.c 60-121): when nobody *)
(* holds p->lock a sleeping writer has a full pipe with a reader left, a      *)
(* sleeping reader an empty one with a writer left, unless a writer was       *)
(* killed.                                                                    *)
THEOREM NoLostWakeup ==
  ASSUME PipeAssumption, ProcAssumption
  PROVE  Spec => []SleepersJustified
<1>1. Init => IInv BY Zenon, InitIInv
<1>2. IInv /\ [Next]_vars => IInv' BY Zenon, NextIInv
<1>3. IInv => SleepersJustified
  BY Zenon DEF IInv, Holds, SleepersJustified, SleepingReaders, SleepingWriters, Filling,
         Parties, ProcAssumption
<1> QED BY <1>1, <1>2, <1>3, PTL DEF Spec

-----------------------------------------------------------------------------
(* The ring as a queue.                                                       *)

Cells == 0 .. PIPESIZE - 1

RingInv ==
  /\ nread \in 0 .. WRAP - 1 /\ nwrite \in 0 .. WRAP - 1
  /\ data \in [Cells -> Bytes \cup {<<>>}]
  /\ n \in [Writers -> 0 .. MaxN] /\ i \in [Writers -> 0 .. MaxN]
  /\ Used <= PIPESIZE

(* A count of at most PIPESIZE from an index wraps at most once.              *)
LEMMA AddIs ==
  ASSUME PipeAssumption, NEW x \in 0 .. WRAP - 1, NEW k \in 0 .. PIPESIZE
  PROVE  Add(x, k) = IF x + k < WRAP THEN x + k ELSE (x + k) - WRAP
<1> DEFINE z == x + k
<1>1. z \in Int /\ WRAP \in Nat \ {0} /\ z < WRAP + WRAP /\ z >= 0 BY DEF PipeAssumption
<1>2. Add(x, k) = z % WRAP BY Zenon DEF Add
<1> HIDE DEF z
<1>3. /\ 0 <= z /\ z < WRAP => z % WRAP = z
      /\ WRAP <= z /\ z < WRAP + WRAP => z % WRAP = z - WRAP
  BY Zenon, <1>1, WrapOnce
<1>4. (z < WRAP => Add(x, k) = z) /\ (~(z < WRAP) => Add(x, k) = z - WRAP)
  BY <1>1, <1>2, <1>3
<1> QED BY Zenon, <1>4 DEF z

(* The unsigned difference of two indices.                                    *)
LEMMA DistIs ==
  ASSUME PipeAssumption, NEW x \in 0 .. WRAP - 1, NEW y \in 0 .. WRAP - 1
  PROVE  (x - y) % WRAP = IF x >= y THEN x - y ELSE x - y + WRAP
<1> DEFINE z == x - y
<1>1. /\ z \in Int /\ WRAP \in Nat \ {0} /\ z < WRAP /\ z + WRAP >= 0 /\ (x >= y <=> z >= 0)
  BY DEF PipeAssumption
<1>2. (x - y) % WRAP = z % WRAP BY Zenon
<1> HIDE DEF z
<1>3. /\ 0 <= z /\ z < WRAP => z % WRAP = z
      /\ z < 0 /\ z + WRAP >= 0 => z % WRAP = z + WRAP
  BY Zenon, <1>1, WrapOnce
<1>4. (x - y) % WRAP = IF x >= y THEN z ELSE z + WRAP BY <1>1, <1>2, <1>3
<1> QED BY Zenon, <1>4 DEF z

(* Room in the ring, in numbers: the distance of the two counters.            *)
LEMMA UsedIs ==
  ASSUME PipeAssumption, RingInv
  PROVE  /\ Used \in 0 .. PIPESIZE
         /\ nwrite = nread + Used \/ nwrite = (nread + Used) - WRAP
         /\ Full <=> Used = PIPESIZE
<1>1. /\ nread \in 0 .. WRAP - 1 /\ nwrite \in 0 .. WRAP - 1 /\ Used <= PIPESIZE
      /\ WRAP \in Nat /\ PIPESIZE \in Nat \ {0} /\ PIPESIZE < WRAP
  BY Zenon DEF RingInv, PipeAssumption
<1>2. Used = IF nwrite >= nread THEN nwrite - nread ELSE nwrite - nread + WRAP
  BY Zenon, <1>1, DistIs DEF Used
<1>3. Add(nread, PIPESIZE) = IF nread + PIPESIZE < WRAP THEN nread + PIPESIZE
                                                      ELSE (nread + PIPESIZE) - WRAP
  BY <1>1, AddIs
<1> DEFINE u == Used
<1>4. u <= PIPESIZE BY Zenon, <1>1
<1>5. u = IF nwrite >= nread THEN nwrite - nread ELSE nwrite - nread + WRAP BY Zenon, <1>2
<1>6. Full <=> nwrite = Add(nread, PIPESIZE) BY Zenon DEF Full
<1> HIDE DEF u
<1>7. u \in 0 .. PIPESIZE BY <1>1, <1>4, <1>5
<1>8. nwrite = nread + u \/ nwrite = (nread + u) - WRAP BY <1>1, <1>5
<1>9. Full <=> u = PIPESIZE BY <1>1, <1>3, <1>5, <1>6
<1> QED BY Zenon, <1>7, <1>8, <1>9 DEF u

(* A run of u cells from index r on, as a sequence.                           *)
Run(d, r, u) == [x \in 1 .. u |-> d[(r + x - 1) % PIPESIZE]]

(* A run is a sequence of u bytes.                                            *)
LEMMA RunIsSeq ==
  ASSUME PipeAssumption, NEW d \in [Cells -> Bytes \cup {<<>>}], NEW r \in Nat, NEW u \in Nat
  PROVE  /\ Run(d, r, u) \in Seq(Bytes \cup {<<>>}) /\ Len(Run(d, r, u)) = u
         /\ \A x \in 1 .. u : /\ (r + x - 1) % PIPESIZE \in Cells
                             /\ Run(d, r, u)[x] = d[(r + x - 1) % PIPESIZE]
<1>1. ASSUME NEW x \in 1 .. u PROVE (r + x - 1) % PIPESIZE \in Cells
  <2>1. r + x - 1 \in Nat /\ PIPESIZE \in Nat \ {0} BY DEF PipeAssumption
  <2> QED BY Zenon, <2>1, ModRange DEF Cells
<1>2. Run(d, r, u) \in [1 .. u -> Bytes \cup {<<>>}] BY Zenon, <1>1 DEF Run
<1>3. Run(d, r, u) \in Seq(Bytes \cup {<<>>}) /\ Len(Run(d, r, u)) = u BY <1>2
<1> QED BY Zenon, <1>1, <1>3 DEF Run

(* What the queue holds: the bytes of the cells from nread on.                *)
LEMMA QueueIs ==
  ASSUME PipeAssumption, RingInv
  PROVE  /\ Queue \in Seq(Bytes \cup {<<>>}) /\ Len(Queue) = Used
         /\ \A x \in 1 .. Used : (nread + x - 1) % PIPESIZE \in Cells
                               /\ Queue[x] = data[(nread + x - 1) % PIPESIZE]
<1>1. Used \in Nat /\ nread \in Nat BY UsedIs DEF RingInv, PipeAssumption
<1>2. data \in [Cells -> Bytes \cup {<<>>}] BY Zenon DEF RingInv
<1>3. Queue = Run(data, nread, Used) BY Zenon DEF Queue, Run
<1> HIDE DEF Queue, Used
<1> QED BY Zenon, <1>1, <1>2, <1>3, RunIsSeq

(* The same of the next state.                                                *)
LEMMA QueueNext ==
  ASSUME PipeAssumption, RingInv', NEW u \in Nat, Used' = u
  PROVE  /\ Queue' \in Seq(Bytes \cup {<<>>}) /\ Len(Queue') = u
         /\ \A x \in 1 .. u : Queue'[x] = data'[(nread' + x - 1) % PIPESIZE]
<1>1. nread' \in Nat BY DEF RingInv, PipeAssumption
<1>2. data' \in [Cells -> Bytes \cup {<<>>}] BY Zenon DEF RingInv
<1>3. Queue' = Run(data', nread', u) BY Zenon DEF Queue, Run
<1> HIDE DEF Queue, Used
<1> QED BY Zenon, <1>1, <1>2, <1>3, RunIsSeq

(* Initially the ring is empty.                                               *)
LEMMA InitRing ==
  ASSUME PipeAssumption, ProcAssumption, Init
  PROVE  RingInv /\ Abstract!Init
<1>1. /\ WRAP \in Nat \ {0} /\ PIPESIZE \in Nat \ {0} /\ MaxN \in Nat
      /\ nread = 0 /\ nwrite = 0 /\ 0 \in 0 .. WRAP - 1
  BY DEF Init, PipeAssumption
<1>2. Used = 0
  <2>1. Used = IF nwrite >= nread THEN nwrite - nread ELSE nwrite - nread + WRAP
    BY Zenon, <1>1, DistIs DEF Used
  <2> QED BY <1>1, <2>1
<1>3. RingInv BY <1>1, <1>2 DEF Init, RingInv, Cells
<1>4. Queue = << >>
  <2>1. Queue \in Seq(Bytes \cup {<<>>}) /\ Len(Queue) = 0 BY Zenon, <1>2, <1>3, QueueIs
  <2> QED BY Zenon, <2>1, EmptySeqFacts
<1> QED BY Zenon, <1>3, <1>4 DEF Abstract!Init

(* Indices a wrap apart name the same cell of the ring.                       *)
LEMMA CellAgain ==
  ASSUME PipeAssumption, NEW y \in Int, NEW z \in Int, z - y = 0 \/ z - y = WRAP
  PROVE  z % PIPESIZE = y % PIPESIZE
<1>1. PIPESIZE \in Nat \ {0} /\ WRAP \in Nat /\ WRAP % PIPESIZE = 0 BY Zenon DEF PipeAssumption
<1>2. CASE z - y = 0
  <2>1. z = y BY <1>2
  <2> QED BY Zenon, <2>1
<1>3. CASE z - y = WRAP
  <2>1. z = y + WRAP BY <1>1, <1>3
  <2>2. (y + WRAP) % PIPESIZE = y % PIPESIZE BY Zenon, <1>1, SameCell
  <2> QED BY Zenon, <2>1, <2>2
<1> QED BY <1>2, <1>3

(* A byte goes in at the end of the queue, into a cell that holds no byte of  *)
(* it.                                                                        *)
LEMMA PutStep ==
  ASSUME PipeAssumption, ProcAssumption, RingInv, NEW w \in Writers, WriteByte(w)
  PROVE  RingInv' /\ Abstract!Put
<1> DEFINE b == <<w, i[w] + 1>>
           u == Used
           last == nwrite % PIPESIZE
           cell(x) == (nread + x - 1) % PIPESIZE
<1>1. /\ nread \in 0 .. WRAP - 1 /\ nwrite \in 0 .. WRAP - 1
      /\ WRAP \in Nat /\ PIPESIZE \in Nat \ {0} /\ PIPESIZE < WRAP /\ WRAP % PIPESIZE = 0
      /\ MaxN \in Nat
  BY Zenon DEF RingInv, PipeAssumption
<1>2. u \in 0 .. PIPESIZE - 1 /\ (nwrite = nread + u \/ nwrite = (nread + u) - WRAP)
  BY <1>1, UsedIs DEF WriteByte
<1>3. last \in Cells BY <1>1, ModRange DEF Cells
<1>4. nwrite' = IF nwrite + 1 < WRAP THEN nwrite + 1 ELSE (nwrite + 1) - WRAP
  BY <1>1, AddIs DEF WriteByte
<1>5. nread' = nread /\ nwrite' \in 0 .. WRAP - 1 BY <1>1, <1>4 DEF WriteByte
<1>6. Used' = u + 1
  <2>1. (nwrite' - nread') % WRAP =
          IF nwrite' >= nread' THEN nwrite' - nread' ELSE nwrite' - nread' + WRAP
    BY Zenon, <1>1, <1>5, DistIs
  <2>2. Used' = IF nwrite' >= nread' THEN nwrite' - nread' ELSE nwrite' - nread' + WRAP
    BY Zenon, <2>1 DEF Used
  <2> HIDE DEF u
  <2> QED BY <1>1, <1>2, <1>4, <1>5, <2>2
<1>7. b \in Bytes /\ i' \in [Writers -> 0 .. MaxN] BY <1>1 DEF WriteByte, RingInv, Bytes
<1>8. data' \in [Cells -> Bytes \cup {<<>>}]
  BY Zenon, <1>3, <1>7 DEF WriteByte, RingInv
<1>9. RingInv'
  <2>1. Used' <= PIPESIZE BY <1>1, <1>2, <1>6
  <2> QED BY Zenon, <1>1, <1>5, <1>7, <1>8, <2>1 DEF RingInv, WriteByte
<1>10. data'[last] = b BY Zenon, <1>3 DEF WriteByte, RingInv
<1>11. \A c \in Cells : c # last => data'[c] = data[c] BY Zenon, <1>3 DEF WriteByte, RingInv
<1>12. /\ Queue \in Seq(Bytes \cup {<<>>}) /\ Len(Queue) = u
       /\ \A x \in 1 .. u : cell(x) \in Cells /\ Queue[x] = data[cell(x)]
  BY Zenon, QueueIs
<1>13. /\ Queue' \in Seq(Bytes \cup {<<>>}) /\ Len(Queue') = u + 1
       /\ \A x \in 1 .. u + 1 : Queue'[x] = data'[cell(x)]
  <2>1. u + 1 \in Nat BY <1>2
  <2>2. /\ Queue' \in Seq(Bytes \cup {<<>>}) /\ Len(Queue') = u + 1
        /\ \A x \in 1 .. u + 1 : Queue'[x] = data'[(nread' + x - 1) % PIPESIZE]
    BY Zenon, <1>6, <1>9, <2>1, QueueNext
  <2> QED BY Zenon, <2>2, <1>5
<1>14. cell(u + 1) = last
  <2> DEFINE y == nread + (u + 1) - 1
  <2> HIDE DEF u
  <2>1. y - nwrite = 0 \/ y - nwrite = WRAP BY <1>1, <1>2
  <2>2. y \in Int /\ nwrite \in Int BY <1>1, <1>2
  <2> HIDE DEF y
  <2>3. y % PIPESIZE = nwrite % PIPESIZE BY Zenon, <2>1, <2>2, CellAgain
  <2> QED BY Zenon, <2>3 DEF y
<1>15. ASSUME NEW x \in 1 .. u PROVE cell(x) # last
  <2> DEFINE d == u - x + 1
             y == nread + x - 1
  <2>1. d \in 1 .. PIPESIZE - 1 /\ y \in Int /\ nwrite \in Int BY <1>1, <1>2
  <2>2. nwrite - y = d \/ nwrite - y = d - WRAP BY <1>1, <1>2
  <2> HIDE DEF d, y
  <2>3. y % PIPESIZE # nwrite % PIPESIZE BY Zenon, <2>1, <2>2, <1>1, CellsDiffer
  <2> QED BY Zenon, <2>3 DEF y
<1> HIDE DEF b, u, last, cell
<1>16. Queue' = Append(Queue, b)
  <2>1. b \in Bytes \cup {<<>>} /\ u \in Nat BY <1>2, <1>7
  <2>2. /\ Append(Queue, b) \in Seq(Bytes \cup {<<>>}) /\ Len(Append(Queue, b)) = u + 1
        /\ \A x \in 1 .. u : Append(Queue, b)[x] = Queue[x]
        /\ Append(Queue, b)[u + 1] = b
    BY <2>1, <1>12, AppendFacts
  <2>3. ASSUME NEW x \in 1 .. u + 1 PROVE Queue'[x] = Append(Queue, b)[x]
    <3>0. Queue'[u + 1] = b
      <4>1. u + 1 \in 1 .. u + 1 BY <2>1
      <4>2. Queue'[u + 1] = data'[cell(u + 1)] BY Zenon, <4>1, <1>13
      <4> QED BY Zenon, <4>2, <1>10, <1>14
    <3>1. CASE x = u + 1 BY Zenon, <3>0, <3>1, <2>2
    <3>2. CASE x \in 1 .. u
      <4>1. cell(x) \in Cells /\ cell(x) # last /\ Queue[x] = data[cell(x)]
        BY Zenon, <3>2, <1>12, <1>15
      <4>2. data'[cell(x)] = data[cell(x)] BY Zenon, <4>1, <1>11
      <4>3. Queue'[x] = data'[cell(x)] BY Zenon, <1>13
      <4> QED BY Zenon, <3>2, <4>1, <4>2, <4>3, <2>2
    <3>3. u \in Nat BY Zenon, <2>1
    <3>4. x = u + 1 \/ x \in 1 .. u BY <3>3
    <3> QED BY Zenon, <3>1, <3>2, <3>4
  <2> QED BY Zenon, <2>2, <2>3, <1>13, SameSeq
<1>17. Len(Queue) < PIPESIZE BY <1>1, <1>2, <1>12
<1> QED BY Zenon, <1>7, <1>9, <1>16, <1>17 DEF Abstract!Put

(* A read takes the bytes at the front of the queue.                          *)
LEMMA GetStep ==
  ASSUME PipeAssumption, RingInv, NEW r \in Readers, NEW k \in 1 .. MaxN, ReadCopy(r, k)
  PROVE  RingInv' /\ (Abstract!Get \/ Queue' = Queue)
<1> DEFINE u == Used
           j == IF u < k THEN u ELSE k
           cell(x) == (nread + x - 1) % PIPESIZE
           cell2(x) == (nread' + x - 1) % PIPESIZE
<1>1. /\ nread \in 0 .. WRAP - 1 /\ nwrite \in 0 .. WRAP - 1
      /\ WRAP \in Nat /\ PIPESIZE \in Nat \ {0} /\ PIPESIZE < WRAP /\ WRAP % PIPESIZE = 0
      /\ MaxN \in Nat
  BY Zenon DEF RingInv, PipeAssumption
<1>2. u \in 0 .. PIPESIZE /\ (nwrite = nread + u \/ nwrite = (nread + u) - WRAP)
  BY Zenon, UsedIs
<1>3. nread' = Add(nread, j) /\ nwrite' = nwrite /\ data' = data BY Zenon DEF ReadCopy
<1>4. /\ Queue \in Seq(Bytes \cup {<<>>}) /\ Len(Queue) = u
      /\ \A x \in 1 .. u : cell(x) \in Cells /\ Queue[x] = data[cell(x)]
  BY Zenon, QueueIs
<1> HIDE DEF u
<1>5. j \in 0 .. u /\ j \in 0 .. PIPESIZE BY <1>1, <1>2
<1> HIDE DEF j
<1>6. nread' = IF nread + j < WRAP THEN nread + j ELSE (nread + j) - WRAP
  BY Zenon, <1>1, <1>3, <1>5, AddIs
<1>7. nread' \in 0 .. WRAP - 1 BY <1>1, <1>5, <1>6
<1>8. Used' = u - j
  <2>1. (nwrite' - nread') % WRAP =
          IF nwrite' >= nread' THEN nwrite' - nread' ELSE nwrite' - nread' + WRAP
    BY <1>1, <1>3, <1>7, DistIs
  <2>2. Used' = IF nwrite' >= nread' THEN nwrite' - nread' ELSE nwrite' - nread' + WRAP
    BY Zenon, <2>1 DEF Used
  <2> QED BY <1>1, <1>2, <1>3, <1>5, <1>6, <2>2
<1>9. RingInv'
  <2>1. Used' <= PIPESIZE BY <1>1, <1>2, <1>5, <1>8
  <2> QED BY Zenon, <1>1, <1>3, <1>7, <2>1 DEF RingInv, ReadCopy
<1>10. u - j \in Nat /\ u \in Nat /\ j \in Nat /\ j <= u BY <1>2, <1>5
<1>11. /\ Queue' \in Seq(Bytes \cup {<<>>}) /\ Len(Queue') = u - j
       /\ \A x \in 1 .. u - j : Queue'[x] = data[cell2(x)]
  BY Zenon, <1>3, <1>8, <1>9, <1>10, QueueNext
<1>12. ASSUME NEW x \in 1 .. u - j PROVE Queue'[x] = Queue[x + j]
  <2> DEFINE y == nread' + x - 1
             z == nread + (x + j) - 1
  <2>1. y \in Int /\ z \in Int BY <1>1, <1>7, <1>10
  <2>2. z - y = 0 \/ z - y = WRAP BY <1>1, <1>6, <1>10
  <2>3. x + j \in 1 .. u BY <1>10
  <2> HIDE DEF y, z
  <2>4. z % PIPESIZE = y % PIPESIZE BY Zenon, <2>1, <2>2, CellAgain
  <2>5. cell2(x) = cell(x + j) BY Zenon, <2>4 DEF y, z
  <2> HIDE DEF cell, cell2
  <2>6. Queue[x + j] = data[cell(x + j)] BY Zenon, <2>3, <1>4
  <2> QED BY Zenon, <2>5, <2>6, <1>11
<1> HIDE DEF cell, cell2
<1>13. Queue' = SubSeq(Queue, j + 1, Len(Queue))
  <2> DEFINE s == SubSeq(Queue, j + 1, u)
  <2>1. s \in Seq(Bytes \cup {<<>>}) /\ Len(s) = u - j
    BY <1>4, <1>10, SubSeqFacts
  <2>2. \A x \in 1 .. u - j : s[x] = Queue[x + j]
    BY <1>4, <1>10, SubSeqFacts
  <2> HIDE DEF s
  <2>3. Queue' = s BY Zenon, <2>1, <2>2, <1>11, <1>12, SameSeq
  <2> QED BY Zenon, <2>3, <1>4 DEF s
<1>14. CASE j = 0
  <2>1. Len(Queue') = Len(Queue) /\ \A x \in 1 .. Len(Queue') : Queue'[x] = Queue[x]
    <3>1. u - j = u BY <1>10, <1>14
    <3>2. \A x \in 1 .. u : Queue'[x] = Queue[x + j] BY Zenon, <3>1, <1>12
    <3>3. \A x \in 1 .. u : x + j = x BY <1>14
    <3> QED BY <3>1, <3>2, <3>3, <1>4, <1>11
  <2>2. Queue' = Queue BY Zenon, <2>1, <1>4, <1>11, SameSeq
  <2> QED BY Zenon, <1>9, <2>2
<1>15. CASE j # 0
  <2>1. j \in 1 .. Len(Queue) BY <1>4, <1>10, <1>15
  <2> QED BY Zenon, <2>1, <1>9, <1>13 DEF Abstract!Get
<1> QED BY Zenon, <1>14, <1>15

(* Every step of the pipe puts a byte in, takes bytes out or leaves the queue *)
(* as it is.                                                                  *)
LEMMA NextRing ==
  ASSUME PipeAssumption, ProcAssumption, RingInv, [Next]_vars
  PROVE  RingInv' /\ [Abstract!Put \/ Abstract!Get]_Queue
<1>1. ASSUME UNCHANGED <<data, nread, nwrite>>,
             n' \in [Writers -> 0 .. MaxN], i' \in [Writers -> 0 .. MaxN]
      PROVE  RingInv' /\ Queue' = Queue
  <2>1. Used' = Used BY Zenon, <1>1 DEF Used
  <2>2. Queue' = Queue BY Zenon, <1>1, <2>1 DEF Queue
  <2> QED BY Zenon, <1>1, <2>1, <2>2 DEF RingInv
<1>2. n \in [Writers -> 0 .. MaxN] /\ i \in [Writers -> 0 .. MaxN] /\ MaxN \in Nat
  BY Zenon DEF RingInv, PipeAssumption
<1>3. ASSUME NEW w \in Writers, Return(w)
      PROVE  n' \in [Writers -> 0 .. MaxN] /\ i' \in [Writers -> 0 .. MaxN]
  BY <1>2, <1>3 DEF Return
<1>4. ASSUME NEW p \in Parties, Step(p) PROVE RingInv' /\ [Abstract!Put \/ Abstract!Get]_Queue
  <2>1. CASE Acquire(p) \/ Sleep(p) BY Zenon, <2>1, <1>1, <1>2 DEF Acquire, Sleep, pipe
  <2>2. ASSUME p \in Writers, WriteByte(p) PROVE RingInv' /\ Abstract!Put BY Zenon, <2>2, PutStep
  <2>3. ASSUME p \in Writers, WriteFail(p) \/ WriteFull(p) \/ WriteDone(p)
        PROVE  RingInv' /\ Queue' = Queue
    BY Zenon, <2>3, <1>1, <1>2, <1>3 DEF WriteFail, WriteFull, WriteDone, pipe
  <2>4. CASE ReadEmpty(p) BY Zenon, <2>4, <1>1, <1>2 DEF ReadEmpty, pipe
  <2>5. ASSUME p \in Readers, NEW k \in 1 .. MaxN, ReadCopy(p, k)
        PROVE  RingInv' /\ (Abstract!Get \/ Queue' = Queue)
    BY Zenon, <2>5, GetStep
  <2> QED BY Zenon, <1>4, <2>1, <2>2, <2>3, <2>4, <2>5 DEF Step
<1>5. ASSUME NEW p \in Parties, Close(p) \/ Kill(p) PROVE RingInv' /\ Queue' = Queue
  BY Zenon, <1>5, <1>1, <1>2 DEF Close, Kill, pipe
<1>6. ASSUME NEW w \in Writers, WriteCall(w) PROVE RingInv' /\ Queue' = Queue
  BY <1>6, <1>1, <1>2 DEF WriteCall, pipe
<1>7. ASSUME NEW r \in Readers, ReadCall(r) PROVE RingInv' /\ Queue' = Queue
  BY Zenon, <1>7, <1>1, <1>2 DEF ReadCall, pipe
<1>8. CASE UNCHANGED vars BY Zenon, <1>8, <1>1, <1>2 DEF vars, pipe
<1> QED BY Zenon, <1>4, <1>5, <1>6, <1>7, <1>8 DEF Next, AllClosed

(* A pipe is a bounded first-in first-out queue of bytes: for any size, any   *)
(* number of readers and writers and across the wrap of the 32-bit counters,  *)
(* no byte is lost, repeated, reordered or overwritten (pipewrite 84-94,      *)
(* piperead 113-117).                                                         *)
THEOREM ImplementsFifo ==
  ASSUME PipeAssumption, ProcAssumption
  PROVE  Spec => PipeIsFifo
<1>1. Init => RingInv /\ Abstract!Init BY Zenon, InitRing
<1>2. RingInv /\ [Next]_vars => RingInv' /\ [Abstract!Put \/ Abstract!Get]_Queue BY Zenon, NextRing
<1> QED BY <1>1, <1>2, PTL DEF Spec, PipeIsFifo, Abstract!Spec
=============================================================================
