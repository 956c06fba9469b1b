------------------------------- MODULE FileData -------------------------------
(***************************************************************************)
(* Contents of files: block allocation, bmap, itrunc, readi and writei of  *)
(* fs.c, fileread and filewrite of file.c, on a file system that mkfs.c    *)
(* built.  A byte and a block number both fill one word of a block, so an  *)
(* indirect block names BSIZE blocks.                                      *)
(*                                                                         *)
(* Processes write to different files at once; on one file they take turns *)
(* at its lock, between the chunks of filewrite.  Each file has one struct *)
(* file, which all processes share (as after fork).                        *)
(***************************************************************************)
EXTENDS Integers, FiniteSets, Sequences, SequencesExt

CONSTANTS
  Procs,         \* numbers: process p writes bytes p + 1
  Files,         \* numbers
  Root,          \* the file that is mkfs's root directory
  NBLOCKS,       \* data blocks, numbered from 1
  BSIZE, NDIRECT,
  BPB,           \* bits in a bitmap block
  MAXOPBLOCKS,
  UINT,          \* uints are modulo UINT
  MkfsSizes,     \* bytes that mkfs put into each file
  Writes, Reads, \* the calls made: <<process, file, n>>
  Nobody

Blocks == 1 .. NBLOCKS
NINDIRECT == BSIZE
MAXFILE == NDIRECT + NINDIRECT
CeilTo(n) == ((n \div BSIZE) + 1) * BSIZE
Bytes == {p + 1 : p \in Procs} \cup {0, 1}  \* mkfs writes 1

(* mkfs appends to Root entry by entry and then rounds its size up past the
   last one: a size that is already a multiple of BSIZE would gain a block
   that was never allocated *)
FileDataAssumption ==
  /\ Root \in Files /\ MkfsSizes \in [Files -> 0 .. MAXFILE * BSIZE]
  /\ MkfsSizes[Root] % BSIZE # 0
  /\ UINT > MAXFILE * BSIZE

VARIABLES
  fs,        \* bits: the bitmap; data: the blocks; size and addrs of each inode
  unsaved,   \* files whose addrs in memory are newer than on disk
  off,       \* f->off
  holder,    \* the inode's lock
  pc, io,    \* per process: its read or write under way
  panicked

vars == <<fs, unsaved, off, holder, pc, io, panicked>>

Idle == [file |-> Root, left |-> 0, at |-> 0, n |-> 0, tot |-> 0, got |-> << >>, logged |-> {}]
Word == 0 .. BSIZE - 1
Zero == [k \in Word |-> 0]

min(a, b) == IF a < b THEN a ELSE b

-----------------------------------------------------------------------------
(* blocks *)

Free(d) == {b \in Blocks : ~d.bits[b]}
FirstFree(d) == CHOOSE b \in Free(d) : \A c \in Free(d) : b <= c

(* marked, and zeroed by bzero *)
NotZeroed(d) == [d EXCEPT !.bits[FirstFree(d)] = TRUE]
balloc(d) == [d EXCEPT !.bits[FirstFree(d)] = TRUE, !.data[FirstFree(d)] = Zero]

Slot(d, f, i) ==
  IF d.addrs[f][i] # 0 THEN d ELSE [balloc(d) EXCEPT !.addrs[f][i] = FirstFree(d)]

(* bmap(f, bn): the disk with the block allocated, and where it is *)
bmap(d, f, bn) ==
  IF bn < NDIRECT THEN Slot(d, f, bn)
  ELSE LET e == Slot(d, f, NDIRECT)
           a == e.addrs[f][NDIRECT]
       IN IF e.data[a][bn - NDIRECT] # 0 THEN e
          ELSE [balloc(e) EXCEPT !.data[a][bn - NDIRECT] = FirstFree(e)]
Addr(d, f, bn) ==
  IF bn < NDIRECT THEN d.addrs[f][bn] ELSE d.data[d.addrs[f][NDIRECT]][bn - NDIRECT]

(* how many blocks bmap takes *)
Needs(d, f, bn) ==
  IF bn < NDIRECT THEN IF d.addrs[f][bn] = 0 THEN 1 ELSE 0
  ELSE IF d.addrs[f][NDIRECT] = 0 THEN 2 ELSE IF Addr(d, f, bn) = 0 THEN 1 ELSE 0

(* the blocks of a file: its data, and its indirect block *)
Direct(d, f) == {d.addrs[f][i] : i \in 0 .. NDIRECT - 1} \ {0}
Indirect(d, f) == {d.addrs[f][NDIRECT]} \ {0}
Listed(d, f) == UNION {{d.data[a][j] : j \in Word} : a \in Indirect(d, f)} \ {0}

(* itrunc frees them all: bfree clears the bit of an allocated block *)
KeepsIndirect(d, f) == Direct(d, f) \cup Listed(d, f)
Freed(d, f) == Direct(d, f) \cup Listed(d, f) \cup Indirect(d, f)
itrunc(d, f) ==
  [d EXCEPT !.bits = [b \in Blocks |-> d.bits[b] /\ b \notin Freed(d, f)],
            !.addrs[f] = [i \in 0 .. NDIRECT |-> 0], !.size[f] = 0]

(* memmove into block a, at file offset at *)
Store(d, a, at, m, v) ==
  LET from == at % BSIZE
  IN [d EXCEPT !.data[a] = [k \in Word |-> IF k \in from .. from + m - 1 THEN v ELSE @[k]]]

(* what writing to block bn logs, between d and e *)
Logs(d, e, f, bn) ==
  LET new == {b \in Blocks : e.bits[b] /\ ~d.bits[b]}
  IN {<<"bit", b \div BPB>> : b \in new} \cup {<<"data", b>> : b \in new \cup {Addr(e, f, bn)}}
     \cup (IF bn >= NDIRECT /\ new # {} THEN {<<"data", e.addrs[f][NDIRECT]>>} ELSE {})

-----------------------------------------------------------------------------
(* mkfs: iappend, with a bmap of its own, takes blocks in order; balloc marks as many *)

Blank == [data |-> [b \in Blocks |-> Zero], size |-> [f \in Files |-> 0],
          addrs |-> [f \in Files |-> [i \in 0 .. NDIRECT |-> 0]], freeblock |-> 1]

Taken(d, f, i) ==
  IF d.addrs[f][i] # 0 THEN d
  ELSE [d EXCEPT !.addrs[f][i] = d.freeblock, !.freeblock = @ + 1]

(* one byte *)
iappend(d, f) ==
  LET fbn == d.size[f] \div BSIZE
      g == Taken(d, f, NDIRECT)
      a == g.addrs[f][NDIRECT]
      e == IF fbn < NDIRECT THEN Taken(d, f, fbn)
           ELSE IF g.data[a][fbn - NDIRECT] # 0 THEN g
           ELSE [g EXCEPT !.data[a][fbn - NDIRECT] = g.freeblock, !.freeblock = @ + 1]
  IN [Store(e, Addr(e, f, fbn), d.size[f], 1, 1) EXCEPT !.size[f] = @ + 1]

Marked(d) == [bits |-> [b \in Blocks |-> b < d.freeblock],
              data |-> d.data, size |-> d.size, addrs |-> d.addrs]

Mkfs ==
  LET more(d) == {f \in Files : d.size[f] < MkfsSizes[f]}
      image[k \in Nat] ==
        IF k = 0 THEN Blank
        ELSE LET d == image[k - 1]
             IN IF more(d) = {} THEN d
                ELSE iappend(d, CHOOSE f \in more(d) : \A g \in more(d) : f <= g)
      d == image[Cardinality(Files) * MAXFILE * BSIZE]
  IN Marked([d EXCEPT !.size[Root] = CeilTo(@)])

Init ==
  /\ fs = Mkfs
  /\ unsaved = {} /\ off = [f \in Files |-> 0] /\ holder = [f \in Files |-> Nobody]
  /\ pc = [p \in Procs |-> "idle"] /\ io = [p \in Procs |-> Idle]
  /\ panicked = "no"

-----------------------------------------------------------------------------
Set(p, l, r) == pc' = [pc EXCEPT ![p] = l] /\ io' = [io EXCEPT ![p] = r]
Take(f, p) == holder[f] = Nobody /\ holder' = [holder EXCEPT ![f] = p]
Release(f) == holder' = [holder EXCEPT ![f] = Nobody]
Unused(f) == \A p \in Procs : pc[p] = "idle" \/ io[p].file # f
Panic(why) == panicked' = why /\ UNCHANGED <<fs, unsaved, off, holder, pc, io>>

(* the chunks filewrite cuts a write into *)
max == ((MAXOPBLOCKS - 1 - 1 - 2) \div 2) * BSIZE

FileWrite(p, f, n) ==
  /\ pc[p] = "idle"
  /\ Set(p, "chunk", [Idle EXCEPT !.file = f, !.left = n])
  /\ UNCHANGED <<fs, unsaved, off, holder, panicked>>

(* writei refuses a chunk that would overflow or pass MAXFILE; filewrite gives up *)
Refused(at, n, size) ==
  at > size \/ (at + n) % UINT < at \/ at + n > MAXFILE * BSIZE

(* begin_op, ilock, and the checks of writei *)
Chunk(p) ==
  LET f == io[p].file
      n1 == min(io[p].left, max)
  IN /\ pc[p] = "chunk" /\ holder[f] = Nobody
     /\ IF Refused(off[f], n1, fs.size[f])
        THEN Set(p, "idle", Idle) /\ UNCHANGED holder
        ELSE Set(p, "writei", [io[p] EXCEPT !.at = off[f], !.n = n1, !.tot = 0, !.logged = {}])
             /\ Take(f, p)
     /\ UNCHANGED <<fs, unsaved, off, panicked>>

(* one turn of writei's loop *)
Writei(p) ==
  LET r == io[p]
      f == r.file
      bn == r.at \div BSIZE
      m == min(r.n - r.tot, BSIZE - (r.at % BSIZE))
      e == bmap(fs, f, bn)
  IN /\ pc[p] = "writei" /\ r.tot < r.n
     /\ IF bn >= MAXFILE THEN Panic("no block")
        ELSE IF Needs(fs, f, bn) > Cardinality(Free(fs)) THEN Panic("out of blocks")
        ELSE /\ fs' = Store(e, Addr(e, f, bn), r.at, m, p + 1)
             /\ unsaved' = IF e.addrs[f] # fs.addrs[f] THEN unsaved \cup {f} ELSE unsaved
             /\ Set(p, "writei", [r EXCEPT !.tot = @ + m, !.at = @ + m,
                                 !.logged = @ \cup Logs(fs, e, f, bn)])
             /\ UNCHANGED <<off, holder, panicked>>

(* writei's end: a file that grew is saved; f->off, iunlock, end_op *)
Grew(r) == r.n > 0 /\ r.at > fs.size[r.file]
iupdate(f) == unsaved \ {f}

WriteEnd(p) ==
  LET r == io[p]
      f == r.file
  IN /\ pc[p] = "writei" /\ r.tot = r.n
     /\ fs' = IF Grew(r) THEN [fs EXCEPT !.size[f] = r.at] ELSE fs
     /\ unsaved' = IF Grew(r) THEN iupdate(f) ELSE unsaved
     /\ off' = [off EXCEPT ![f] = @ + r.n]
     /\ Release(f)
     /\ IF r.left = r.n THEN Set(p, "idle", Idle)
        ELSE Set(p, "chunk", [Idle EXCEPT !.file = f, !.left = r.left - r.n])
     /\ UNCHANGED panicked

(* fileread: ilock, and the checks of readi, which shorten n to the end of the file *)
Shortened(at, n, size) == IF at + n > size THEN size - at ELSE n

FileRead(p, f, n) ==
  /\ pc[p] = "idle" /\ holder[f] = Nobody
  /\ ~(off[f] > fs.size[f] \/ (off[f] + n) % UINT < off[f])
  /\ Take(f, p)
  /\ Set(p, "readi", [Idle EXCEPT !.file = f, !.at = off[f],
                                  !.n = Shortened(off[f], n, fs.size[f])])
  /\ UNCHANGED <<fs, unsaved, off, panicked>>

(* one turn of readi's loop.  Its bmap would allocate and log a missing block: a
   panic of log_write, since a read is not inside a transaction *)
Readi(p) ==
  LET r == io[p]
      f == r.file
      bn == r.at \div BSIZE
      m == min(r.n - r.tot, BSIZE - (r.at % BSIZE))
  IN /\ pc[p] = "readi" /\ r.tot < r.n
     /\ IF bn >= MAXFILE \/ Needs(fs, f, bn) > 0 THEN Panic("no block")
        ELSE /\ Set(p, "readi", [r EXCEPT !.tot = @ + m, !.at = @ + m, !.got = @ \o
                  [k \in 1 .. m |-> fs.data[Addr(fs, f, bn)][(r.at % BSIZE) + k - 1]]])
             /\ UNCHANGED <<fs, unsaved, off, holder, panicked>>

ReadEnd(p) ==
  LET r == io[p]
  IN /\ pc[p] = "readi" /\ r.tot = r.n
     /\ off' = [off EXCEPT ![r.file] = @ + r.n]
     /\ Release(r.file) /\ Set(p, "idle", Idle)
     /\ UNCHANGED <<fs, unsaved, panicked>>

(* open again; the last iput of a removed file, whose name is then made anew *)
Reopen(f) ==
  /\ Unused(f) /\ off[f] # 0
  /\ off' = [off EXCEPT ![f] = 0]
  /\ UNCHANGED <<fs, unsaved, holder, pc, io, panicked>>
Recreate(f) ==
  /\ Unused(f) /\ f # Root /\ fs.size[f] > 0
  /\ fs' = itrunc(fs, f) /\ unsaved' = iupdate(f)
  /\ off' = [off EXCEPT ![f] = 0]
  /\ UNCHANGED <<holder, pc, io, panicked>>

Step(p) ==
  \/ \E c \in Writes : c[1] = p /\ FileWrite(p, c[2], c[3])
  \/ \E c \in Reads : c[1] = p /\ FileRead(p, c[2], c[3])
  \/ Chunk(p) \/ Writei(p) \/ WriteEnd(p) \/ Readi(p) \/ ReadEnd(p)
Next ==
  /\ panicked = "no"
  /\ (\E p \in Procs : Step(p)) \/ (\E f \in Files : Reopen(f) \/ Recreate(f))
Spec == Init /\ [][Next]_vars

-----------------------------------------------------------------------------
TypeOK ==
  /\ fs.bits \in [Blocks -> BOOLEAN] /\ fs.data \in [Blocks -> [Word -> Nat]]
  /\ fs.size \in [Files -> 0 .. MAXFILE * BSIZE]
  /\ fs.addrs \in [Files -> [0 .. NDIRECT -> Blocks \cup {0}]]
  /\ unsaved \subseteq Files /\ \A f \in Files : off[f] \in 0 .. fs.size[f]
  /\ holder \in [Files -> Procs \cup {Nobody}]
  /\ pc \in [Procs -> {"idle", "chunk", "writei", "readi"}]
  /\ panicked \in {"no", "out of blocks", "no block"}

(* balloc, bmap, itrunc and mkfs agree on who owns a block: the bitmap marks
   exactly the blocks that some inode lists, and each is listed once *)
Places ==
  {<<"addr", f, i>> : f \in Files, i \in 0 .. NDIRECT}
    \cup {<<"word", f, j>> : f \in {g \in Files : fs.addrs[g][NDIRECT] # 0}, j \in Word}
At(x) == IF x[1] = "addr" THEN fs.addrs[x[2]][x[3]] ELSE fs.data[fs.addrs[x[2]][NDIRECT]][x[3]]
EachBlockOwnedOnce ==
  LET used == {x \in Places : At(x) # 0}
  IN /\ \A x, y \in used : x # y => At(x) # At(y)
     /\ {b \in Blocks : fs.bits[b]} = {At(x) : x \in used}

(* a file's bytes, as readi finds them *)
Text(f) == [k \in 1 .. fs.size[f] |->
  fs.data[Addr(fs, f, (k - 1) \div BSIZE)][(k - 1) % BSIZE]]

(* contents behave as arrays of bytes, whatever blocks they sit in: a chunk of a write
   changes the bytes it is for, all of them, and no byte of that or any other file
   besides *)
WriteEnds(f) ==
  LET r == io[holder[f]]
  IN IF holder[f] # Nobody /\ pc[holder[f]] = "writei" THEN r.at - r.tot + r.n ELSE off[f]
Array == INSTANCE ByteFile WITH text <- [f \in Files |-> Text(f)],
                                end <- [f \in Files |-> WriteEnds(f)]
IsByteFile == Array!Spec

(* a read returns what the file held from its offset on, up to its end *)
ReadsWhatIsThere ==
  \A p \in Procs : pc[p] = "readi" =>
    /\ off[io[p].file] + io[p].tot <= fs.size[io[p].file]
    /\ io[p].got = SubSeq(Text(io[p].file), off[io[p].file] + 1, off[io[p].file] + io[p].tot)

(* file.c on filewrite: chunks are cut "to avoid exceeding the maximum log
   transaction size, including i-node, indirect block, allocation blocks": no
   chunk logs more than MAXOPBLOCKS, the inode counted *)
ChunkFitsLog == \A p \in Procs : Cardinality(io[p].logged) + 1 <= MAXOPBLOCKS

(* fs.c on iupdate, "Must be called after every change to an ip->xxx field that
   lives on disk": writei saves addrs only when the file grew, which is enough *)
InodeSaved == \A f \in Files : holder[f] = Nobody => f \notin unsaved

(* no read comes upon a block that is not there: bmap's panic, or log_write's *)
NoMissingBlock == panicked # "no block"
=============================================================================
