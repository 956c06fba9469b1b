-------------------------------- MODULE Files --------------------------------
(***************************************************************************)
(* Open files: the file table of file.c, descriptors and the system calls  *)
(* of sysfile.c on them, pipealloc and pipeclose, and the copying and      *)
(* closing of descriptors in fork and exit.  A step is one stretch under   *)
(* ftable.lock, a pipe's lock, or none; processes interleave between them. *)
(* What flows through a pipe is module Pipe, what iput does module Inode.  *)
(***************************************************************************)
EXTENDS Integers, FiniteSets, Sequences

CONSTANTS Procs, NFILE, NOFILE, Pipes, Nothing

Slots == 1 .. NFILE     \* struct file
Fds == 0 .. NOFILE - 1

FilesAssumption == NFILE \in Nat /\ NOFILE \in Nat /\ Nothing \notin Pipes

VARIABLES
  ftable,   \* ref, type, pipe and writable of each struct file
  pipes,    \* the pipes: allocated, readopen, writeopen
  ofile,    \* of each process: its descriptors, 0 for none
  live,     \* processes there are
  pc,       \* what a process is doing
  f0, f1,   \* files that a call under way holds
  closing,  \* files it has still to fileclose
  ff        \* fileclose's copy of a pipe end whose last reference is gone

tables == <<ftable, pipes>>
procVars == <<ofile, live, pc, f0, f1, closing, ff>>
vars == <<tables, procVars>>

NoFile == [ref |-> 0, type |-> "none", pipe |-> Nothing, writable |-> FALSE]
NoEnd == [pipe |-> Nothing, writable |-> FALSE]

TypeOK ==
  /\ ftable \in [Slots -> [ref : Nat, type : {"none", "inode", "pipe"},
                           pipe : Pipes \cup {Nothing}, writable : BOOLEAN]]
  /\ pipes \in [Pipes -> [alloc : BOOLEAN, readopen : BOOLEAN, writeopen : BOOLEAN]]
  /\ ofile \in [Procs -> [Fds -> Slots \cup {0}]] /\ live \subseteq Procs
  /\ pc \in [Procs -> {"user", "open", "opened", "pipe1", "pipe2", "pipe3"}]
  /\ f0 \in [Procs -> Slots \cup {0}] /\ f1 \in [Procs -> Slots \cup {0}]
  /\ \A p \in Procs : closing[p] \in Seq(Slots)
  /\ ff \in [Procs -> [pipe : Pipes \cup {Nothing}, writable : BOOLEAN]]

(* one process (userinit, init.c), with one file open: the console, on the first descriptors *)
InitWith(first, fds) ==
  /\ ftable = [s \in Slots |-> IF s = 1
       THEN [NoFile EXCEPT !.ref = Cardinality(fds), !.type = "inode"] ELSE NoFile]
  /\ pipes = [q \in Pipes |-> [alloc |-> FALSE, readopen |-> FALSE, writeopen |-> FALSE]]
  /\ ofile = [p \in Procs |-> [d \in Fds |-> IF p = first /\ d \in fds THEN 1 ELSE 0]]
  /\ live = {first}
  /\ pc = [p \in Procs |-> "user"]
  /\ f0 = [p \in Procs |-> 0] /\ f1 = f0
  /\ closing = [p \in Procs |-> << >>] /\ ff = [p \in Procs |-> NoEnd]

-----------------------------------------------------------------------------
Set(f, p, v) == f' = [f EXCEPT ![p] = v]

(* filealloc: the first free struct file.  Its other fields are left as they are *)
FreeFiles == {s \in Slots : ftable[s].ref = 0}
FirstFile == CHOOSE s \in FreeFiles : \A t \in FreeFiles : s <= t
filealloc == [ftable EXCEPT ![FirstFile].ref = 1]

(* fdalloc: the lowest free descriptor *)
FreeFds(p) == {d \in Fds : ofile[p][d] = 0}
fdalloc(p) == CHOOSE d \in FreeFds(p) : \A e \in FreeFds(p) : d <= e

(* p is between system calls *)
Ready(p) == p \in live /\ pc[p] = "user" /\ closing[p] = << >> /\ ff[p] = NoEnd

(* sys_open: a struct file, then a descriptor for it; its type, after iunlock and end_op *)
Open(p) ==
  /\ Ready(p) /\ FreeFiles # {}
  /\ ftable' = filealloc /\ Set(f0, p, FirstFile) /\ Set(pc, p, "open")
  /\ UNCHANGED <<pipes, ofile, live, f1, closing, ff>>
OpenFd(p) ==
  /\ pc[p] = "open"
  /\ IF FreeFds(p) # {}
     THEN /\ ofile' = [ofile EXCEPT ![p][fdalloc(p)] = f0[p]]
          /\ Set(pc, p, "opened") /\ UNCHANGED <<f0, closing>>
     ELSE /\ Set(closing, p, <<f0[p]>>) /\ Set(f0, p, 0) /\ Set(pc, p, "user")
          /\ UNCHANGED ofile
  /\ UNCHANGED <<tables, live, f1, ff>>
OpenEnd(p) ==
  /\ pc[p] = "opened"
  /\ ftable' = [ftable EXCEPT ![f0[p]].type = "inode"]
  /\ Set(f0, p, 0) /\ Set(pc, p, "user")
  /\ UNCHANGED <<pipes, ofile, live, f1, closing, ff>>

filedup(s) == [ftable EXCEPT ![s].ref = @ + 1]

(* sys_dup: the descriptor, and its count *)
Dup(p, d) ==
  /\ Ready(p) /\ ofile[p][d] # 0 /\ FreeFds(p) # {}
  /\ ofile' = [ofile EXCEPT ![p][fdalloc(p)] = ofile[p][d]]
  /\ ftable' = filedup(ofile[p][d])
  /\ UNCHANGED <<pipes, live, pc, f0, f1, closing, ff>>

Close(p, d) ==
  /\ Ready(p) /\ ofile[p][d] # 0
  /\ ofile' = [ofile EXCEPT ![p][d] = 0] /\ Set(closing, p, <<ofile[p][d]>>)
  /\ UNCHANGED <<tables, live, pc, f0, f1, ff>>

(* fileclose (it panics at a count of 0: TypeOK): the count, and at 0 a copy for the close itself, outside the lock *)
Closed(s) == [ftable EXCEPT ![s] = IF @.ref = 1 THEN NoFile ELSE [@ EXCEPT !.ref = @ - 1]]

Fileclose(p) ==
  /\ closing[p] # << >> /\ ff[p] = NoEnd
  /\ LET s == Head(closing[p])
     IN /\ ftable' = Closed(s)
        /\ ff' = IF ftable[s].ref = 1 /\ ftable[s].type = "pipe"
                 THEN [ff EXCEPT ![p] = [pipe |-> ftable[s].pipe, writable |-> ftable[s].writable]]
                 ELSE ff
  /\ Set(closing, p, Tail(closing[p]))
  /\ UNCHANGED <<pipes, ofile, live, pc, f0, f1>>

(* pipeclose: one end; with the other one closed too, kfree *)
Shut(e, w) == [readopen |-> e.readopen /\ w, writeopen |-> e.writeopen /\ ~w]
Pipeclose(p) ==
  LET e == pipes[ff[p].pipe]
      s == Shut(e, ff[p].writable)
  IN /\ ff[p] # NoEnd
     /\ pipes' = [pipes EXCEPT ![ff[p].pipe] =
          [alloc |-> s.readopen \/ s.writeopen, readopen |-> s.readopen, writeopen |-> s.writeopen]]
     /\ Set(ff, p, NoEnd)
     /\ UNCHANGED <<ftable, ofile, live, pc, f0, f1, closing>>

(* pipealloc: two files and a page; "bad" closes what it has *)
Pipe(p) ==
  /\ Ready(p) /\ FreeFiles # {}
  /\ ftable' = filealloc /\ Set(f0, p, FirstFile) /\ Set(pc, p, "pipe1")
  /\ UNCHANGED <<pipes, ofile, live, f1, closing, ff>>
PipeSecond(p) ==
  /\ pc[p] = "pipe1"
  /\ IF FreeFiles # {}
     THEN ftable' = filealloc /\ Set(f1, p, FirstFile) /\ Set(pc, p, "pipe2") /\ UNCHANGED <<f0, closing>>
     ELSE Set(closing, p, <<f0[p]>>) /\ Set(f0, p, 0) /\ Set(pc, p, "user") /\ UNCHANGED <<ftable, f1>>
  /\ UNCHANGED <<pipes, ofile, live, ff>>

CloseBoth(p) ==
  /\ Set(closing, p, <<f0[p], f1[p]>>) /\ Set(f0, p, 0) /\ Set(f1, p, 0) /\ Set(pc, p, "user")
End(s, q, w) == [ftable[s] EXCEPT !.type = "pipe", !.pipe = q, !.writable = w]

PipeThird(p) ==
  /\ pc[p] = "pipe2"
  /\ \/ \E q \in Pipes :
          /\ ~pipes[q].alloc
          /\ pipes' = [pipes EXCEPT ![q] = [alloc |-> TRUE, readopen |-> TRUE, writeopen |-> TRUE]]
          /\ ftable' = [ftable EXCEPT ![f0[p]] = End(f0[p], q, FALSE), ![f1[p]] = End(f1[p], q, TRUE)]
          /\ Set(pc, p, "pipe3") /\ UNCHANGED <<f0, f1, closing>>
     \/ (\A q \in Pipes : pipes[q].alloc) /\ CloseBoth(p) /\ UNCHANGED tables
  /\ UNCHANGED <<ofile, live, ff>>

(* sys_pipe's two descriptors, or neither *)
KeepsFirst(p) == [ofile EXCEPT ![p] = [d \in Fds |->
  IF FreeFds(p) # {} /\ d = fdalloc(p) THEN f0[p] ELSE @[d]]]
NoFds(p) == ofile
PipeFds(p) ==
  /\ pc[p] = "pipe3"
  /\ IF Cardinality(FreeFds(p)) >= 2
     THEN /\ LET a == fdalloc(p)
                 b == CHOOSE d \in FreeFds(p) \ {a} : \A e \in FreeFds(p) \ {a} : d <= e
             IN ofile' = [ofile EXCEPT ![p][a] = f0[p], ![p][b] = f1[p]]
          /\ Set(f0, p, 0) /\ Set(f1, p, 0) /\ Set(pc, p, "user") /\ UNCHANGED closing
     ELSE CloseBoth(p) /\ ofile' = NoFds(p)
  /\ UNCHANGED <<tables, live, ff>>

(* fork: filedup of every descriptor; its own keep them open meanwhile *)
Count(p, s) == Cardinality({d \in Fds : ofile[p][d] = s})
Fork(p, q) ==
  /\ Ready(p) /\ q \notin live
  /\ ofile' = [ofile EXCEPT ![q] = ofile[p]]
  /\ ftable' = [s \in Slots |-> [ftable[s] EXCEPT !.ref = @ + Count(p, s)]]
  /\ live' = live \cup {q}
  /\ UNCHANGED <<pipes, pc, f0, f1, closing, ff>>

(* exit: close every descriptor, in order, then go *)
ExitClose(p) ==
  /\ Ready(p) /\ \E d \in Fds : ofile[p][d] # 0
  /\ LET d == CHOOSE d \in Fds : ofile[p][d] # 0 /\ \A e \in 0 .. d - 1 : ofile[p][e] = 0
     IN ofile' = [ofile EXCEPT ![p][d] = 0] /\ Set(closing, p, <<ofile[p][d]>>)
  /\ UNCHANGED <<tables, live, pc, f0, f1, ff>>
Exit(p) ==
  /\ Ready(p) /\ \A d \in Fds : ofile[p][d] = 0
  /\ live' = live \ {p}
  /\ UNCHANGED <<tables, ofile, pc, f0, f1, closing, ff>>

(* the steps of a call under way *)
InCall(p) ==
  \/ OpenFd(p) \/ OpenEnd(p) \/ Fileclose(p) \/ Pipeclose(p)
  \/ PipeSecond(p) \/ PipeThird(p) \/ PipeFds(p)

Init == \E p \in Procs : InitWith(p, Fds \cap {0})
Step(p) ==
  \/ Open(p) \/ Pipe(p) \/ InCall(p) \/ ExitClose(p) \/ Exit(p)
  \/ (\E d \in Fds : Dup(p, d) \/ Close(p, d)) \/ (\E q \in Procs : Fork(p, q))
Next == \E p \in Procs : Step(p)
Spec == Init /\ [][Next]_vars

-----------------------------------------------------------------------------
(* ref counts exactly the descriptors of all processes and the pointers of calls
   under way that have no descriptor yet: open, pipe and dup on their error paths,
   fork and exit included *)
Holders(s) ==
  Cardinality({x \in Procs \X Fds : ofile[x[1]][x[2]] = s})
  + Cardinality({p \in Procs : f0[p] = s /\ pc[p] # "opened"}) + Cardinality({p \in Procs : f1[p] = s})
  + Cardinality({x \in Procs \X (1 .. 2) : x[2] <= Len(closing[x[1]]) /\ closing[x[1]][x[2]] = s})
FileRefsExact == \A s \in Slots : ftable[s].ref = Holders(s)

(* an end of a pipe is open as long as someone can still use it, and no longer: a
   reader sees end of file exactly when the last writer is gone *)
HasEnd(q, w) ==
  \/ \E s \in Slots : ftable[s].ref > 0 /\ ftable[s].type = "pipe"
                        /\ ftable[s].pipe = q /\ ftable[s].writable = w
  \/ \E p \in Procs : ff[p] = [pipe |-> q, writable |-> w]
PipeEndsExact ==
  \A q \in Pipes : /\ pipes[q].readopen <=> HasEnd(q, FALSE)
                   /\ pipes[q].writeopen <=> HasEnd(q, TRUE)
                   /\ pipes[q].alloc <=> pipes[q].readopen \/ pipes[q].writeopen

(* a descriptor always names a struct file in use and of a type; one without a type yet is
   seen by nobody but the open that is making it *)
DescriptorsValid ==
  \A p \in live : \A d \in Fds : ofile[p][d] # 0 =>
    /\ ftable[ofile[p][d]].ref > 0
    /\ ftable[ofile[p][d]].type = "none" => pc[p] = "opened" /\ f0[p] = ofile[p][d]
=============================================================================
