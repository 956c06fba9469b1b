------------------------------ MODULE MCFiles ------------------------------
(***************************************************************************)
(* What is behind a descriptor: the bytes in a pipe (Pipe), the contents   *)
(* of files (FileData), the file table and the ends of pipes (Files).  A   *)
(* behaviour picks one of the three and runs it on its own small instance. *)
(***************************************************************************)
EXTENDS Pipe, TLC

CONSTANTS Nobody, Nothing, q1, p1, p2

VARIABLES
  part,
  c_fs, c_unsaved, c_off, c_holder, c_pc, c_io, c_panicked,
  f_ftable, f_pipes, f_ofile, f_live, f_pc, f_f0, f_f1, f_closing, f_ff

cVars == <<c_fs, c_unsaved, c_off, c_holder, c_pc, c_io, c_panicked>>
fVars == <<f_ftable, f_pipes, f_ofile, f_live, f_pc, f_f0, f_f1, f_closing, f_ff>>

(* two files of one and three bytes, the second one with an indirect block, and calls of two processes on them *)
C == INSTANCE FileData WITH
  Procs <- {1, 2}, Files <- {1, 2}, Root <- 1, NBLOCKS <- 6, BSIZE <- 2, NDIRECT <- 1, BPB <- 1,
  MAXOPBLOCKS <- 6, UINT <- 8, MkfsSizes <- <<1, 3>>,
  Writes <- {<<1, 2, 3>>, <<2, 2, 3>>, <<2, 1, 3>>}, Reads <- {<<1, 2, 3>>, <<1, 1, 3>>},
  Nobody <- Nobody,
  fs <- c_fs, unsaved <- c_unsaved, off <- c_off, holder <- c_holder, pc <- c_pc, io <- c_io,
  panicked <- c_panicked

(* two processes, three struct files, one page for a pipe: all run out *)
F == INSTANCE Files WITH
  Procs <- {p1, p2}, NFILE <- 3, NOFILE <- 2, Pipes <- {q1}, Nothing <- Nothing,
  ftable <- f_ftable, pipes <- f_pipes, ofile <- f_ofile, live <- f_live, pc <- f_pc,
  f0 <- f_f0, f1 <- f_f1, closing <- f_closing, ff <- f_ff

ASSUME PipeAssumption /\ ProcAssumption /\ C!FileDataAssumption /\ F!FilesAssumption

(* two writers whose bytes may mix; two processes with descriptors *)
Symmetry == Permutations({p1, p2}) \cup Permutations(Writers)

-----------------------------------------------------------------------------
Part(x) == part = x

FilesInit == part \in {"data", "files", "pipe"} /\ Init /\ C!Init /\ F!Init

PipeNext == Part("pipe") /\ Next /\ UNCHANGED <<part, cVars, fVars>>
DataNext == Part("data") /\ C!Next /\ UNCHANGED <<part, vars, fVars>>
TableNext == Part("files") /\ F!Next /\ UNCHANGED <<part, vars, cVars>>

FilesNext == PipeNext \/ DataNext \/ TableNext
FilesSpec == FilesInit /\ [][FilesNext]_<<part, vars, cVars, fVars>>

-----------------------------------------------------------------------------
(* Pipe's properties are checked as they stand.                               *)

(* Descriptors, struct files and the ends of pipes count one another exactly,
   whichever call fails half way (file.c, sys_pipe, sys_open, pipealloc).     *)
RefsExact ==
  Part("files") => F!TypeOK /\ F!FileRefsExact /\ F!PipeEndsExact /\ F!DescriptorsValid

(* Every block is free or has one owner, chunks of a write fit the log's
   reservation, and no inode or block that a write needs is left behind
   (bmap, itrunc, readi, writei, filewrite).                                  *)
BlocksSound ==
  Part("data") =>
    /\ C!TypeOK /\ C!EachBlockOwnedOnce /\ C!NoMissingBlock
    /\ C!ReadsWhatIsThere /\ C!ChunkFitsLog /\ C!InodeSaved

(* A file is an array of bytes that concurrent writers change a chunk at a time. *)
IsByteFile == C!IsByteFile
=============================================================================
