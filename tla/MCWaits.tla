------------------------------ MODULE MCWaits ------------------------------
(***************************************************************************)
(* Those who wait are served: the processes of command lines (Shell), a    *)
(* reader and a writer of a pipe (Pipe), operations that wait for the log  *)
(* (Log).  A behaviour picks one of the three; fairness asks progress of   *)
(* that one only.                                                          *)
(***************************************************************************)
EXTENDS Shell

CONSTANTS NoProc, r1, w1, NoBlock, Absent, o1, o2, o3, b1, b2

VARIABLES
  part,
  p_data, p_nread, p_nwrite, p_readopen, p_writeopen, p_lock, p_pc, p_n, p_i, p_killed,
  l_home, l_hdr, l_ldata, l_mode, l_cache, l_pinned, l_lh, l_outstanding, l_committing,
  l_op, l_held, l_wrote, l_step, l_tail

pVars == <<p_data, p_nread, p_nwrite, p_readopen, p_writeopen, p_lock, p_pc, p_n, p_i, p_killed>>
lVars == <<l_home, l_hdr, l_ldata, l_mode, l_cache, l_pinned, l_lh, l_outstanding, l_committing,
           l_op, l_held, l_wrote, l_step, l_tail>>

(* a | b, then a | b | c, for which there are too few processes, then a & ; c > f *)
X == <<"EXEC">>
TypedLines == << <<"PIPE", X, X>>, <<"PIPE", X, <<"PIPE", X, X>>>>,
                 <<"LIST", <<"BACK", X>>, <<"REDIR", 1, X>>>> >>

(* one reader, one writer, writes longer than the pipe *)
P == INSTANCE Pipe WITH
  Readers <- {r1}, Writers <- {w1}, NoProc <- NoProc, PIPESIZE <- 2, WRAP <- 4, MaxN <- 3,
  data <- p_data, nread <- p_nread, nwrite <- p_nwrite, readopen <- p_readopen,
  writeopen <- p_writeopen, lock <- p_lock, pc <- p_pc, n <- p_n, i <- p_i, killed <- p_killed

(* three operations, and room for two at a time at most *)
Ops == {o1, o2, o3}
L == INSTANCE Log WITH
  Procs <- Ops, Blocks <- {b1, b2}, Vals <- {0}, NoBlock <- NoBlock, Absent <- Absent,
  MAXOPBLOCKS <- 2, LOGSIZE <- 4, NLOG <- 4, OpBlocks <- 2,
  home <- l_home, hdr <- l_hdr, ldata <- l_ldata, mode <- l_mode, cache <- l_cache,
  pinned <- l_pinned, lh <- l_lh, outstanding <- l_outstanding, committing <- l_committing,
  op <- l_op, held <- l_held, wrote <- l_wrote, step <- l_step, tail <- l_tail

ASSUME FilesAssumption /\ P!PipeAssumption /\ P!ProcAssumption
ASSUME L!LogAssumption /\ L!ValueAssumption

-----------------------------------------------------------------------------
At(x) == part = x

WaitsInit == part \in {"shell", "pipe", "log"} /\ ShInit /\ P!Init /\ L!Init

ShellNext == At("shell") /\ ShNext /\ UNCHANGED <<part, pVars, lVars>>
PipeNext == At("pipe") /\ P!Next /\ UNCHANGED <<part, allVars, lVars>>
LogNext == At("log") /\ L!Next /\ UNCHANGED <<part, allVars, pVars>>

WaitsNext == ShellNext \/ PipeNext \/ LogNext

(* the fairness of the three specifications, each where its part runs *)
ShellFairness ==
  /\ \A p \in Procs : WF_allVars(At("shell") /\ ShStep(p))
  /\ WF_allVars(At("shell") /\ InitWait)
PipeFairness == \A p \in {r1, w1} : WF_pVars(At("pipe") /\ P!Step(p))
LogFairness ==
  /\ WF_lVars(At("log") /\ L!Commit)
  /\ \A p \in Ops :
       /\ WF_lVars(At("log") /\ L!BeginOp(p)) /\ WF_lVars(At("log") /\ L!LogWrite(p))
       /\ WF_lVars(At("log") /\ L!FinishCommit(p)) /\ SF_lVars(At("log") /\ L!EndOp(p))

WaitsSpec ==
  /\ WaitsInit /\ [][WaitsNext]_<<part, allVars, pVars, lVars>>
  /\ ShellFairness /\ PipeFairness /\ LogFairness

-----------------------------------------------------------------------------
(* The processes of a command line, some of which cannot be forked, close what
   they opened, wait only for children they have, and leave nothing open
   (runcmd, fork1, main).                                                     *)
ShellSound ==
  At("shell") =>
    /\ TypeOK /\ FileRefsExact /\ PipeEndsExact
    /\ WaitsAreMatched /\ AllClosedAtEnd

(* Every line comes back to the prompt: no command waits for the end of a pipe
   that some process of the line still holds open for writing (sh.c, runcmd). *)
LinesReturn == <>(At("shell") => AtPrompt)

(* Who waits in a pipe is served, and who waits for the log is woken: a reader returns once there is
   something to read or no writer is left, a writer does not outwait its last
   reader, a killed process leaves (pipe.c); a process asleep in begin_op is woken
   to test again, though others may then have taken the room (log.c).         *)
WaitsEnd == P!ReaderServed /\ P!WriterReleased /\ P!KilledLeaves /\ L!SleeperWoken
=============================================================================
