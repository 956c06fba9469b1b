-------------------------------- MODULE Shell --------------------------------
(***************************************************************************)
(* The shell's processes (runcmd and main of sh.c) on top of the open      *)
(* files of module Files: who forks whom, which descriptors each child     *)
(* closes and duplicates, who waits.  A command is the tree the parser     *)
(* makes; a process carries the calls it has still to make.                *)
(***************************************************************************)
EXTENDS Files

CONSTANTS Sh, InitProc,   \* the shell, and init, which adopts orphans
          Lines           \* the command lines that will be typed

VARIABLES
  prog,     \* of each process: the calls it has still to make
  pfd,      \* runcmd's p[0] and p[1]
  parent, zombies

shVars == <<prog, pfd, parent, zombies>>
allVars == <<vars, shVars>>

(* runcmd.  A command that is executed reads its input to the end and exits *)
ReadEndOnly(l) == << <<"closep", 1>> >> \o l
Both(l) == << <<"closep", 1>>, <<"closep", 2>> >> \o l
Wire(end, d, c) == << <<"close", d>>, <<"dupp", end>> >> \o Both(<< <<"runcmd", c>> >>)
runcmd(c) ==
  CASE c[1] = "EXEC"  -> << <<"read">>, <<"exit">> >>
    [] c[1] = "REDIR" -> << <<"close", c[2]>>, <<"open">>, <<"runcmd", c[3]>> >>
    [] c[1] = "LIST"  -> << <<"fork", << <<"runcmd", c[2]>> >> >>, <<"wait">>, <<"runcmd", c[3]>> >>
    [] c[1] = "PIPE"  -> << <<"pipe">>, <<"piped">>,
                            <<"fork", Wire(2, 1, c[2])>>, <<"fork", Wire(1, 0, c[3])>> >>
                         \o Both(<< <<"wait">>, <<"wait">>, <<"exit">> >>)
    [] c[1] = "BACK"  -> << <<"fork", << <<"runcmd", c[2]>> >> >>, <<"exit">> >>

(* main: each line in a child, waited for *)
main == [i \in 1 .. 2 * Len(Lines) |->
  IF i % 2 = 1 THEN <<"fork", << <<"runcmd", Lines[(i + 1) \div 2]>> >> >> ELSE <<"wait">>]

ShInit ==
  /\ InitWith(Sh, {0, 1, 2})
  /\ prog = [p \in Procs |-> IF p = Sh THEN main ELSE << >>]
  /\ pfd = [p \in Procs |-> <<0, 0>>]
  /\ parent = [p \in Procs |-> InitProc] /\ zombies = {}

Does(p, call) == Ready(p) /\ prog[p] # << >> /\ Head(prog[p])[1] = call
Arg(p) == Head(prog[p])[2]
Rest(p) == prog' = [prog EXCEPT ![p] = Tail(@)]
Becomes(p, l) == prog' = [prog EXCEPT ![p] = l]
GoesOn(p) == Rest(p)
Quits(p) == Becomes(p, << <<"exit">> >>)     \* the shell's panic

ShClose(p) ==
  /\ Does(p, "close") \/ Does(p, "closep")
  /\ LET d == IF Head(prog[p])[1] = "close" THEN Arg(p) ELSE pfd[p][Arg(p)]
     IN IF ofile[p][d] # 0 THEN Close(p, d) ELSE UNCHANGED vars
  /\ Rest(p) /\ UNCHANGED <<pfd, parent, zombies>>
ShDup(p) ==
  /\ Does(p, "dupp")
  /\ Dup(p, pfd[p][Arg(p)]) \/ (FreeFds(p) = {} /\ UNCHANGED vars)
  /\ Rest(p) /\ UNCHANGED <<pfd, parent, zombies>>
ShOpen(p) ==
  /\ Does(p, "open")
  /\ \/ Open(p) /\ Rest(p)
     \/ FreeFiles = {} /\ Quits(p) /\ UNCHANGED vars
  /\ UNCHANGED <<pfd, parent, zombies>>

(* pipe will return the two lowest descriptors; "piped" looks whether it did *)
ShPipe(p) ==
  /\ Does(p, "pipe")
  /\ \/ /\ Pipe(p) /\ Rest(p)
        /\ pfd' = [pfd EXCEPT ![p] =
             IF Cardinality(FreeFds(p)) < 2 THEN <<-1, -1>>
             ELSE LET a == fdalloc(p)
                  IN <<a, CHOOSE d \in FreeFds(p) \ {a} : \A e \in FreeFds(p) \ {a} : d <= e>>]
     \/ FreeFiles = {} /\ Quits(p) /\ UNCHANGED <<vars, pfd>>
  /\ UNCHANGED <<parent, zombies>>
ShPiped(p) ==
  /\ Does(p, "piped")
  /\ IF pfd[p][1] >= 0 /\ ofile[p][pfd[p][1]] # 0 THEN Rest(p) ELSE Quits(p)
  /\ UNCHANGED <<vars, pfd, parent, zombies>>

FreeProcs == Procs \ (live \cup zombies)
ShFork(p) ==
  /\ Does(p, "fork")
  /\ IF FreeProcs = {} THEN Quits(p) /\ UNCHANGED <<vars, pfd, parent>>
     ELSE \E q \in {CHOOSE q \in FreeProcs : TRUE} :
            /\ Fork(p, q)
            /\ prog' = [prog EXCEPT ![p] = Tail(@), ![q] = Arg(p)]
            /\ pfd' = [pfd EXCEPT ![q] = pfd[p]] /\ parent' = [parent EXCEPT ![q] = p]
  /\ UNCHANGED zombies
ShRuncmd(p) == Does(p, "runcmd") /\ Becomes(p, runcmd(Arg(p))) /\ UNCHANGED <<vars, pfd, parent, zombies>>

(* an executed command comes to the end of its input: at once when that is not a
   pipe, and from a pipe once no one can write to it *)
AtEof(p) ==
  LET s == ofile[p][0]
  IN s # 0 /\ ftable[s].type = "pipe" => ~pipes[ftable[s].pipe].writeopen
ShRead(p) == Does(p, "read") /\ AtEof(p) /\ Rest(p) /\ UNCHANGED <<vars, pfd, parent, zombies>>

ShExit(p) ==
  /\ Does(p, "exit")
  /\ \/ ExitClose(p) /\ UNCHANGED shVars
     \/ /\ Exit(p)
        /\ zombies' = zombies \cup {p} /\ Becomes(p, << >>)
        /\ parent' = [q \in Procs |-> IF parent[q] = p THEN InitProc ELSE parent[q]]
        /\ UNCHANGED pfd

Children(p) == {q \in live \cup zombies : parent[q] = p}
Reap(q) == zombies' = zombies \ {q} /\ UNCHANGED <<vars, pfd, parent>>
ShWait(p) ==
  /\ Does(p, "wait") /\ Rest(p)
  /\ \/ \E q \in zombies : parent[q] = p /\ Reap(q)
     \/ Children(p) = {} /\ UNCHANGED <<vars, pfd, parent, zombies>>
InitWait == \E q \in zombies : parent[q] = InitProc /\ Reap(q) /\ UNCHANGED prog

ShStep(p) ==
  \/ ShClose(p) \/ ShDup(p) \/ ShOpen(p) \/ ShPipe(p) \/ ShPiped(p) \/ ShFork(p) \/ ShRuncmd(p)
  \/ ShRead(p) \/ ShExit(p) \/ ShWait(p)
  \/ InCall(p) /\ UNCHANGED shVars
ShNext == (\E p \in Procs : ShStep(p)) \/ InitWait

(* all lines are done *)
AtPrompt == prog[Sh] = << >>

(* the scheduler runs every process that can run, and init waits forever *)
ShSpec ==
  ShInit /\ [][ShNext]_allVars /\ (\A p \in Procs : WF_allVars(ShStep(p))) /\ WF_allVars(InitWait)

-----------------------------------------------------------------------------
(* once all processes of the lines are gone, so is everything they opened *)
AllClosedAtEnd ==
  live = {Sh} /\ AtPrompt =>
    /\ \A q \in Pipes : ~pipes[q].alloc
    /\ \A s \in Slots : ftable[s].ref = IF s = 1 THEN 3 ELSE 0

(* a waiting runcmd has a child that lives or a zombie to reap: it never waits for nothing,
   and never takes another command's child *)
WaitsAreMatched ==
  \A p \in live : prog[p] # << >> /\ Head(prog[p])[1] = "wait" => Children(p) # {}
=============================================================================
