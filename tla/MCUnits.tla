------------------------------ MODULE MCUnits ------------------------------
(***************************************************************************)
(* The parts that need no company, each on its own small instance: a       *)
(* behaviour picks one part and runs it, the others stay as they started.  *)
(***************************************************************************)
EXTENDS Console, TLC

VARIABLES
  part,
  h_arr, h_size, h_idx, h_pushed,
  s_shift, s_wire, s_down, s_caps,
  u_sz, u_nuls, u_op, u_addr, u_len, u_done, u_ret, u_sp, u_argv, u_mem,
  m_free, m_state, m_kstack, m_as, m_sz, m_pc, m_new, m_at, m_to, m_child, m_panicked,
  a_ptr, a_size, a_freep, a_brk, a_held, a_core,
  q_arr, q_pushed,
  line

hVars == <<h_arr, h_size, h_idx, h_pushed>>
sVars == <<s_shift, s_wire, s_down, s_caps>>
uVars == <<u_sz, u_nuls, u_op, u_addr, u_len, u_done, u_ret, u_sp, u_argv, u_mem>>
mVars == <<m_free, m_state, m_kstack, m_as, m_sz, m_pc, m_new, m_at, m_to, m_child, m_panicked>>
aVars == <<a_ptr, a_size, a_freep, a_brk, a_held, a_core>>
qVars == <<q_arr, q_pushed>>

Symmetry == Permutations(Readers)

(* what is typed: characters, ends of lines, ends of file, corrections *)
Typing == {"none", "a", "cr", "^D", "^U", "^H"}

(* four processes that may tie in pass, in runtime or in both *)
H == INSTANCE Heap WITH
  NPROC <- 4, Pass <- {0, 1}, Runtime <- {0, 1}, Pid <- {1, 2},
  arr <- h_arr, size <- h_size, idx <- h_idx, pushed <- h_pushed

(* both shifts and controls, caps lock, and a key that is none of these *)
KeyOf(c, x) == [code |-> c, ext |-> x]
S == INSTANCE Kbd WITH
  KeySet <- {KeyOf(42, FALSE), KeyOf(54, FALSE), KeyOf(29, FALSE), KeyOf(29, TRUE),
             KeyOf(58, FALSE), KeyOf(30, FALSE)}, Wire <- 3,
  shift <- s_shift, wire <- s_wire, down <- s_down, caps <- s_caps

(* three pages, of which exec makes the second the guard of the third *)
U == INSTANCE UserMem WITH
  WRAP <- 28, KERNBASE <- 14, PGSIZE <- 4, WORD <- 2, Lens <- {1, 2, 3, 6, 9, 14}, MAXARG <- 3,
  sz <- u_sz, nuls <- u_nuls, op <- u_op, addr <- u_addr, len <- u_len, done <- u_done,
  ret <- u_ret, sp <- u_sp, argv <- u_argv, mem <- u_mem

(* two processes and twelve pages: not enough for all they ask *)
M == INSTANCE Mem WITH
  Procs <- {1, 2}, Pages <- 1 .. 12, PGSIZE <- 2, NPT <- 2, UPAGES <- 4, Grows <- {3, -1},
  Images <- {2},
  free <- m_free, state <- m_state, kstack <- m_kstack, as <- m_as, sz <- m_sz, pc <- m_pc,
  new <- m_new, at <- m_at, to <- m_to, child <- m_child, panicked <- m_panicked

(* a heap of eleven units, got four or more at a time *)
A == INSTANCE Umalloc WITH
  Units <- 12, Least <- 4, Requests <- {2, 3, 5},
  ptr <- a_ptr, size <- a_size, freep <- a_freep, brk <- a_brk, held <- a_held, core <- a_core

(* keys that differ in each field, up to three levels *)
Q == INSTANCE StrideHeap WITH
  Cap <- 6,
  Entries <- [pass : {0, 1}, runtime : {0, 1}, pid : {1}] \cup
             {[pass |-> 0, runtime |-> 0, pid |-> 2]},
  arr <- q_arr, pushed <- q_pushed

(* every line of up to five characters; "<" is read as ">" is *)
P == INSTANCE ShParse WITH
  Letters <- {"a", " ", "|", ">", "&", ";", "(", ")"}, MaxLine <- 5, MAXARGS <- 3

ASSUME ConsoleAssumption /\ H!HeapAssumption /\ U!UserMemAssumption /\ M!MemAssumption

-----------------------------------------------------------------------------
Part(x) == part = x

EmptyHeap == [i \in 0 .. 3 |-> [pass |-> 0, runtime |-> 0, pid |-> 1]]

UnitsInit ==
  /\ part \in {"console", "kbd", "usermem", "mem", "umalloc", "strideheap",
               "shparse", "heap"}
  /\ Init /\ S!Init /\ M!Init /\ A!Init /\ Q!Init /\ P!Init
  /\ U!Init /\ (Part("usermem") \/ u_sz = 0)
  /\ IF Part("heap") THEN H!Init
     ELSE h_idx = -1 /\ h_size = 0 /\ h_pushed = {} /\ h_arr = EmptyHeap

ConsoleNext == Part("console") /\ Next /\ UNCHANGED <<part, sVars, uVars, mVars, aVars, qVars, line, hVars>>
KbdNext == Part("kbd") /\ S!Next /\ UNCHANGED <<part, vars, uVars, mVars, aVars, qVars, line, hVars>>
UserMemNext == Part("usermem") /\ U!Next /\ UNCHANGED <<part, vars, sVars, mVars, aVars, qVars, line, hVars>>
MemNext == Part("mem") /\ M!Next /\ UNCHANGED <<part, vars, sVars, uVars, aVars, qVars, line, hVars>>
UmallocNext == Part("umalloc") /\ A!Next /\ UNCHANGED <<part, vars, sVars, uVars, mVars, qVars, line, hVars>>
StrideHeapNext == Part("strideheap") /\ Q!Next /\ UNCHANGED <<part, vars, sVars, uVars, mVars, aVars, line, hVars>>
ShParseNext == Part("shparse") /\ P!Next /\ UNCHANGED <<part, vars, sVars, uVars, mVars, aVars, qVars, hVars>>
HeapNext == Part("heap") /\ H!Next /\ UNCHANGED <<part, vars, sVars, uVars, mVars, aVars, qVars, line>>

UnitsNext ==
  \/ ConsoleNext \/ KbdNext \/ UserMemNext \/ MemNext
  \/ UmallocNext \/ StrideHeapNext \/ ShParseNext \/ HeapNext

unitsVars == <<part, vars, sVars, uVars, mVars, aVars, qVars, line, hVars>>

UnitsSpec == UnitsInit /\ [][UnitsNext]_unitsVars

-----------------------------------------------------------------------------
(* Console's properties are checked as they stand.                            *)

(* getmin returns the process the scheduling order puts first, whatever was
   pushed and in which order, and the array stays a heap (proc.c 399-443).    *)
HeapSound == Part("heap") => H!TypeOK /\ H!GetminIsLeast /\ H!HeapOrder

(* kbdgetc leaves no modifier set whose keys are up, and caps lock follows its
   key, however presses, repeats and releases overlap (kbd.c).                *)
ModifiersFollowKeys == Part("kbd") => S!NoStuckModifier /\ S!CapsFollows

(* Ranges and strings that argint, argptr and fetchstr accept lie in the
   process, and copyout puts exec's arguments, byte for byte, apart on the new
   stack page; exec fails for one that does not fit, also when its address
   wraps past the ends of page tables (syscall.c, copyout, uva2ka, exec).     *)
UserMemSound ==
  Part("usermem") =>
    /\ U!TypeOK /\ U!AcceptedInside /\ U!StringInside
    /\ U!CopiesInOrder /\ U!ArgsOnStack

(* Each page is free once or used once, a process's size is backed by pages,
   and neither mappages ("remap") nor copyuvm (a page missing) panics, also
   when fork, exec or sbrk runs out of memory half way.                       *)
PagesSound == Part("mem") => M!TypeOK /\ M!EachPageOnce /\ M!SizeIsMapped /\ M!NoVmPanic

(* Each unit malloc got is in one block, the free list is a circle in address
   order without touching blocks, and the search from freep misses none
   (umalloc.c).                                                               *)
MallocSound == Part("umalloc") => A!EachUnitOnce /\ A!ListInOrder /\ A!SearchesAll

(* The stand-alone heap holds what was pushed with the least at its root, and
   getsorted sorts it (strideheap.c).                                         *)
StrideHeapSound == Part("strideheap") => Q!RootIsLeast /\ Q!SortedIsSorted

(* The shell's parser accepts its grammar, and nulterminate ends every word and
   damages none (sh.c).                                                       *)
ParserSound == Part("shparse") => P!AcceptsGrammar /\ P!EachWordEnds
=============================================================================
