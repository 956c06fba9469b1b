-------------------------------- MODULE Inode --------------------------------
(***************************************************************************)
(* Inodes and names: the inode cache and directories of fs.c under the     *)
(* system calls of sysfile.c that open, create, link, remove and change    *)
(* directory, called by several processes at once.                         *)
(*                                                                         *)
(* The disk is what the log shows to running operations.  A step is one    *)
(* stretch between two places where a process can wait or another one can  *)
(* see it: an inode's sleep lock, or icache.lock.  ilock ... iunlock with  *)
(* one access to the cache between them is a single step, since the lock   *)
(* keeps everything else it reads still.  Contents of files are module     *)
(* FileData; an open file is the pointer to its inode (module Files).      *)
(***************************************************************************)
EXTENDS Integers, FiniteSets, Sequences

CONSTANTS
  Procs, Inums, NINODE, Names,
  Calls,      \* system calls that processes make: see Call
  Nobody

ROOTINO == 1
Dots == {".", ".."}
Elems == Names \cup Dots
Slots == 1 .. NINODE
Types == {"free", "file", "dir", "dev"}

(* path: its elements, from the root or the working directory; type: of what
   create makes; new: the second path of link; omode: O_RDONLY or not *)
Paths == [abs : BOOLEAN, elems : Seq(Elems)]
Call == [op : {"open", "create", "link", "unlink", "chdir", "close"}, path : Paths,
         type : Types, new : Paths, rdonly : BOOLEAN]

ASSUME InodeAssumption ==
  /\ IsFiniteSet(Procs) /\ Nobody \notin Procs
  /\ IsFiniteSet(Inums) /\ Inums \subseteq Nat \ {0} /\ ROOTINO \in Inums
  /\ NINODE \in Nat \ {0}
  /\ IsFiniteSet(Names) /\ Names \cap Dots = {}
  /\ Calls \subseteq Call /\ \A c \in Calls : c.op = "create" => c.type # "free"

VARIABLES
  dinode,    \* on disk: type and nlink of each inode
  dirent,    \* on disk: what each name of a directory refers to, 0 for nothing
  icache,    \* struct inode: inum, ref, valid, and the copies of type and nlink
  lock,      \* the sleep lock of each cache entry
  cwd, ofile,  \* of each process: pointers to cache entries, 0 for none
  ip, dp, put, \* locals of the calls, and iput's argument; 0 once given up
  pc, ret,   \* where a process is, and where its iput returns to
  call,      \* its system call
  path,      \* the elements namex has still to walk
  astray,    \* history: a ".." has led to a directory that was itself removed
  panicked   \* "no"; "full": out of inodes or cache entries; "bad": a check failed

diskVars == <<dinode, dirent>>
ptrs == <<cwd, ofile, ip, dp>>
ctl == <<pc, ret, put, call>>
fate == <<astray, panicked>>
vars == <<diskVars, icache, lock, ptrs, ctl, path, fate>>

PCs == {"idle", "walk", "put", "free", "drop", "open", "openfd", "chdir", "create", "found",
        "new", "made", "linkinc", "linkdir", "linkbad", "unlink", "remove", "removed",
        "undp", "putip"}
NoPath == [abs |-> FALSE, elems |-> << >>]
NoCall == [op |-> "close", path |-> NoPath, type |-> "free", new |-> NoPath, rdonly |-> TRUE]

Entries == [inum : Inums \cup {0}, ref : Nat, valid : BOOLEAN, type : Types, nlink : Nat]
Pointers == [Procs -> Slots \cup {0}]

TypeOK ==
  /\ dinode \in [Inums -> [type : Types, nlink : Nat]]
  /\ dirent \in [Inums -> [Elems -> Inums \cup {0}]]
  /\ icache \in [Slots -> Entries]
  /\ lock \in [Slots -> Procs \cup {Nobody}]
  /\ cwd \in Pointers /\ ofile \in Pointers
  /\ ip \in Pointers /\ dp \in Pointers /\ put \in Pointers
  /\ pc \in [Procs -> PCs] /\ ret \in [Procs -> PCs]
  /\ call \in [Procs -> Calls \cup {NoCall}]
  /\ path \in [Procs -> Seq(Elems)]
  /\ astray \in BOOLEAN /\ panicked \in {"no", "full", "bad"}

(* an entry with no reference; its fields are never read, iget rewrites them *)
Empty == [inum |-> 0, ref |-> 0, valid |-> FALSE, type |-> "free", nlink |-> 0]
BootCache == [s \in Slots |->
  IF s = 1 THEN [Empty EXCEPT !.inum = ROOTINO, !.ref = Cardinality(Procs)] ELSE Empty]

(* mkfs's root directory, in which every process starts (userinit, fork) *)
Init ==
  /\ dinode = [i \in Inums |-> IF i = ROOTINO THEN [type |-> "dir", nlink |-> 1]
                                              ELSE [type |-> "free", nlink |-> 0]]
  /\ dirent = [i \in Inums |-> [n \in Elems |->
                 IF i = ROOTINO /\ n \in Dots THEN ROOTINO ELSE 0]]
  /\ icache = BootCache
  /\ lock = [s \in Slots |-> Nobody]
  /\ cwd = [p \in Procs |-> 1]
  /\ ofile = [p \in Procs |-> 0] /\ ip = ofile /\ dp = ofile /\ put = ofile
  /\ pc = [p \in Procs |-> "idle"] /\ ret = pc
  /\ call = [p \in Procs |-> NoCall] /\ path = [p \in Procs |-> << >>]
  /\ astray = FALSE /\ panicked = "no"

-----------------------------------------------------------------------------
(* the inode cache; c stands for icache, perhaps after an ilock *)

Least(S) == CHOOSE x \in S : \A y \in S : x <= y

(* iget's search: the entry of inode i, or else the first empty one *)
Cached(c, i) == {s \in Slots : c[s].ref > 0 /\ c[s].inum = i}
Unused(c) == {s \in Slots : c[s].ref = 0}
SlotOf(c, i) == Least(IF Cached(c, i) # {} THEN Cached(c, i) ELSE Unused(c))

iget(c, i) ==
  LET s == SlotOf(c, i)
  IN IF c[s].ref > 0 THEN [c EXCEPT ![s].ref = @ + 1]
     ELSE [c EXCEPT ![s] = [Empty EXCEPT !.inum = i, !.ref = 1]]

NotCounting(c, s) == c
idup(c, s) == [c EXCEPT ![s].ref = @ + 1]

(* what ilock reads from the disk, when it has to *)
Loaded(c, s) ==
  IF c[s].valid THEN c
  ELSE [c EXCEPT ![s].valid = TRUE, ![s].type = dinode[c[s].inum].type,
                 ![s].nlink = dinode[c[s].inum].nlink]

iupdate(d, c, s) == [d EXCEPT ![c[s].inum] = [type |-> c[s].type, nlink |-> c[s].nlink]]

Panic(why) == panicked' = why /\ UNCHANGED <<diskVars, icache, lock, ptrs, ctl, path, astray>>

(* iget(i) in cache c finds an entry, with which the caller does A *)
igets(c, i, A) ==
  IF Cached(c, i) \cup Unused(c) = {} THEN Panic("full")
  ELSE icache' = iget(c, i) /\ A

(* ilock(s): waits for the sleep lock; A is what the caller does with it *)
ilock(s, A) ==
  /\ lock[s] = Nobody
  /\ IF icache[s].ref < 1 \/ Loaded(icache, s)[s].type = "free" THEN Panic("bad") ELSE A

Goto(p, l) ==
  /\ pc' = [pc EXCEPT ![p] = l]
  /\ call' = IF l = "idle" THEN [call EXCEPT ![p] = NoCall] ELSE call
  /\ UNCHANGED <<ret, put>>
iput(p, s, l) ==
  /\ pc' = [pc EXCEPT ![p] = "put"]
  /\ ret' = [ret EXCEPT ![p] = l]
  /\ put' = [put EXCEPT ![p] = s]
  /\ UNCHANGED call

Give(f, p) == f' = [f EXCEPT ![p] = 0]
Set(f, p, v) == f' = [f EXCEPT ![p] = v]

(* iput, up to its decision: with no link and no other reference it keeps the lock *)
NoLinks(s) == icache[s].valid /\ icache[s].nlink = 0
LastPut(s) == icache[s].valid /\ icache[s].nlink = 0 /\ icache[s].ref = 1

Iput(p) ==
  LET s == put[p]
  IN /\ pc[p] = "put" /\ lock[s] = Nobody
     /\ IF LastPut(s)
        THEN Set(lock, s, p) /\ Goto(p, "free")
        ELSE Goto(p, "drop") /\ UNCHANGED lock
     /\ UNCHANGED <<diskVars, icache, ptrs, path, fate>>

(* itrunc, type = 0, iupdate, valid = 0, releasesleep *)
Ifree(p) ==
  LET s == put[p]
      i == icache[s].inum
  IN /\ pc[p] = "free"
     /\ dirent' = [dirent EXCEPT ![i] = [n \in Elems |-> 0]]
     /\ dinode' = [dinode EXCEPT ![i] = [type |-> "free", nlink |-> icache[s].nlink]]
     /\ icache' = [icache EXCEPT ![s].type = "free", ![s].nlink = 0, ![s].valid = FALSE]
     /\ Set(lock, s, Nobody)
     /\ Goto(p, "drop")
     /\ UNCHANGED <<ptrs, path, fate>>

Idrop(p) ==
  /\ pc[p] = "drop"
  /\ icache' = IF icache[put[p]].ref = 1 THEN [icache EXCEPT ![put[p]] = Empty]
                ELSE [icache EXCEPT ![put[p]].ref = @ - 1]
  /\ Give(put, p)
  /\ pc' = [pc EXCEPT ![p] = ret[p]]
  /\ ret' = [ret EXCEPT ![p] = "idle"]
  /\ call' = IF ret[p] = "idle" THEN [call EXCEPT ![p] = NoCall] ELSE call
  /\ UNCHANGED <<diskVars, lock, ptrs, path, fate>>

-----------------------------------------------------------------------------
(* path names: namex walks in dp; namei moves the result to ip *)

Op(p) == call[p].op
Last1(pth) == pth.elems[Len(pth.elems)]
Parent(p) == Op(p) \in {"create", "unlink"} \/ (Op(p) = "link" /\ ip[p] # 0)
Name(p) == Last1(IF Op(p) = "link" THEN call[p].new ELSE call[p].path)
Entry(c, s, n) == dirent[c[s].inum][n]

(* A removed directory keeps its "..", which does not count as a link to the parent any
   more: the parent may have lost its last one, and be freed or about to be. *)
HasName(i) == i = ROOTINO \/ \E d \in Inums, n \in Names : dirent[d][n] = i
LeadsAstray(c, s, n) ==
  n = ".." /\ ~HasName(c[s].inum) /\ dinode[Entry(c, s, n)].nlink = 0

(* dirlookup's iget of the inode that n refers to in dp *)
dirlookup(p, c, n, A) ==
  igets(c, Entry(c, dp[p], n),
    /\ A /\ UNCHANGED panicked
    /\ astray' = (astray \/ LeadsAstray(c, dp[p], n)))

(* where namex starts, in cache c; A is the rest of the step *)
Start(p, c, pth, A) ==
  IF pth.abs THEN igets(c, ROOTINO, Set(dp, p, SlotOf(c, ROOTINO)) /\ Set(path, p, pth.elems) /\ A)
  ELSE icache' = idup(c, cwd[p]) /\ Set(dp, p, cwd[p]) /\ Set(path, p, pth.elems) /\ A

Walked == [open |-> "open", link |-> "linkinc", chdir |-> "chdir"]
WalkedTo == [create |-> "create", unlink |-> "unlink", link |-> "linkdir"]

(* namex returns 0, after iput(dp) *)
NamexFails(p) ==
  /\ iput(p, dp[p], IF Op(p) = "link" /\ ip[p] # 0 THEN "linkbad" ELSE "idle")
  /\ Give(dp, p) /\ Set(path, p, << >>)
  /\ UNCHANGED ip

NamexEnd(p) ==
  /\ pc[p] = "walk" /\ path[p] = << >>
  /\ IF Parent(p) THEN NamexFails(p)
     ELSE Set(ip, p, dp[p]) /\ Give(dp, p) /\ Goto(p, Walked[Op(p)]) /\ UNCHANGED path
  /\ UNCHANGED <<diskVars, icache, lock, cwd, ofile, fate>>

(* one turn of namex's loop *)
Namex(p) ==
  LET c == Loaded(icache, dp[p])
      next == Entry(c, dp[p], Head(path[p]))
  IN /\ pc[p] = "walk" /\ path[p] # << >>
     /\ ilock(dp[p],
          IF c[dp[p]].type = "dir" /\ Parent(p) /\ Len(path[p]) = 1
          THEN /\ Goto(p, WalkedTo[Op(p)]) /\ Set(path, p, << >>) /\ icache' = c
               /\ UNCHANGED <<ip, dp, fate>>
          ELSE IF c[dp[p]].type # "dir" \/ next = 0
          THEN NamexFails(p) /\ icache' = c /\ UNCHANGED fate
          ELSE dirlookup(p, c, Head(path[p]),
                 /\ Set(dp, p, SlotOf(c, next)) /\ Set(path, p, Tail(path[p]))
                 /\ iput(p, dp[p], "walk") /\ UNCHANGED ip))
     /\ UNCHANGED <<diskVars, lock, cwd, ofile>>
-----------------------------------------------------------------------------
(* system calls *)

(* entering one: close takes its file's inode to iput, the others start a walk *)
Enter(p, c) ==
  /\ pc[p] = "idle"
  /\ IF c.op = "close"
     THEN /\ ofile[p] # 0 /\ Give(ofile, p)
          /\ pc' = [pc EXCEPT ![p] = "put"] /\ Set(put, p, ofile[p]) /\ Set(call, p, c)
          /\ UNCHANGED <<icache, dp, path, fate>>
     ELSE /\ Start(p, icache, c.path,
               pc' = [pc EXCEPT ![p] = "walk"] /\ Set(call, p, c) /\ UNCHANGED <<put, fate>>)
          /\ UNCHANGED ofile
  /\ UNCHANGED <<diskVars, lock, cwd, ip, ret>>

(* iunlockput(ip), with which most calls end; the lock was taken in this step *)
PutIp(p) == iput(p, ip[p], "idle") /\ Give(ip, p)

Open(p) ==
  LET c == Loaded(icache, ip[p])
  IN /\ pc[p] = "open"
     /\ ilock(ip[p],
          /\ IF c[ip[p]].type = "dir" /\ ~call[p].rdonly
             THEN PutIp(p) /\ UNCHANGED lock
             ELSE Set(lock, ip[p], p) /\ Goto(p, "openfd") /\ UNCHANGED ip
          /\ icache' = c /\ UNCHANGED <<diskVars, cwd, ofile, dp, path, fate>>)

(* filealloc and fdalloc, which may fail, with the inode locked *)
OpenFd(p) ==
  /\ pc[p] = "openfd"
  /\ \/ ofile[p] = 0 /\ Set(ofile, p, ip[p]) /\ Give(ip, p) /\ Goto(p, "idle")
     \/ PutIp(p) /\ UNCHANGED ofile
  /\ Set(lock, ip[p], Nobody)
  /\ UNCHANGED <<diskVars, icache, cwd, dp, path, fate>>

(* no one else reads p's cwd, so it changes here rather than after iput *)
Chdir(p) ==
  LET c == Loaded(icache, ip[p])
  IN /\ pc[p] = "chdir"
     /\ ilock(ip[p],
          /\ IF c[ip[p]].type # "dir" THEN PutIp(p) /\ UNCHANGED cwd
             ELSE iput(p, cwd[p], "idle") /\ Set(cwd, p, ip[p]) /\ Give(ip, p)
          /\ icache' = c /\ UNCHANGED <<diskVars, lock, ofile, dp, path, fate>>)

(* create: the directory; ialloc and its iget when the name is new *)
FreeInums == {i \in Inums : dinode[i].type = "free"}
Create(p) ==
  LET c == Loaded(icache, dp[p])
      old == Entry(c, dp[p], Name(p))
      new == Least(FreeInums)
  IN /\ pc[p] = "create"
     /\ \/ ilock(dp[p],
             /\ old # 0
             /\ dirlookup(p, c, Name(p),
                  /\ Set(ip, p, SlotOf(c, old)) /\ iput(p, dp[p], "found") /\ Give(dp, p)
                  /\ UNCHANGED <<diskVars, lock>>))
        \/ ilock(dp[p],
             /\ old = 0 /\ FreeInums # {}
             /\ igets(c, new,
                  /\ dinode' = [dinode EXCEPT ![new] = [type |-> call[p].type, nlink |-> 0]]
                  /\ Set(ip, p, SlotOf(c, new)) /\ Set(lock, dp[p], p)
                  /\ Goto(p, "new") /\ UNCHANGED <<dirent, dp, fate>>))
        \/ lock[dp[p]] = Nobody /\ old = 0 /\ FreeInums = {} /\ Panic("full")
     /\ UNCHANGED <<cwd, ofile, path>>

(* create finds the name: open may use an existing file *)
Found(p) ==
  LET c == Loaded(icache, ip[p])
  IN /\ pc[p] = "found"
     /\ ilock(ip[p],
          /\ IF call[p].type = "file" /\ c[ip[p]].type = "file"
             THEN Set(lock, ip[p], p) /\ Goto(p, "openfd") /\ UNCHANGED ip
             ELSE PutIp(p) /\ UNCHANGED lock
          /\ icache' = c /\ UNCHANGED <<diskVars, cwd, ofile, dp, path, fate>>)

(* create, both inodes locked: links, dots, the entry; iunlockput(dp) *)
NotCounted(c, p) == [c EXCEPT ![dp[p]].nlink = IF call[p].type = "dir" THEN @ + 1 ELSE @]
Linked(c, p) ==
  [c EXCEPT ![ip[p]].nlink = 1, ![dp[p]].nlink = IF call[p].type = "dir" THEN @ + 1 ELSE @]

New(p) ==
  LET c == Linked(Loaded(icache, ip[p]), p)
      i == c[ip[p]].inum
      d == c[dp[p]].inum
  IN /\ pc[p] = "new"
     /\ ilock(ip[p],
          /\ icache' = c
          /\ dinode' = iupdate(iupdate(dinode, c, ip[p]), c, dp[p])
          /\ dirent' = [j \in Inums |-> [n \in Elems |->
               CASE j = i /\ n = "." /\ call[p].type = "dir" -> i
                 [] j = i /\ n = ".." /\ call[p].type = "dir" -> d
                 [] j = d /\ n = Name(p) -> i
                 [] OTHER -> dirent[j][n]]]
          /\ lock' = [lock EXCEPT ![ip[p]] = p, ![dp[p]] = Nobody]
          /\ iput(p, dp[p], IF call[p].type = "file" THEN "openfd" ELSE "made")
          /\ Give(dp, p)
          /\ UNCHANGED <<cwd, ofile, ip, path, fate>>)

(* mkdir and mknod: iunlockput(ip) *)
Made(p) ==
  /\ pc[p] = "made"
  /\ Set(lock, ip[p], Nobody) /\ PutIp(p)
  /\ UNCHANGED <<diskVars, icache, cwd, ofile, dp, path, fate>>

(* sys_link: count the link, then walk to the new name's directory *)
LinkInc(p) ==
  LET l == Loaded(icache, ip[p])
      c == [l EXCEPT ![ip[p]].nlink = @ + 1]
  IN /\ pc[p] = "linkinc"
     /\ ilock(ip[p],
          IF l[ip[p]].type = "dir"
          THEN PutIp(p) /\ icache' = l /\ UNCHANGED <<dinode, dp, path, fate>>
          ELSE Start(p, c, call[p].new,
                 dinode' = iupdate(dinode, c, ip[p]) /\ Goto(p, "walk") /\ UNCHANGED <<ip, fate>>))
     /\ UNCHANGED <<dirent, lock, cwd, ofile>>

(* dirlink: when the name exists, iput of it with the directory locked *)
LinkDir(p) ==
  LET c == Loaded(icache, dp[p])
      old == Entry(c, dp[p], Name(p))
  IN /\ pc[p] = "linkdir"
     /\ ilock(dp[p],
          IF old # 0
          THEN dirlookup(p, c, Name(p),
                 /\ iput(p, SlotOf(c, old), "undp") /\ Set(lock, dp[p], p)
                 /\ UNCHANGED <<dirent, dp>>)
          ELSE /\ dirent' = [dirent EXCEPT ![c[dp[p]].inum][Name(p)] = c[ip[p]].inum]
               /\ icache' = c /\ iput(p, dp[p], "putip") /\ Give(dp, p)
               /\ UNCHANGED <<lock, fate>>)
     /\ UNCHANGED <<dinode, cwd, ofile, ip, path>>

(* iunlockput(dp) on the error paths of link and unlink *)
UnlockDp(p) ==
  /\ pc[p] = "undp"
  /\ Set(lock, dp[p], Nobody)
  /\ iput(p, dp[p], IF Op(p) = "link" THEN "linkbad" ELSE "idle") /\ Give(dp, p)
  /\ UNCHANGED <<diskVars, icache, cwd, ofile, ip, path, fate>>

LinkEnd(p) ==
  /\ pc[p] = "putip" /\ PutIp(p)
  /\ UNCHANGED <<diskVars, icache, lock, cwd, ofile, dp, path, fate>>

LinkBad(p) ==
  LET c == [Loaded(icache, ip[p]) EXCEPT ![ip[p]].nlink = @ - 1]
  IN /\ pc[p] = "linkbad"
     /\ ilock(ip[p],
          /\ icache' = c /\ dinode' = iupdate(dinode, c, ip[p]) /\ PutIp(p)
          /\ UNCHANGED <<dirent, lock, cwd, ofile, dp, path, fate>>)
LetGo(p) == UNCHANGED lock
HoldDp(p) == Set(lock, dp[p], p)

(* sys_unlink: the directory, then the inode with the directory still locked *)
Unlink(p) ==
  LET c == Loaded(icache, dp[p])
      old == Entry(c, dp[p], Name(p))
  IN /\ pc[p] = "unlink"
     /\ ilock(dp[p],
          IF Name(p) \in Dots \/ old = 0
          THEN iput(p, dp[p], "idle") /\ Give(dp, p) /\ icache' = c /\ UNCHANGED <<lock, ip, fate>>
          ELSE dirlookup(p, c, Name(p),
                 Set(ip, p, SlotOf(c, old)) /\ HoldDp(p) /\ Goto(p, "remove") /\ UNCHANGED dp))
     /\ UNCHANGED <<diskVars, cwd, ofile, path>>

isdirempty(i) == \A n \in Names : dirent[i][n] = 0
Removable(e) == e.type = "dir" => isdirempty(e.inum)

(* a directory's ".." no longer counts as a link to dp *)
Detached(l, p) == IF l[ip[p]].type = "dir" THEN [l EXCEPT ![dp[p]].nlink = @ - 1] ELSE l

Detach(p) ==
  LET l == Loaded(icache, ip[p])
      c == Detached(l, p)
  IN /\ pc[p] = "remove"
     /\ ilock(ip[p],
          /\ l[ip[p]].nlink >= 1
          /\ IF Removable(l[ip[p]])
             THEN /\ dirent' = [dirent EXCEPT ![c[dp[p]].inum][Name(p)] = 0]
                  /\ dinode' = iupdate(dinode, c, dp[p]) /\ icache' = c
                  /\ lock' = [lock EXCEPT ![ip[p]] = p, ![dp[p]] = Nobody]
                  /\ iput(p, dp[p], "removed") /\ Give(dp, p) /\ UNCHANGED ip
             ELSE /\ iput(p, ip[p], "undp") /\ Give(ip, p)
                  /\ icache' = l /\ UNCHANGED <<diskVars, lock, dp>>
          /\ UNCHANGED <<cwd, ofile, path, fate>>)

(* panic "unlink: nlink < 1" *)
UnlinkPanics(p) ==
  pc[p] = "remove" /\ lock[ip[p]] = Nobody /\ Loaded(icache, ip[p])[ip[p]].nlink < 1

Removed(p) ==
  LET c == [icache EXCEPT ![ip[p]].nlink = @ - 1]
  IN /\ pc[p] = "removed"
     /\ icache' = c /\ dinode' = iupdate(dinode, c, ip[p])
     /\ Set(lock, ip[p], Nobody) /\ PutIp(p)
     /\ UNCHANGED <<dirent, cwd, ofile, dp, path, fate>>

(* a crash and the next boot.  The log recovers the disk as some group of calls
   left it, which is how it is whenever no call is under way (module Log) *)
Crash ==
  /\ \A p \in Procs : pc[p] = "idle"
  /\ icache' = BootCache
  /\ cwd' = [p \in Procs |-> 1] /\ ofile' = [p \in Procs |-> 0]
  /\ UNCHANGED <<diskVars, lock, ip, dp, ctl, path, fate>>

Step(p) ==
  \/ \E c \in Calls : Enter(p, c)
  \/ Iput(p) \/ Ifree(p) \/ Idrop(p) \/ NamexEnd(p) \/ Namex(p)
  \/ Open(p) \/ OpenFd(p) \/ Chdir(p) \/ Create(p) \/ Found(p) \/ New(p) \/ Made(p)
  \/ LinkInc(p) \/ LinkDir(p) \/ UnlockDp(p) \/ LinkEnd(p) \/ LinkBad(p)
  \/ Unlink(p) \/ Detach(p) \/ Removed(p)

Next == panicked = "no" /\ \E p \in Procs : Step(p)
NextCrash == Next \/ (panicked = "no" /\ Crash)

Spec == Init /\ [][Next]_vars
SpecCrash == Init /\ [][NextCrash]_vars

-----------------------------------------------------------------------------
(* Properties *)

(* pointers of one kind to entry s *)
Count(f, s) == Cardinality({p \in Procs : f[p] = s})

(* fs.c, "ip->ref tracks the number of in-memory pointers to the entry": ref is
   exactly the pointers that open files, working directories and calls under
   way hold, on every error path. *)
RefsAreExact ==
  \A s \in Slots :
    icache[s].ref = Count(cwd, s) + Count(ofile, s) + Count(ip, s) + Count(dp, s) + Count(put, s)

(* an inode has one cache entry, hence one lock; and a valid entry agrees with the disk
   about type and links whenever nobody holds its lock (write-through) *)
OneEntry ==
  /\ \A s, t \in Slots : icache[s].ref > 0 /\ icache[t].ref > 0 /\ s # t
                           => icache[s].inum # icache[t].inum
  /\ \A s \in Slots : icache[s].ref > 0 /\ icache[s].valid /\ lock[s] = Nobody
                       => dinode[icache[s].inum] = [type |-> icache[s].type, nlink |-> icache[s].nlink]

(* An inode has one cache entry, whose count is exactly the pointers to it (iget, idup,
   iput): two entries would mean two locks. *)
IcacheSound == TypeOK /\ OneEntry /\ RefsAreExact

(* names of inode i other than "." and "..", in directories that are still allocated *)
NamesOf(i) == {x \in Inums \X Names : dinode[x[1]].type = "dir" /\ dirent[x[1]][x[2]] = i}

(* link counts never fall below the names: create and link count first and
   write the entry after, unlink and link's error path the other way around,
   so that no name ever refers to a freed inode, crashes included.  "." and ".."
   are not such names, and once ".." of a removed directory has led to its removed
   parent it does not hold: the parent's inode may by then be a new directory, which
   create is still filling in. *)
LinksCoverNames == ~astray => \A i \in Inums : Cardinality(NamesOf(i)) <= dinode[i].nlink

(* iput frees an inode only when nothing else points at it: an open file or a
   working directory is never of a freed (or reused) inode *)
OpenIsAllocated ==
  \A p \in Procs :
    /\ ofile[p] # 0 => dinode[icache[ofile[p]].inum].type # "free"
    /\ cwd[p] # 0 => dinode[icache[cwd[p]].inum].type = "dir"

(* ilock finds a type and unlink a link (panics "ilock: no type" and "unlink: nlink < 1"),
   on every path but one: from a working directory that was removed, and whose parent was
   removed after it, ".." leads to the freed inode of the parent, and ilock may panic
   (fs.c 309-310).  Running out of inodes ("ialloc: no inodes") or of cache entries
   ("iget: no inodes") is a panic that the code does mean. *)
NoFsPanic ==
  ~astray => panicked # "bad" /\ \A p \in Procs : ~UnlinkPanics(p)

(* fs.c on iput: "If that was the last reference and the inode has no links to
   it, free the inode (and its content) on disk" *)
UnlinkedIsFreed ==
  \A i \in Inums :
    dinode[i].type # "free" /\ dinode[i].nlink = 0
      => \E s \in Slots : icache[s].ref > 0 /\ icache[s].inum = i

(* fs.c on ilock and iget: "The separation also helps avoid deadlock": processes never
   wait for each other's inode locks in a circle *)
Wants(p) ==
  CASE pc[p] = "put" -> put[p]
    [] pc[p] \in {"open", "chdir", "found", "new", "linkinc", "linkbad", "remove"} -> ip[p]
    [] pc[p] \in {"create", "linkdir", "unlink"} -> dp[p]
    [] pc[p] = "walk" /\ path[p] # << >> -> dp[p]
    [] OTHER -> 0
WaitsFor(p, q) == Wants(p) # 0 /\ lock[Wants(p)] = q
NoCircularWait ==
  /\ \A p \in Procs : ~WaitsFor(p, p)
  /\ \A p, q \in Procs : ~(WaitsFor(p, q) /\ WaitsFor(q, p))
=============================================================================
