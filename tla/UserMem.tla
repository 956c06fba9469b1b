------------------------------ MODULE UserMem ------------------------------
(***************************************************************************)
(* How the kernel reaches into a process's memory: the checks on system    *)
(* call arguments (syscall.c: fetchint, argint, argptr, fetchstr, argstr), *)
(* copyout (vm.c), and exec's copying of the arguments onto the new stack  *)
(* (exec.c).  Addresses are unsigned and wrap at WRAP, as uint does; a     *)
(* step of fetchstr is one byte, a step of copyout one page.               *)
(***************************************************************************)
EXTENDS Integers, Sequences

CONSTANTS
  WRAP,       \* 2^32
  KERNBASE,   \* user memory ends below it
  PGSIZE,
  WORD,       \* sizeof(int)
  Lens,       \* lengths of argument strings, with their nul
  MAXARG

UserMemAssumption ==
  /\ WRAP \in Nat /\ KERNBASE \in Nat \ {0} /\ 2 * KERNBASE <= WRAP /\ WORD \in 1 .. KERNBASE
  /\ PGSIZE \in Nat \ {0} /\ WORD <= PGSIZE /\ WRAP % PGSIZE = 0 /\ MAXARG \in Nat
  /\ Lens \subseteq 1 .. KERNBASE   \* the strings were in a process's memory

VARIABLES
  sz,        \* the process's size
  nuls,      \* addresses of zero bytes, from the string's start on
  op,        \* the call under way
  addr,      \* its address
  len,       \* its length, or copyout's total
  done,      \* bytes fetchstr or copyout has dealt with
  ret,       \* 0 or a length: accepted; -1: refused
  sp, argv,  \* exec: the new stack's top and the strings copied, <<address, length>>
  mem        \* what copyout wrote to the new image: from <<page, offset>> to index
             \* in its buffer

vars == <<sz, nuls, op, addr, len, done, ret, sp, argv, mem>>
Addrs == 0 .. WRAP - 1
Ints == - (WRAP \div 2) .. (WRAP - 1) \div 2

Plus(a, k) == IF a + k < WRAP THEN a + k ELSE a + k - WRAP
Minus(a, k) == IF k <= a THEN a - k ELSE a - k + WRAP

TypeOK ==
  /\ sz \in 0 .. KERNBASE - 1 /\ nuls \subseteq Addrs
  /\ op \in {"none", "int", "ptr", "str", "exec", "copy", "end"}
  /\ addr \in Addrs /\ len \in Int /\ done \in Nat /\ ret \in Int
  /\ sp \in Addrs /\ \A i \in 1 .. Len(argv) : argv[i] \in Addrs \X Nat

(* allocuvm keeps sizes below KERNBASE *)
Init ==
  /\ sz \in 0 .. KERNBASE - 1 /\ nuls = {}
  /\ op = "none" /\ addr = 0 /\ len = 0 /\ done = 0 /\ ret = 0
  /\ sp = 0 /\ argv = << >> /\ mem = << >>

-----------------------------------------------------------------------------
Finish(r) == op' = "end" /\ ret' = r /\ UNCHANGED <<sz, nuls, sp, argv, mem>>

(* fetchint, and argint, whose address esp + 4 + 4n may be anything *)
Fetchable(a) == a < sz /\ Plus(a, WORD) <= sz

fetchint(a) ==
  /\ op = "none" /\ addr' = a /\ len' = WORD /\ done' = 0
  /\ op' = "int" /\ ret' = (IF Fetchable(a) THEN 0 ELSE -1)
  /\ UNCHANGED <<sz, nuls, sp, argv, mem>>

(* argptr, once it has fetched the pointer *)
InRange(i, size) == size >= 0 /\ i < sz /\ Plus(i, size) <= sz

argptr(i, size) ==
  /\ op = "none" /\ addr' = i /\ len' = size /\ done' = 0
  /\ op' = "ptr" /\ ret' = (IF InRange(i, size) THEN 0 ELSE -1)
  /\ UNCHANGED <<sz, nuls, sp, argv, mem>>

(* fetchstr, once argstr has fetched the pointer: byte by byte up to sz.       *)
(* Past sz there may be zero bytes too; of those from a on, the first one and  *)
(* some other stand for all.                                                   *)
fetchstr(a) ==
  /\ op = "none" /\ addr' = a /\ len' = 0 /\ done' = 0
  /\ nuls' \in {{}} \cup {{x, y} : x, y \in a .. sz}
  /\ IF a >= sz THEN op' = "end" /\ ret' = -1 ELSE op' = "str" /\ ret' = 0
  /\ UNCHANGED <<sz, sp, argv, mem>>

BeforeEnd(s) == s < sz

Scan ==
  /\ op = "str" /\ UNCHANGED <<addr, len>>
  /\ LET s == addr + done IN
     \/ BeforeEnd(s) /\ s \notin nuls /\ done' = done + 1
        /\ UNCHANGED <<op, ret, sz, nuls, sp, argv, mem>>
     \/ BeforeEnd(s) /\ s \in nuls /\ Finish(done) /\ UNCHANGED done
     \/ ~BeforeEnd(s) /\ Finish(-1) /\ UNCHANGED done

-----------------------------------------------------------------------------
(* exec: two pages above the image, the lower one without PTE_U (clearpteu).   *)
(* sz is the new image's; it is kept a multiple of PGSIZE by PGROUNDUP.        *)
Exec ==
  /\ op = "none" /\ sz % PGSIZE = 0 /\ sz >= 2 * PGSIZE
  /\ op' = "exec" /\ sp' = sz
  /\ UNCHANGED <<sz, nuls, addr, len, done, ret, argv, mem>>

(* uva2ka: pages below sz are present, the guard page is not the user's *)
NoGuard(a) == a < sz

UserPage(a) == a < sz /\ a \div PGSIZE # sz \div PGSIZE - 2

(* (sp - n) & ~3 *)
Pushed(n) == Minus(sp, n) - (Minus(sp, n) % WORD)

PushArg(n) ==
  /\ op = "exec" /\ Len(argv) < MAXARG
  /\ op' = "copy" /\ addr' = Pushed(n) /\ len' = n /\ done' = 0 /\ mem' = << >>
  /\ UNCHANGED <<sz, nuls, ret, sp, argv>>

InPage(a) == PGSIZE - (a % PGSIZE)

(* copyout's loop *)
Least(a, b) == IF a < b THEN a ELSE b

(* memmove(pa0 + (va - va0), buf, n): n bytes on from an offset in one page *)
Write(a, n) ==
  LET Byte(k) == <<a \div PGSIZE, (a % PGSIZE) + k>>
      new == {Byte(k) : k \in 0 .. n - 1}
  IN [x \in DOMAIN mem \cup new |-> IF x \in new THEN done + (x[2] - (a % PGSIZE)) ELSE mem[x]]

(* one round at address a: what fits in its page *)
Round(a) == Least(InPage(a), len - done)

Copy ==
  LET a == Plus(addr, done)
  IN /\ op = "copy" /\ done < len /\ UserPage(a)
     /\ mem' = Write(a, Round(a)) /\ done' = done + Round(a)
     /\ UNCHANGED <<sz, nuls, op, addr, len, ret, sp, argv>>

CopyFails ==
  /\ op = "copy" /\ done < len /\ ~UserPage(Plus(addr, done))
  /\ Finish(-1) /\ UNCHANGED <<addr, len, done>>

(* Above sz, where sp - n ends up when it wraps, no page is the user's.  Where  *)
(* there is no page table either, walkpgdir returns 0 and uva2ka takes the word *)
(* at address 0, the running program's, for an entry: by what it says copyout   *)
(* fails, or goes on with some other page.                                      *)
CopyAstray ==
  LET a == Plus(addr, done)
  IN /\ op = "copy" /\ done < len /\ a >= sz
     /\ done' = done + Round(a)
     /\ UNCHANGED <<sz, nuls, op, addr, len, ret, sp, argv, mem>>

Copied ==
  /\ op = "copy" /\ done = len
  /\ op' = "exec" /\ sp' = addr /\ argv' = Append(argv, <<addr, len>>)
  /\ mem' = << >> /\ addr' = 0 /\ len' = 0 /\ done' = 0
  /\ UNCHANGED <<sz, nuls, ret>>

Next ==
  \/ \E a \in Addrs : fetchint(a) \/ fetchstr(a) \/ \E size \in Ints : argptr(a, size)
  \/ Scan
  \/ Exec \/ (\E n \in Lens : PushArg(n)) \/ Copy \/ CopyFails \/ CopyAstray \/ Copied

Spec == Init /\ [][Next]_vars

-----------------------------------------------------------------------------
(* A range that argint or argptr accepts lies wholly below sz, although the    *)
(* sum it checks is computed modulo 2^32 and the length may be negative.       *)
AcceptedInside ==
  op \in {"int", "ptr"} /\ ret = 0 => addr + len <= sz /\ (len > 0 => addr < sz) /\ len >= 0

(* A string that fetchstr accepts ends below sz, at its first nul.             *)
StringInside ==
  /\ op = "str" => \A a \in addr .. addr + done - 1 : a < sz /\ a \notin nuls
  /\ op = "end" /\ len = 0 /\ ret >= 0 => addr + ret < sz /\ addr + ret \in nuls

(* While copyout runs, it has written byte k of its buffer to address addr + k *)
(* for exactly those of the first bytes whose address is in the image, across  *)
(* page boundaries and the wrap.                                               *)
CopiesInOrder ==
  op = "copy" =>
    /\ DOMAIN mem = {<<x \div PGSIZE, x % PGSIZE>> :
                       x \in {y \in 0 .. sz - 1 : \E k \in 0 .. done - 1 : y = Plus(addr, k)}}
    /\ \A x \in DOMAIN mem : mem[x] = Minus(PGSIZE * x[1] + x[2], addr)

(* The arguments exec has pushed lie in the stack page, in separate, aligned   *)
(* ranges.  One too long for the page, or for the address space, so that sp    *)
(* wraps and uva2ka may send its first pages astray, meets the guard page      *)
(* before its end, and exec fails.                                             *)
ArgsOnStack ==
  op = "exec" =>
    /\ \A i \in 1 .. Len(argv) :
         argv[i][1] >= sz - PGSIZE /\ argv[i][1] + argv[i][2] <= sz /\ argv[i][1] % WORD = 0
    /\ \A i, j \in 1 .. Len(argv) : i < j => argv[j][1] + argv[j][2] <= argv[i][1]
=============================================================================
