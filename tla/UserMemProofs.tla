--------------------------- MODULE UserMemProofs ---------------------------
(***************************************************************************)
(* For every word size, page size and process size: what the argument      *)
(* checks of syscall.c accept lies in the process, and exec's arguments    *)
(* lie on the page of the new stack.                                       *)
(***************************************************************************)
EXTENDS UserMem, Basics, TLAPS

(* fetchstr's len is 0 from its start to its end, and the scan stays in the   *)
(* process, so its addresses do not wrap.                                     *)
Scanning == op = "str" => len = 0 /\ addr + done <= sz

Types ==
  /\ sz \in 0 .. KERNBASE - 1 /\ addr \in Addrs /\ len \in Int /\ done \in Nat /\ ret \in Int
  /\ op \in {"none", "int", "ptr", "str", "exec", "copy", "end"} /\ sp \in Addrs

WordAligned(a) == a % WORD = 0
PageAligned(a) == a % PGSIZE = 0

(* sp has not left the stack page; the strings pushed lie between it and sz. *)
Stack ==
  /\ argv \in Seq(Nat \X Nat)
  /\ op = "none" => argv = << >>
  /\ op \in {"exec", "copy"} =>
       /\ PageAligned(sz) /\ sz >= 2 * PGSIZE
       /\ sp >= sz - PGSIZE /\ sp <= sz
       /\ \A i \in 1 .. Len(argv) :
            argv[i][1] >= sp /\ argv[i][1] + argv[i][2] <= sz /\ WordAligned(argv[i][1])
       /\ \A i, j \in 1 .. Len(argv) : i < j => argv[j][1] + argv[j][2] <= argv[i][1]

(* copyout stops at the guard page: what it has written lies above that page  *)
(* or below it, or started above sz and wrapped.                              *)
Copying ==
  op = "copy" =>
    /\ len \in Lens /\ done <= len /\ addr = Pushed(len)
    /\ done > 0 /\ addr < sz => addr >= sz - PGSIZE \/ addr + done <= sz - 2 * PGSIZE
    /\ done > 0 /\ addr >= sz => addr + done <= WRAP + (sz - 2 * PGSIZE)

IInv == Types /\ Scanning /\ Stack /\ Copying /\ AcceptedInside /\ StringInside

-----------------------------------------------------------------------------
(* The sum that fetchint checks does not wrap for an address below sz.        *)
LEMMA FetchableInside ==
  ASSUME UserMemAssumption, Types, NEW a \in Addrs, Fetchable(a)
  PROVE  a + WORD <= sz /\ a < sz
BY DEF UserMemAssumption, Types, Fetchable, Plus, Addrs

(* Nor does the one that argptr checks, as a length is below 2^31.            *)
LEMMA InRangeInside ==
  ASSUME UserMemAssumption, Types, NEW i \in Addrs, NEW size \in Ints, InRange(i, size)
  PROVE  i + size <= sz /\ i < sz /\ size >= 0
BY DEF UserMemAssumption, Types, InRange, Plus, Addrs, Ints

(* It holds before the first call.                                            *)
LEMMA InitIInv ==
  ASSUME UserMemAssumption, Init
  PROVE  IInv
<1> USE UserMemAssumption DEF UserMemAssumption, Init
<1>1. Types BY DEF Types, Addrs
<1>2. Stack BY DEF Stack
<1> QED BY Zenon, <1>1, <1>2 DEF IInv, Scanning, Copying, AcceptedInside, StringInside

(* An address exec chooses is an address; it lies in the process only if the  *)
(* string fits below sp, and then less than a word is left between them.      *)
(* Otherwise it wraps, and the string's end lies above the guard page's start. *)
LEMMA PushedFits ==
  ASSUME UserMemAssumption, Types, Stack, op \in {"exec", "copy"}, NEW n \in Lens
  PROVE  /\ Pushed(n) \in Addrs /\ WordAligned(Pushed(n))
         /\ Pushed(n) < sz => Pushed(n) + n <= sp /\ sp - WORD < Pushed(n) + n
         /\ Pushed(n) >= sz => Pushed(n) + n > WRAP + (sz - 2 * PGSIZE)
<1> DEFINE x == Minus(sp, n)
           m == x % WORD
<1>1. /\ n \in 1 .. KERNBASE /\ sp \in Addrs /\ sz \in 0 .. KERNBASE - 1 /\ WORD \in Nat \ {0}
      /\ WORD <= PGSIZE /\ PGSIZE \in Nat /\ WRAP \in Nat /\ KERNBASE \in Nat
      /\ 2 * KERNBASE <= WRAP
  BY DEF UserMemAssumption, Types
<1>2. sp >= sz - PGSIZE /\ sp <= sz /\ sz >= 2 * PGSIZE BY Zenon DEF Stack
<1>3. x \in Nat /\ x < WRAP BY <1>1 DEF Minus, Addrs
<1>4. Pushed(n) = x - m BY Zenon DEF Pushed
<1> HIDE DEF x
<1>5. m \in 0 .. WORD - 1 /\ m <= x BY Zenon, <1>1, <1>3, ModRange
<1>6. (x - m) % WORD = 0 BY <1>1, <1>3, RoundedIsMultiple
<1>7. WordAligned(Pushed(n)) BY Zenon, <1>4, <1>6 DEF WordAligned
<1> HIDE DEF m
<1>8. Pushed(n) \in Addrs BY <1>1, <1>3, <1>4, <1>5 DEF Addrs
<1>9. Pushed(n) < sz => n <= sp BY <1>1, <1>2, <1>4, <1>5 DEF x, Minus, Addrs
<1>10. n <= sp => x = sp - n BY Zenon DEF x, Minus
<1>11. Pushed(n) < sz => Pushed(n) + n <= sp /\ sp - WORD < Pushed(n) + n
  BY <1>1, <1>4, <1>5, <1>9, <1>10 DEF Addrs
<1>12. Pushed(n) >= sz => Pushed(n) + n > WRAP + (sz - 2 * PGSIZE)
  <2>1. n > sp => x = sp - n + WRAP BY <1>1 DEF x, Minus, Addrs
  <2> QED BY <1>1, <1>2, <1>4, <1>5, <1>10, <2>1 DEF Addrs
<1> QED BY Zenon, <1>7, <1>8, <1>11, <1>12

(* One round of copyout ends in the page where it starts.                     *)
LEMMA RoundFits ==
  ASSUME UserMemAssumption, Types, op = "copy", done < len, NEW a \in Nat
  PROVE  /\ Round(a) \in Nat \ {0} /\ Round(a) <= len - done
         /\ \A e \in Nat : PageAligned(e) /\ a < e => a + Round(a) <= e
<1> DEFINE m == a % PGSIZE
<1>1. PGSIZE \in Nat \ {0} /\ len \in Int /\ done \in Nat BY Zenon DEF UserMemAssumption, Types
<1>2. m \in 0 .. PGSIZE - 1 BY Zenon, <1>1, ModRange
<1>3. Round(a) = (IF PGSIZE - m < len - done THEN PGSIZE - m ELSE len - done)
  BY Zenon DEF Round, Least, InPage
<1>4. ASSUME NEW e \in Nat, PageAligned(e), a < e PROVE a + (PGSIZE - m) <= e
  <2>1. e \in Int /\ a \in Int OBVIOUS
  <2> QED BY Zenon, <1>1, <1>4, <2>1, PageEnd DEF PageAligned
<1> HIDE DEF m
<1>5. Round(a) \in Nat \ {0} /\ Round(a) <= PGSIZE - m /\ Round(a) <= len - done BY <1>1, <1>2, <1>3
<1>6. ASSUME NEW e \in Nat, PageAligned(e), a < e PROVE a + Round(a) <= e
  <2>1. a + (PGSIZE - m) <= e BY Zenon, <1>4, <1>6
  <2> QED BY <1>1, <1>2, <1>5, <2>1
<1> QED BY Zenon, <1>5, <1>6

(* A page of the user's is above the guard page or below it.                  *)
LEMMA BesideGuard ==
  ASSUME UserMemAssumption, Types, PageAligned(sz), NEW a \in Nat, UserPage(a)
  PROVE  a < sz /\ (a >= sz - PGSIZE \/ a < (sz - PGSIZE) - PGSIZE)
<1>1. sz \in Int /\ a \in Int /\ PGSIZE \in Nat \ {0} BY DEF Types, UserMemAssumption
<1>2. a < sz BY Zenon DEF UserPage
<1> SUFFICES ASSUME a < sz - PGSIZE, (sz - PGSIZE) - PGSIZE <= a PROVE FALSE
  BY <1>1, <1>2
<1>3. a \div PGSIZE = sz \div PGSIZE - 2 BY Zenon, <1>1, SecondLastPage DEF PageAligned
<1> QED BY Zenon, <1>3 DEF UserPage

(* What the steps of copyout start from.                                      *)
Under(a) ==
  /\ op = "copy" /\ len \in 1 .. KERNBASE /\ done < len /\ addr \in Addrs /\ done \in Nat
  /\ sz \in 0 .. KERNBASE - 1 /\ PGSIZE \in Nat \ {0} /\ KERNBASE \in Nat /\ WRAP \in Nat
  /\ 2 * KERNBASE <= WRAP /\ PageAligned(sz) /\ sz >= 2 * PGSIZE
  /\ done > 0 /\ addr < sz => addr >= sz - PGSIZE \/ addr + done <= sz - 2 * PGSIZE
  /\ done > 0 /\ addr >= sz => addr + done <= WRAP + (sz - 2 * PGSIZE)
  /\ addr < sz => addr + len <= sz
  /\ a \in Nat /\ a = (IF addr + done < WRAP THEN addr + done ELSE addr + done - WRAP)

LEMMA UnderWay ==
  ASSUME UserMemAssumption, Types, Stack, Copying, op = "copy", done < len
  PROVE  Under(Plus(addr, done))
<1>1. /\ len \in 1 .. KERNBASE /\ addr \in Addrs /\ done \in Nat /\ len \in Lens
      /\ sz \in 0 .. KERNBASE - 1 /\ PGSIZE \in Nat \ {0} /\ KERNBASE \in Nat /\ WRAP \in Nat
      /\ 2 * KERNBASE <= WRAP /\ PageAligned(sz) /\ sz >= 2 * PGSIZE /\ sp <= sz /\ sp \in Addrs
  BY Zenon DEF UserMemAssumption, Copying, Types, Stack
<1>2. addr < sz => addr + len <= sp BY Zenon, <1>1, PushedFits DEF Copying
<1>3. addr < sz => addr + len <= sz BY <1>1, <1>2 DEF Addrs
<1>4. Plus(addr, done) = (IF addr + done < WRAP THEN addr + done ELSE addr + done - WRAP)
  BY Zenon DEF Plus
<1>5. Plus(addr, done) \in Nat BY <1>1, <1>4 DEF Addrs
<1> QED BY Zenon, <1>1, <1>3, <1>4, <1>5 DEF Under, Copying

(* A step of copyout keeps to one side of the guard page.                     *)
LEMMA CopyStep ==
  ASSUME UserMemAssumption, Types, Stack, Copying, Copy \/ CopyAstray
  PROVE  done' \in Nat /\ Copying'
<1>1. PICK a : a = Plus(addr, done) OBVIOUS
<1>2. /\ op = "copy" /\ done < len /\ done' = done + Round(a) /\ UNCHANGED <<sz, op, addr, len, sp>>
      /\ UserPage(a) \/ a >= sz
  BY Zenon, <1>1 DEF Copy, CopyAstray
<1>3. Under(a) BY Zenon, <1>1, <1>2, UnderWay
<1>4. a \in Nat /\ PageAligned(sz) BY Zenon, <1>3 DEF Under
<1> DEFINE n == Round(a)
           g == (sz - PGSIZE) - PGSIZE
<1>5. /\ n \in Nat \ {0} /\ n <= len - done
      /\ \A e \in Nat : PageAligned(e) /\ a < e => a + n <= e
  BY Zenon, <1>2, <1>4, RoundFits
<1> HIDE DEF n
<1>6. a < WRAP => a + n <= WRAP
  <2>1. WRAP \in Nat /\ PageAligned(WRAP) BY Zenon DEF UserMemAssumption, PageAligned
  <2> QED BY Zenon, <1>5, <2>1
<1>7. a < g => a + n <= g
  <2>1. g \in Nat BY <1>3 DEF Under
  <2>2. sz \in Int /\ sz - PGSIZE \in Int /\ PGSIZE \in Nat \ {0} BY <1>3 DEF Under
  <2>3. (sz - PGSIZE) % PGSIZE = 0 BY Zenon, <1>4, <2>2, PageBefore DEF PageAligned
  <2>4. PageAligned(g) BY Zenon, <2>2, <2>3, PageBefore DEF PageAligned, g
  <2> QED BY Zenon, <1>5, <2>1, <2>4
<1>8. UserPage(a) => a < sz /\ (a >= sz - PGSIZE \/ a < g) BY Zenon, <1>4, BesideGuard
<1>9. done' \in Nat /\ done' <= len BY <1>2, <1>3, <1>5 DEF Under, n
<1>10. addr < sz => addr >= sz - PGSIZE \/ addr + done' <= sz - 2 * PGSIZE
  BY <1>2, <1>3, <1>5, <1>7, <1>8 DEF Under, Addrs, n
<1>11. addr >= sz => addr + done' <= WRAP + (sz - 2 * PGSIZE)
  BY <1>2, <1>3, <1>5, <1>6, <1>7, <1>8 DEF Under, Addrs, n
<1>12. (addr = Pushed(len))' BY Zenon, <1>2 DEF Copying, Pushed
<1> QED BY Zenon, <1>2, <1>9, <1>10, <1>11, <1>12 DEF Copying

(* A string wholly copied lies in the stack page, below those before it.      *)
LEMMA CopiedStep ==
  ASSUME UserMemAssumption, Types, Stack, Copying, Copied
  PROVE  Stack'
<1>1. /\ op = "copy" /\ len \in Lens /\ len \in Nat \ {0} /\ done = len /\ addr = Pushed(len)
      /\ addr \in Nat /\ sp \in Nat /\ sz \in Nat /\ PGSIZE \in Nat /\ WORD \in Nat
      /\ WORD <= PGSIZE
  BY DEF UserMemAssumption, Copied, Copying, Types, Addrs
<1>2. /\ argv \in Seq(Nat \X Nat) /\ sp >= sz - PGSIZE /\ sp <= sz
      /\ PageAligned(sz) /\ sz >= 2 * PGSIZE
  BY Zenon, <1>1 DEF Stack
<1>3. addr < sz /\ (addr >= sz - PGSIZE \/ addr + len <= sz - 2 * PGSIZE)
  <2>1. addr >= sz => addr + len > WRAP + (sz - 2 * PGSIZE) BY Zenon, <1>1, PushedFits
  <2>2. /\ addr < sz => addr >= sz - PGSIZE \/ addr + len <= sz - 2 * PGSIZE
        /\ addr >= sz => addr + len <= WRAP + (sz - 2 * PGSIZE)
    BY <1>1 DEF Copying
  <2>3. WRAP \in Nat BY Zenon DEF UserMemAssumption
  <2> QED BY <1>1, <2>1, <2>2, <2>3
<1>4. WordAligned(addr) /\ addr + len <= sp /\ sp - WORD < addr + len
  BY Zenon, <1>1, <1>3, PushedFits
<1>5. addr >= sz - PGSIZE /\ addr <= sp BY <1>1, <1>2, <1>3, <1>4
<1>6. sp' = addr /\ sz' = sz /\ op' = "exec" /\ argv' = Append(argv, <<addr, len>>)
  BY Zenon DEF Copied
<1>7. /\ argv' \in Seq(Nat \X Nat) /\ Len(argv') = Len(argv) + 1 /\ Len(argv) \in Nat
      /\ \A i \in 1 .. Len(argv) :
           argv'[i] = argv[i] /\ argv[i][1] \in Nat /\ argv[i][2] \in Nat
      /\ argv'[Len(argv) + 1][1] = addr /\ argv'[Len(argv) + 1][2] = len
  <2> DEFINE a == <<addr, len>>
  <2>1. a \in Nat \X Nat /\ a[1] = addr /\ a[2] = len BY <1>1
  <2>2. argv' = Append(argv, a) BY Zenon, <1>6
  <2> HIDE DEF a
  <2>3. /\ argv' \in Seq(Nat \X Nat) /\ Len(argv') = Len(argv) + 1
        /\ \A i \in 1 .. Len(argv) : argv'[i] = argv[i]
        /\ argv'[Len(argv) + 1] = a
    BY <1>2, <2>1, <2>2, AppendFacts
  <2>4. Len(argv) \in Nat /\ \A i \in 1 .. Len(argv) : argv[i][1] \in Nat /\ argv[i][2] \in Nat
    BY <1>2
  <2> QED BY Zenon, <2>1, <2>3, <2>4
<1>8. ASSUME NEW i \in 1 .. Len(argv')
      PROVE  /\ argv'[i][1] >= addr /\ argv'[i][1] + argv'[i][2] <= sz
             /\ WordAligned(argv'[i][1])
  <2>1. CASE i = Len(argv) + 1
    <3>1. argv'[i][1] = addr /\ argv'[i][2] = len BY Zenon, <2>1, <1>7
    <3> QED BY <3>1, <1>1, <1>2, <1>4
  <2>2. CASE i \in 1 .. Len(argv)
    <3>1. /\ argv[i][1] >= sp /\ argv[i][1] + argv[i][2] <= sz /\ WordAligned(argv[i][1])
      BY Zenon, <2>2, <1>1 DEF Stack
    <3>2. argv'[i] = argv[i] /\ argv[i][1] \in Nat BY Zenon, <2>2, <1>7
    <3> QED BY <3>1, <3>2, <1>1, <1>5
  <2> QED BY <2>1, <2>2, <1>7
<1>9. ASSUME NEW i \in 1 .. Len(argv'), NEW j \in 1 .. Len(argv'), i < j
      PROVE  argv'[j][1] + argv'[j][2] <= argv'[i][1]
  <2>1. i \in 1 .. Len(argv) BY <1>7, <1>9
  <2>2. argv'[i] = argv[i] /\ argv[i][1] \in Nat BY Zenon, <2>1, <1>7
  <2>3. CASE j = Len(argv) + 1
    <3>1. argv[i][1] >= sp BY Zenon, <2>1, <1>1 DEF Stack
    <3>2. argv'[j][1] = addr /\ argv'[j][2] = len BY Zenon, <2>3, <1>7
    <3> QED BY <2>2, <3>1, <3>2, <1>1, <1>4
  <2>4. CASE j \in 1 .. Len(argv)
    <3>1. argv[j][1] + argv[j][2] <= argv[i][1] BY Zenon, <2>1, <2>4, <1>1, <1>9 DEF Stack
    <3> QED BY Zenon, <2>2, <2>4, <3>1, <1>7
  <2> QED BY <2>3, <2>4, <1>7
<1>10. \A i \in 1 .. Len(argv') :
         argv'[i][1] >= sp' /\ argv'[i][1] + argv'[i][2] <= sz' /\ WordAligned(argv'[i][1])
  BY Zenon, <1>6, <1>8
<1>11. \A i, j \in 1 .. Len(argv') : i < j => argv'[j][1] + argv'[j][2] <= argv'[i][1]
  BY Zenon, <1>9
<1>12. PageAligned(sz') /\ sz' >= 2 * PGSIZE /\ sp' >= sz' - PGSIZE /\ sp' <= sz'
  BY <1>1, <1>2, <1>3, <1>5, <1>6
<1> QED BY Zenon, <1>6, <1>7, <1>10, <1>11, <1>12 DEF Stack

(* Every call and every step of exec keeps it.                                *)
LEMMA NextIInv ==
  ASSUME UserMemAssumption, IInv, [Next]_vars
  PROVE  IInv'
<1> USE UserMemAssumption, IInv DEF UserMemAssumption, IInv
<1>1. ASSUME NEW a \in Addrs, fetchint(a) PROVE IInv'
  <2>1. Types' BY <1>1 DEF fetchint, Types, Addrs
  <2>2. Scanning' /\ StringInside' /\ Copying' BY Zenon, <1>1 DEF fetchint, Scanning, StringInside, Copying
  <2>3. Stack' BY Zenon, <1>1 DEF fetchint, Stack
  <2>4. AcceptedInside'
    BY <1>1, FetchableInside DEF fetchint, AcceptedInside, Types, Addrs
  <2> QED BY Zenon, <2>1, <2>2, <2>3, <2>4
<1>2. ASSUME NEW a \in Addrs, fetchstr(a) PROVE IInv'
  <2>1. Types' /\ Scanning' /\ AcceptedInside' /\ StringInside'
    BY <1>2 DEF fetchstr, Types, Scanning, AcceptedInside, StringInside, Addrs
  <2>2. Stack' BY <1>2 DEF fetchstr, Stack
  <2>3. Copying' BY <1>2 DEF fetchstr, Copying
  <2> QED BY Zenon, <2>1, <2>2, <2>3
<1>3. ASSUME NEW i \in Addrs, NEW size \in Ints, argptr(i, size) PROVE IInv'
  <2>1. Types' BY <1>3 DEF argptr, Types, Addrs, Ints
  <2>2. Scanning' /\ StringInside' /\ Copying' BY Zenon, <1>3 DEF argptr, Scanning, StringInside, Copying
  <2>3. Stack' BY Zenon, <1>3 DEF argptr, Stack
  <2>4. AcceptedInside'
    BY <1>3, InRangeInside DEF argptr, AcceptedInside, Types
  <2> QED BY Zenon, <2>1, <2>2, <2>3, <2>4
<1>4. CASE Scan
  <2>1. Types' /\ Scanning' /\ AcceptedInside' /\ StringInside'
    BY <1>4 DEF Scan, Finish, BeforeEnd, Types, Scanning, AcceptedInside, StringInside, Addrs
  <2>2. Stack' /\ Copying' BY Zenon, <1>4 DEF Scan, Finish, Stack, Copying
  <2> QED BY Zenon, <2>1, <2>2
<1>5. CASE Exec
  <2>1. Types' BY <1>5 DEF Exec, Types, Addrs
  <2>2. Stack' BY <1>5 DEF Exec, Stack, Types, PageAligned
  <2> QED BY Zenon, <1>5, <2>1, <2>2 DEF Exec, Copying, Scanning, AcceptedInside, StringInside
<1>6. ASSUME NEW n \in Lens, PushArg(n) PROVE IInv'
  <2>1. Pushed(n) \in Addrs BY Zenon, <1>6, PushedFits DEF PushArg
  <2>2. Types' BY <1>6, <2>1 DEF PushArg, Types
  <2>3. Stack' BY Zenon, <1>6 DEF PushArg, Stack
  <2>4. Copying' BY <1>6 DEF PushArg, Copying, Pushed
  <2> QED BY Zenon, <1>6, <2>2, <2>3, <2>4 DEF PushArg, Scanning, AcceptedInside, StringInside
<1>7. CASE Copy \/ CopyAstray
  <2>1. done' \in Nat /\ Copying' BY Zenon, <1>7, CopyStep
  <2>2. op = "copy" /\ UNCHANGED <<sz, nuls, op, addr, len, ret, sp, argv>> BY Zenon, <1>7 DEF Copy, CopyAstray
  <2>3. Stack' BY Zenon, <2>2 DEF Stack
  <2> QED BY Zenon, <2>1, <2>2, <2>3 DEF Types, Scanning, AcceptedInside, StringInside
<1>8. CASE CopyFails
  <2>1. Stack' BY Zenon, <1>8 DEF CopyFails, Finish, Stack
  <2> QED
    BY <1>8, <2>1 DEF CopyFails, Finish, Types, Copying, Scanning, AcceptedInside, StringInside
<1>9. CASE Copied
  <2>1. Stack' BY Zenon, <1>9, CopiedStep
  <2>2. Types' BY <1>9 DEF Copied, Types, Addrs
  <2> QED BY Zenon, <1>9, <2>1, <2>2 DEF Copied, Copying, Scanning, AcceptedInside, StringInside
<1>10. CASE UNCHANGED vars
  <2>1. Stack' BY Zenon, <1>10 DEF vars, Stack
  <2>2. Copying' BY Zenon, <1>10 DEF vars, Copying, Pushed
  <2> QED BY Zenon, <1>10, <2>1, <2>2 DEF vars, Types, Scanning, AcceptedInside, StringInside
<1> QED
  BY Zenon, <1>1, <1>2, <1>3, <1>4, <1>5, <1>6, <1>7, <1>8, <1>9, <1>10 DEF Next

(* argint and argptr accept only ranges, and fetchstr only strings, that lie  *)
(* in the process (syscall.c 17-45, 55-68).                                   *)
THEOREM ArgumentsInside ==
  ASSUME UserMemAssumption
  PROVE  Spec => [](AcceptedInside /\ StringInside)
<1>1. Init => IInv BY Zenon, InitIInv
<1>2. IInv /\ [Next]_vars => IInv' BY Zenon, NextIInv
<1>3. IInv => AcceptedInside /\ StringInside BY Zenon DEF IInv
<1> QED BY <1>1, <1>2, <1>3, PTL DEF Spec

(* The strings exec has copied lie apart on the stack page.  One that does    *)
(* not fit meets the guard page, at which copyout fails: also one so long     *)
(* that sp wraps, whose first pages uva2ka may send anywhere (exec.c 72-79,   *)
(* vm.c 349-360).                                                             *)
THEOREM ArgumentsOnStack ==
  ASSUME UserMemAssumption
  PROVE  Spec => []ArgsOnStack
<1>1. Init => IInv BY InitIInv
<1>2. IInv /\ [Next]_vars => IInv' BY NextIInv
<1>3. IInv => ArgsOnStack
  <2> SUFFICES ASSUME IInv, op = "exec" PROVE ArgsOnStack BY Zenon DEF ArgsOnStack
  <2> USE DEF IInv
  <2>1. ASSUME NEW i \in 1 .. Len(argv) PROVE argv[i][1] >= sz - PGSIZE
    <3>1. argv[i][1] >= sp /\ sp >= sz - PGSIZE /\ argv[i] \in Nat \X Nat BY <2>1 DEF Stack
    <3>2. sp \in Nat /\ sz \in Nat /\ PGSIZE \in Nat
      BY UserMemAssumption DEF Types, Addrs, UserMemAssumption
    <3> QED BY <3>1, <3>2
  <2> QED BY Zenon, <2>1 DEF Stack, ArgsOnStack, WordAligned
<1> QED BY <1>1, <1>2, <1>3, PTL DEF Spec
=============================================================================
