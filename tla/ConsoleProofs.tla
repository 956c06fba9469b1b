--------------------------- MODULE ConsoleProofs ---------------------------
(***************************************************************************)
(* Console input for any ring size, any number of readers and any screen:  *)
(* the ring's indices stay in order, a full ring can be read, no reader    *)
(* sleeps with a line to read, each ^D ends one read.                      *)
(***************************************************************************)
EXTENDS Console, Basics, TLAPS

PCs == {"idle", "lock", "read", "sleep", "asleep", "woken"}

Types ==
  /\ r \in Index /\ w \in Index /\ e \in Index
  /\ cons \in Readers \cup {"intr", Nobody}
  /\ pc \in [Readers -> PCs] /\ n \in [Readers -> Nat] /\ target \in [Readers -> Nat]

(* Between the test for input and the sleep, cons.lock is held: nothing comes. *)
Holds ==
  \A p \in Readers :
    /\ pc[p] \in {"read", "sleep"} => cons = p
    /\ pc[p] = "sleep" => Empty
    /\ n[p] <= target[p]

IInv == Types /\ Holds /\ InOrder /\ NeverStuck /\ SleepersHaveNothing

-----------------------------------------------------------------------------
(* Indices modulo 2^32, as far apart as the ring allows: the distances from   *)
(* r to w and from w to e change as the code means them to.                   *)
LEMMA Apart ==
  ASSUME ConsoleAssumption, NEW x \in Index, NEW y \in Index
  PROVE  Minus(x, y) \in Index /\ (Minus(x, y) = 0 <=> x = y)
BY DEF ConsoleAssumption, Minus, Index

(* Advancing the front index adds one to the distance.                        *)
LEMMA OneMore ==
  ASSUME ConsoleAssumption, NEW x \in Index, NEW y \in Index, Minus(x, y) + 1 < WRAP
  PROVE  Plus(x, 1) \in Index /\ Minus(Plus(x, 1), y) = Minus(x, y) + 1
BY DEF ConsoleAssumption, Minus, Plus, Index

(* Advancing the back index takes one from the distance.                      *)
LEMMA OneTaken ==
  ASSUME ConsoleAssumption, NEW x \in Index, NEW y \in Index, Minus(x, y) > 0
  PROVE  Plus(y, 1) \in Index /\ Minus(x, Plus(y, 1)) = Minus(x, y) - 1
BY DEF ConsoleAssumption, Minus, Plus, Index

(* Moving the front index back by k takes k from the distance.                *)
LEMMA FewerBy ==
  ASSUME ConsoleAssumption, NEW x \in Index, NEW y \in Index, NEW k \in Nat, k <= Minus(x, y)
  PROVE  Minus(x, k) \in Index /\ Minus(Minus(x, k), y) = Minus(x, y) - k
BY DEF ConsoleAssumption, Minus, Index

(* A distance of INPUT_BUF is the test of consoleintr for a full ring.        *)
LEMMA FullMeansEnd ==
  ASSUME ConsoleAssumption, NEW x \in Index, NEW y \in Index, Minus(x, y) = INPUT_BUF
  PROVE  x = Plus(y, INPUT_BUF)
BY DEF ConsoleAssumption, Minus, Plus, Index

(* It holds of the empty ring.                                                *)
LEMMA InitIInv ==
  ASSUME ConsoleAssumption, Init
  PROVE  IInv
<1> USE ConsoleAssumption DEF ConsoleAssumption, Init
<1>1. Types BY DEF Types, Index, PCs
<1>2. Holds /\ SleepersHaveNothing BY DEF Holds, SleepersHaveNothing
<1>3. InOrder /\ NeverStuck BY DEF InOrder, NeverStuck, Minus
<1> QED BY Zenon, <1>1, <1>2, <1>3 DEF IInv

(* A character typed.                                                         *)
LEMMA TypedStep ==
  ASSUME ConsoleAssumption, IInv, NEW key, Typed(key)
  PROVE  IInv'
<1> DEFINE e1 == Plus(e, 1)
<1>1. r \in Index /\ w \in Index /\ e \in Index /\ INPUT_BUF \in Nat \ {0} /\ WRAP \in Nat
      /\ WRAP > INPUT_BUF /\ "intr" \notin Readers
  BY Zenon DEF IInv, Types, ConsoleAssumption
<1>2. /\ Minus(w, r) + Minus(e, w) = Minus(e, r) /\ Minus(e, r) < INPUT_BUF
      /\ Minus(w, r) \in Nat /\ Minus(e, w) \in Nat /\ Minus(e, r) \in Nat
  BY <1>1, Apart DEF IInv, InOrder, Typed, Room, Index
<1>3. e1 \in Index /\ Minus(e1, r) = Minus(e, r) + 1 /\ Minus(e1, w) = Minus(e, w) + 1
  BY <1>1, <1>2, OneMore
<1>4. Minus(e1, e1) = 0 BY Zenon, <1>3, Apart
<1>5. /\ cons = "intr" /\ cons' = cons /\ e' = e1 /\ r' = r /\ w' \in {w, e1}
      /\ n' = n /\ target' = target /\ pc' \in {pc, Woken}
      /\ w' # w => pc' = Woken
      /\ e1 = Plus(r, INPUT_BUF) => w' = e1 /\ pc' = Woken
  BY Zenon DEF Typed, EndsLine
<1> HIDE DEF e1
<1>6. Types' BY Zenon, <1>1, <1>3, <1>5 DEF IInv, Types, Woken, PCs
<1>7. Holds' BY Zenon, <1>1, <1>5 DEF IInv, Holds, Types, Woken, PCs
<1>8. InOrder' BY <1>1, <1>2, <1>3, <1>4, <1>5 DEF InOrder
<1>9. NeverStuck'
  <2> SUFFICES ASSUME Minus(e1, r) = INPUT_BUF PROVE w' # r BY Zenon, <1>5 DEF NeverStuck, Empty
  <2>1. w' = e1 BY Zenon, <1>1, <1>3, <1>5, FullMeansEnd
  <2> QED BY Zenon, <2>1, <1>1, <1>3, Apart
<1>10. SleepersHaveNothing'
  BY Zenon, <1>5 DEF IInv, SleepersHaveNothing, Woken, Types, Empty
<1> QED BY Zenon, <1>6, <1>7, <1>8, <1>9, <1>10 DEF IInv

(* ^H, DEL and ^U take characters back, not beyond input.w.                   *)
LEMMA EraseStep ==
  ASSUME ConsoleAssumption, IInv, cons = "intr", NEW k \in 0 .. Minus(e, w), e' = Minus(e, k),
         UNCHANGED <<r, w, cons, pc, n, target>>
  PROVE  IInv'
<1>1. r \in Index /\ w \in Index /\ e \in Index /\ INPUT_BUF \in Nat \ {0} /\ WRAP \in Nat
      /\ WRAP > INPUT_BUF
  BY Zenon DEF IInv, Types, ConsoleAssumption
<1>2. /\ Minus(w, r) + Minus(e, w) = Minus(e, r) /\ Minus(e, r) <= INPUT_BUF
      /\ Minus(w, r) \in Nat /\ Minus(e, w) \in Nat /\ Minus(e, r) \in Nat
  BY <1>1, Apart DEF IInv, InOrder, Index
<1>3. k \in Nat /\ k <= Minus(e, w) /\ k <= Minus(e, r) BY <1>2
<1>4. e' \in Index /\ Minus(e', r) = Minus(e, r) - k /\ Minus(e', w) = Minus(e, w) - k
  BY <1>1, <1>3, FewerBy
<1>5. Types' BY Zenon, <1>4 DEF IInv, Types
<1>6. Holds' /\ SleepersHaveNothing' BY Zenon DEF IInv, Holds, SleepersHaveNothing, Empty
<1>7. InOrder' BY <1>1, <1>2, <1>3, <1>4 DEF InOrder
<1>8. NeverStuck'
  <2>1. Minus(e', r) = INPUT_BUF => Minus(e, r) = INPUT_BUF BY <1>1, <1>2, <1>3, <1>4
  <2> QED BY Zenon, <2>1 DEF IInv, NeverStuck, Empty
<1> QED BY Zenon, <1>5, <1>6, <1>7, <1>8 DEF IInv

(* A reader takes the character at input.r: nobody sleeps then, as there was  *)
(* something to read.                                                         *)
LEMMA TakeStep ==
  ASSUME ConsoleAssumption, IInv, NEW p \in Readers, pc[p] = "read", ~Empty,
         r' = Plus(r, 1), UNCHANGED <<w, e, target>>,
         n' = n \/ (n[p] > 0 /\ n' = [n EXCEPT ![p] = @ - 1]),
         Return(p) \/ UNCHANGED <<cons, pc>>
  PROVE  IInv'
<1>1. r \in Index /\ w \in Index /\ e \in Index /\ INPUT_BUF \in Nat \ {0} /\ WRAP \in Nat
      /\ WRAP > INPUT_BUF
  BY Zenon DEF IInv, Types, ConsoleAssumption
<1>2. /\ Minus(w, r) + Minus(e, w) = Minus(e, r) /\ Minus(e, r) <= INPUT_BUF
      /\ Minus(w, r) \in Nat /\ Minus(e, w) \in Nat /\ Minus(e, r) \in Nat
      /\ Minus(w, r) > 0
  BY <1>1, Apart DEF IInv, InOrder, Empty, Index
<1>3. r' \in Index /\ Minus(w, r') = Minus(w, r) - 1 /\ Minus(e, r') = Minus(e, r) - 1
  BY <1>1, <1>2, OneTaken
<1>4. Types' BY <1>3 DEF IInv, Types, Return, PCs
<1>5. cons = p /\ \A q \in Readers : pc[q] # "asleep" /\ (q # p => pc[q] \notin {"read", "sleep"})
  BY Zenon DEF IInv, Holds, SleepersHaveNothing
<1>6. SleepersHaveNothing' BY Zenon, <1>5 DEF IInv, Types, SleepersHaveNothing, Return
<1>7. \A q \in Readers : n'[q] <= n[q] /\ n'[q] \in Nat /\ n[q] \in Nat
  BY DEF IInv, Types
<1>8. Holds'
  <2> SUFFICES ASSUME NEW q \in Readers
               PROVE /\ pc'[q] \in {"read", "sleep"} => cons' = q
                     /\ pc'[q] # "sleep" /\ n'[q] <= target[q]
    BY Zenon DEF Holds
  <2>1. n'[q] <= target[q] BY <1>7 DEF IInv, Types, Holds
  <2>2. pc'[q] \in {"read", "sleep"} => q = p /\ UNCHANGED <<cons, pc>>
    BY Zenon, <1>5 DEF IInv, Types, Return
  <2> QED BY Zenon, <2>1, <2>2, <1>5
<1>9. InOrder' /\ NeverStuck'
  BY <1>1, <1>2, <1>3 DEF InOrder, NeverStuck
<1> QED BY Zenon, <1>4, <1>6, <1>8, <1>9 DEF IInv

(* Steps that leave the ring alone, and of the locks and sleeps touch those   *)
(* of one reader.                                                             *)
LEMMA CallStep ==
  ASSUME ConsoleAssumption, IInv, NEW p \in Readers, NEW count \in Counts, Call(p, count)
  PROVE  IInv'
<1> USE DEF IInv, Call, input
<1>1. count \in Nat BY Zenon DEF ConsoleAssumption
<1>2. Types' BY Zenon, <1>1 DEF Types, PCs
<1>3. Holds' BY <1>1 DEF Types, Holds, Empty
<1> QED BY Zenon, <1>2, <1>3 DEF Types, InOrder, NeverStuck, SleepersHaveNothing, Empty

(* A reader gets cons.lock.                                                   *)
LEMMA AcquireStep ==
  ASSUME ConsoleAssumption, IInv, NEW p \in Readers, Acquire(p)
  PROVE  IInv'
<1> USE DEF IInv, Acquire, input
<1>1. Types' BY Zenon DEF Types, PCs
<1>2. Holds' BY Zenon DEF ConsoleAssumption, Types, Holds, Empty
<1> QED BY Zenon, <1>1, <1>2 DEF Types, InOrder, NeverStuck, SleepersHaveNothing, Empty

(* A reader returns without taking a character.                               *)
LEMMA LeaveStep ==
  ASSUME ConsoleAssumption, IInv, NEW p \in Readers,
         pc[p] = "read", Return(p), UNCHANGED <<input, n, target>>
  PROVE  IInv'
<1> USE DEF IInv, Return, input
<1>1. Types' BY Zenon DEF Types, PCs
<1>2. Holds' BY Zenon DEF Types, Holds, Empty
<1> QED BY Zenon, <1>1, <1>2 DEF Types, InOrder, NeverStuck, SleepersHaveNothing, Empty

(* A reader that found nothing goes to sleep, in two steps.                   *)
LEMMA SleepStep ==
  ASSUME ConsoleAssumption, IInv, NEW p \in Readers, Sleep(p) \/ Asleep(p)
  PROVE  IInv'
<1>1. CASE Sleep(p)
  <2> USE <1>1 DEF IInv, Sleep, input
  <2>1. Types' BY Zenon DEF Types, PCs
  <2>2. Holds' BY Zenon DEF Types, Holds, Empty
  <2> QED BY Zenon, <2>1, <2>2 DEF Types, InOrder, NeverStuck, SleepersHaveNothing, Empty
<1>2. CASE Asleep(p)
  <2> USE <1>2 DEF IInv, Asleep, input
  <2>1. Types' BY Zenon DEF Types, PCs
  <2>2. Holds' BY Zenon DEF Types, Holds, Empty
  <2>3. Empty BY Zenon DEF Holds
  <2> QED BY Zenon, <2>1, <2>2, <2>3 DEF Types, InOrder, NeverStuck, SleepersHaveNothing, Empty
<1> QED BY Zenon, <1>1, <1>2

(* kill wakes a reader and changes no index.                                  *)
LEMMA KillStep ==
  ASSUME ConsoleAssumption, IInv, NEW p \in Readers, Kill(p)
  PROVE  IInv'
<1> USE DEF IInv, Kill, input
<1>1. Types' BY Zenon DEF Types, PCs
<1>2. Holds' BY Zenon DEF Types, Holds, Empty
<1> QED BY Zenon, <1>1, <1>2 DEF Types, InOrder, NeverStuck, SleepersHaveNothing, Empty

(* The interrupt handler takes and releases cons.lock.                        *)
LEMMA LockStep ==
  ASSUME ConsoleAssumption, IInv, UNCHANGED <<input, pc, n, target>>,
         \/ cons = Nobody /\ cons' = "intr"
         \/ cons = "intr" /\ cons' = Nobody
         \/ cons' = cons
  PROVE  IInv'
<1> USE DEF IInv, input
<1>1. Types' BY Zenon DEF Types
<1>2. Holds' BY Zenon DEF ConsoleAssumption, Types, Holds, Empty
<1> QED BY Zenon, <1>1, <1>2 DEF InOrder, NeverStuck, SleepersHaveNothing, Empty

(* A key of the handler: ignored, an erasure, a kill of the line, or typed.   *)
LEMMA KeyStep ==
  ASSUME ConsoleAssumption, IInv, NEW k \in Keys, Key(k)
  PROVE  IInv'
<1>1. CASE Ignored
  BY Zenon, <1>1, LockStep DEF Ignored, vars, readers
<1>2. CASE KillLine
  <2>1. PICK j \in 0 .. Minus(e, w) : e' = Minus(e, j) BY Zenon, <1>2 DEF KillLine
  <2>2. cons = "intr" /\ UNCHANGED <<r, w, cons, pc, n, target>> BY Zenon, <1>2 DEF KillLine, readers
  <2> QED BY Zenon, <2>1, <2>2, EraseStep
<1>3. CASE Backspace
  <2>1. e \in Index /\ w \in Index /\ e # w BY Zenon, <1>3 DEF Backspace, Editing, IInv, Types
  <2>2. 1 \in 0 .. Minus(e, w) BY <2>1, Apart DEF Index
  <2>3. cons = "intr" /\ e' = Minus(e, 1) /\ UNCHANGED <<r, w, cons, pc, n, target>>
    BY Zenon, <1>3 DEF Backspace, readers
  <2> QED BY Zenon, <2>2, <2>3, EraseStep
<1>4. CASE Typed(k) BY Zenon, <1>4, TypedStep
<1> QED BY Zenon, <1>1, <1>2, <1>3, <1>4 DEF Key

(* Every step keeps it.                                                       *)
LEMMA NextIInv ==
  ASSUME ConsoleAssumption, IInv, [Next]_vars
  PROVE  IInv'
<1>1. CASE IntrEnter BY Zenon, <1>1, LockStep DEF IntrEnter, readers
<1>2. CASE IntrExit BY Zenon, <1>2, LockStep DEF IntrExit, readers
<1>3. ASSUME NEW k \in Keys, Key(k) PROVE IInv' BY Zenon, <1>3, KeyStep
<1>4. ASSUME NEW c, Write(c) PROVE IInv' BY Zenon, <1>4, LockStep DEF Write, readers
<1>5. ASSUME NEW p \in Readers, NEW count \in Counts, Call(p, count) PROVE IInv' BY Zenon, <1>5, CallStep
<1>6. ASSUME NEW p \in Readers, Acquire(p) PROVE IInv' BY <1>6, AcquireStep
<1>7. ASSUME NEW p \in Readers, Killed(p) \/ Full(p) PROVE IInv'
  BY Zenon, <1>7, LeaveStep DEF Killed, Full
<1>8. ASSUME NEW p \in Readers, Sleep(p) \/ Asleep(p) PROVE IInv' BY Zenon, <1>8, SleepStep
<1>9. ASSUME NEW p \in Readers, TakeEof(p) PROVE IInv'
  <2>1. CASE Kept(p) BY Zenon, <1>9, <2>1, LeaveStep DEF TakeEof, input
  <2>2. CASE ~Kept(p) BY Zenon, <1>9, <2>2, TakeStep DEF TakeEof
  <2> QED BY Zenon, <2>1, <2>2
<1>10. ASSUME NEW p \in Readers, Take(p) PROVE IInv'
  BY Zenon, <1>10, TakeStep DEF Take
<1>11. ASSUME NEW p \in Readers, Kill(p) PROVE IInv' BY <1>11, KillStep
<1>12. CASE UNCHANGED vars BY Zenon, <1>12, LockStep DEF vars, readers
<1> QED
  BY Zenon, <1>1, <1>2, <1>3, <1>4, <1>5, <1>6, <1>7, <1>8, <1>9, <1>10, <1>11, <1>12 DEF Next

-----------------------------------------------------------------------------
(* The ring's indices stay in order, a full ring can be read, and who sleeps  *)
(* in consoleread has nothing to read (console.c 186-270).                    *)
THEOREM RingInOrder ==
  ASSUME ConsoleAssumption
  PROVE  Spec => [](InOrder /\ NeverStuck /\ SleepersHaveNothing)
<1>1. Init => IInv BY Zenon, InitIInv
<1>2. IInv /\ [Next]_vars => IInv' BY Zenon, NextIInv
<1>3. IInv => InOrder /\ NeverStuck /\ SleepersHaveNothing BY Zenon DEF IInv
<1> QED BY <1>1, <1>2, <1>3, PTL DEF Spec

(* Only a read that returns nothing else takes an end of file (console.c      *)
(* 253-261).                                                                  *)
THEOREM EofEndsOneRead ==
  ASSUME ConsoleAssumption
  PROVE  Spec => EofIsAlone
<1> DEFINE Alone(p) == r' # r /\ At(r) = "^D" /\ cons = p => n[p] = target[p] /\ cons' = Nobody
<1>1. Init => IInv BY InitIInv
<1>2. IInv /\ [Next]_vars => IInv' BY NextIInv
<1>3. IInv /\ [Next]_vars => [\A p \in Readers : Alone(p)]_vars
  <2> SUFFICES ASSUME IInv, [Next]_vars, r' # r, At(r) = "^D", NEW p \in Readers, cons = p
               PROVE  n[p] = target[p] /\ cons' = Nobody
    BY Zenon
  <2>1. \A k \in Keys : ~Key(k)
    <3> SUFFICES ASSUME NEW k \in Keys, Key(k) PROVE FALSE BY Zenon
    <3>1. cons = "intr" BY Zenon DEF Key, Ignored, KillLine, Backspace, Typed
    <3> QED BY Zenon, <3>1 DEF ConsoleAssumption
  <2>2. PICK q \in Readers : TakeEof(q) \/ Take(q)
    BY <2>1 DEF Next, IntrEnter, IntrExit, Write, Call, Acquire, Killed, Sleep, Asleep, Full,
                Kill, input, vars
  <2>3. TakeEof(q) /\ pc[q] = "read" BY Zenon, <2>2 DEF TakeEof, Take
  <2>4. q = p BY Zenon, <2>3 DEF IInv, Holds
  <2>5. ~Kept(p) /\ cons' = Nobody BY Zenon, <2>3, <2>4 DEF TakeEof, Return
  <2>6. n[p] <= target[p] /\ n[p] \in Nat /\ target[p] \in Nat BY Zenon DEF IInv, Holds, Types
  <2> QED BY <2>5, <2>6 DEF Kept
<1> QED BY <1>1, <1>2, <1>3, PTL DEF Spec, EofIsAlone

-----------------------------------------------------------------------------
OnScreen == pos \in Nat /\ CursorOnScreen

(* cgaputc from a cell that is shown: one cell back, one on, or to the start  *)
(* of the next row, and a row up if that is below the last one shown.         *)
LEMMA CursorStep ==
  ASSUME ConsoleAssumption, OnScreen, NEW c, consputc(c)
  PROVE  OnScreen'
<1> DEFINE m == pos % COLS
           last == ROWS * COLS
           y == Moved(pos, c)
<1>1. pos \in Nat /\ COLS \in Nat \ {0} /\ ROWS \in Nat \ {0} /\ pos < last
  BY Zenon DEF ConsoleAssumption, OnScreen, CursorOnScreen
<1>2. last \in Nat /\ COLS * ROWS = last /\ last >= COLS BY <1>1
<1>3. m \in 0 .. COLS - 1 BY Zenon, <1>1, ModRange
<1>4. pos + COLS - m <= last BY Zenon, <1>1, RowEnd
<1>5. y \in Nat /\ y <= last BY <1>1, <1>2, <1>3, <1>4 DEF Moved
<1>6. y \div COLS >= ROWS => y = last
  <2> DEFINE q == y \div COLS
  <2> HIDE DEF y
  <2>1. q \in Int /\ COLS * q <= y BY <1>1, <1>5
  <2> HIDE DEF q
  <2>2. q >= ROWS => COLS * q >= COLS * ROWS BY <1>1, <2>1
  <2> HIDE DEF last
  <2>3. q >= ROWS => y = last BY <1>1, <1>2, <1>5, <2>1, <2>2
  <2> QED BY Zenon, <2>3 DEF q
<1>7. last \div COLS = ROWS
  <2>1. COLS * ROWS <= last /\ last < COLS * ROWS + COLS /\ last \in Int /\ ROWS \in Int
    BY <1>1, <1>2
  <2> QED BY Zenon, <1>1, <2>1, DivIsUnique
<1>8. pos' = (IF y = last THEN last - COLS ELSE y)
  BY <1>5, <1>6, <1>7, <1>1 DEF consputc, cgaputc, Scrolled
<1>9. panicked' = FALSE
  <2>1. ~OffScreen(y) 
    <3>1. (ROWS + 1) * COLS = last + COLS BY <1>1
    <3> QED BY <3>1, <1>1, <1>2, <1>5 DEF OffScreen
  <2> QED BY Zenon, <2>1 DEF consputc, OnScreen, CursorOnScreen
<1> HIDE DEF y, last
<1>10. pos' \in Nat /\ pos' < last BY <1>1, <1>2, <1>5, <1>8
<1> QED BY Zenon, <1>9, <1>10 DEF OnScreen, CursorOnScreen, last

(* The cursor stays in the rows shown and cgaputc's check never fails         *)
(* (console.c 127-169).                                                       *)
THEOREM CursorStays ==
  ASSUME ConsoleAssumption
  PROVE  Spec => []CursorOnScreen
<1>1. Init => OnScreen
  BY DEF ConsoleAssumption, Init, OnScreen, CursorOnScreen
<1>2. OnScreen /\ IInv /\ [Next]_vars => OnScreen'
  <2> SUFFICES ASSUME OnScreen, IInv, [Next]_vars PROVE OnScreen' BY Zenon
  <2>1. ASSUME NEW c, consputc(c) PROVE OnScreen' BY Zenon, <2>1, CursorStep
  <2>2. CASE UNCHANGED screen BY Zenon, <2>2 DEF screen, OnScreen, CursorOnScreen
  <2>3. CASE KillLine
    <3>1. Minus(e, w) \in Nat BY Apart DEF IInv, Types, Index, ConsoleAssumption
    <3>2. PICK k \in 0 .. Minus(e, w) : pos' = IF pos >= k THEN pos - k ELSE 0
      BY Zenon, <2>3 DEF KillLine
    <3>3. pos' \in Nat /\ pos' <= pos /\ pos \in Nat /\ panicked' = panicked
      BY <2>3, <3>1, <3>2 DEF KillLine, OnScreen
    <3>4. ROWS * COLS \in Nat BY DEF ConsoleAssumption
    <3> QED BY <3>3, <3>4 DEF OnScreen, CursorOnScreen
  <2>4. ASSUME NEW k \in Keys, Key(k) PROVE OnScreen'
    <3>1. CASE Ignored BY Zenon, <3>1, <2>2 DEF Ignored, vars
    <3>2. CASE Backspace BY Zenon, <3>2, <2>1 DEF Backspace
    <3>3. CASE Typed(k) BY Zenon, <3>3, <2>1 DEF Typed
    <3> QED BY Zenon, <2>3, <2>4, <3>1, <3>2, <3>3 DEF Key
  <2> QED
    BY <2>1, <2>2, <2>4 DEF Next, IntrEnter, IntrExit, Write, Call, Acquire, Killed, Sleep, Asleep,
       Full, Kill, TakeEof, Take, vars, screen
<1>3. OnScreen => CursorOnScreen BY Zenon DEF OnScreen
<1>4. Init => IInv BY InitIInv
<1>5. IInv /\ [Next]_vars => IInv' BY NextIInv
<1> QED BY <1>1, <1>2, <1>3, <1>4, <1>5, PTL DEF Spec

-----------------------------------------------------------------------------
(* The ring implements line input.  SpanOf(b, x, k) is what k cells of ring b *)
(* from index x on hold.                                                      *)
SpanOf(b, x, k) == [i \in 1 .. k |-> b[Plus(x, i - 1) % INPUT_BUF]]
Marks == Chars \cup {"none"}
Ring == [Cells -> Marks]

(* An index names a cell of the ring.                                         *)
LEMMA CellOf ==
  ASSUME ConsoleAssumption, NEW x \in Index, NEW k \in 0 .. INPUT_BUF
  PROVE  Plus(x, k) \in Index /\ Plus(x, k) % INPUT_BUF \in Cells
<1>1. Plus(x, k) \in Index /\ Plus(x, k) \in Nat /\ INPUT_BUF \in Nat \ {0}
  BY DEF ConsoleAssumption, Plus, Index
<1> QED BY Zenon, <1>1, ModRange DEF Cells

(* A span of k cells is a sequence of k characters.                           *)
LEMMA SpanIsSeq ==
  ASSUME ConsoleAssumption, NEW b \in Ring, NEW x \in Index, NEW k \in 0 .. INPUT_BUF
  PROVE  SpanOf(b, x, k) \in Seq(Marks) /\ Len(SpanOf(b, x, k)) = k
<1>1. ASSUME NEW i \in 1 .. k PROVE b[Plus(x, i - 1) % INPUT_BUF] \in Marks
  <2>1. i - 1 \in 0 .. INPUT_BUF BY DEF ConsoleAssumption
  <2>2. Plus(x, i - 1) % INPUT_BUF \in Cells BY Zenon, <2>1, CellOf
  <2> QED BY Zenon, <2>2 DEF Ring
<1>2. k \in Nat BY DEF ConsoleAssumption
<1> QED BY <1>1, <1>2 DEF SpanOf

(* A span grows by the next cell.                                             *)
LEMMA SpanAppend ==
  ASSUME ConsoleAssumption, NEW b \in Ring, NEW x \in Index, NEW k \in 0 .. INPUT_BUF - 1
  PROVE  SpanOf(b, x, k + 1) = Append(SpanOf(b, x, k), b[Plus(x, k) % INPUT_BUF])
<1>1. k \in 0 .. INPUT_BUF /\ k \in Nat /\ (k + 1) - 1 = k BY DEF ConsoleAssumption
<1>2. SpanOf(b, x, k) \in Seq(Marks) /\ Len(SpanOf(b, x, k)) = k BY Zenon, <1>1, SpanIsSeq
<1>3. \A i \in 1 .. k : SpanOf(b, x, k)[i] = SpanOf(b, x, k + 1)[i] BY <1>1 DEF SpanOf
<1>4. SpanOf(b, x, k + 1)[k + 1] = b[Plus(x, k) % INPUT_BUF] BY <1>1 DEF SpanOf
<1>5. SpanOf(b, x, k + 1) = [i \in 1 .. k + 1 |-> SpanOf(b, x, k + 1)[i]] BY Zenon DEF SpanOf
<1> HIDE DEF SpanOf
<1> QED BY <1>1, <1>2, <1>3, <1>4, <1>5

(* A span without its first cell starts one later.                            *)
LEMMA SpanTail ==
  ASSUME ConsoleAssumption, NEW b \in Ring, NEW x \in Index, NEW k \in 1 .. INPUT_BUF
  PROVE  Tail(SpanOf(b, x, k)) = SpanOf(b, Plus(x, 1), k - 1)
<1>1. k \in 0 .. INPUT_BUF /\ k \in Nat \ {0} BY DEF ConsoleAssumption
<1>2. SpanOf(b, x, k) \in Seq(Marks) /\ Len(SpanOf(b, x, k)) = k BY Zenon, <1>1, SpanIsSeq
<1>3. /\ Tail(SpanOf(b, x, k)) \in Seq(Marks) /\ Len(Tail(SpanOf(b, x, k))) = k - 1
      /\ \A i \in 1 .. k - 1 : Tail(SpanOf(b, x, k))[i] = SpanOf(b, x, k)[i + 1]
  BY <1>1, <1>2, TailFacts
<1>4. ASSUME NEW i \in 1 .. k - 1
      PROVE  SpanOf(b, x, k)[i + 1] = SpanOf(b, Plus(x, 1), k - 1)[i]
  <2>1. Plus(x, (i + 1) - 1) = Plus(Plus(x, 1), i - 1)
    BY <1>1 DEF ConsoleAssumption, Plus, Index
  <2> QED BY <1>1, <2>1 DEF SpanOf
<1>5. k - 1 \in 0 .. INPUT_BUF /\ 1 \in 0 .. INPUT_BUF BY <1>1 DEF ConsoleAssumption
<1>6. Plus(x, 1) \in Index BY Zenon, <1>5, CellOf
<1>7. SpanOf(b, Plus(x, 1), k - 1) \in Seq(Marks) /\ Len(SpanOf(b, Plus(x, 1), k - 1)) = k - 1
  BY Zenon, <1>5, <1>6, SpanIsSeq
<1> QED BY Zenon, <1>3, <1>4, <1>7, SameSeq

(* The front of a span is a shorter span.                                     *)
LEMMA SpanFront ==
  ASSUME ConsoleAssumption, NEW b \in Ring, NEW x \in Index, NEW k \in 0 .. INPUT_BUF,
         NEW j \in 0 .. k
  PROVE  SubSeq(SpanOf(b, x, k), 1, j) = SpanOf(b, x, j)
<1>1. k \in Nat /\ j \in Nat /\ j <= k BY DEF ConsoleAssumption
<1>2. SpanOf(b, x, k) \in Seq(Marks) /\ Len(SpanOf(b, x, k)) = k BY Zenon, SpanIsSeq
<1>3. SubSeq(SpanOf(b, x, k), 1, j) = [i \in 1 .. j |-> SpanOf(b, x, k)[i]] BY <1>1, <1>2
<1>4. \A i \in 1 .. j : SpanOf(b, x, k)[i] = b[Plus(x, i - 1) % INPUT_BUF] BY <1>1 DEF SpanOf
<1> QED BY Zenon, <1>3, <1>4 DEF SpanOf

(* Two spans one after the other are one span.                                *)
LEMMA SpanJoin ==
  ASSUME ConsoleAssumption, NEW b \in Ring, NEW x \in Index, NEW j \in Nat, NEW k \in Nat,
         j + k <= INPUT_BUF
  PROVE  SpanOf(b, x, j) \o SpanOf(b, Plus(x, j), k) = SpanOf(b, x, j + k)
<1> DEFINE y == Plus(x, j)
           s == SpanOf(b, x, j)
           t == SpanOf(b, y, k)
<1>1. j \in 0 .. INPUT_BUF /\ k \in 0 .. INPUT_BUF /\ j + k \in 0 .. INPUT_BUF
  BY DEF ConsoleAssumption
<1>2. y \in Index BY Zenon, <1>1, CellOf
<1> HIDE DEF y
<1>3. s \in Seq(Marks) /\ Len(s) = j /\ t \in Seq(Marks) /\ Len(t) = k BY Zenon, <1>1, <1>2, SpanIsSeq
<1>4. ASSUME NEW i \in 1 .. k PROVE t[i] = SpanOf(b, x, j + k)[i + j]
  <2>1. Plus(y, i - 1) = Plus(x, (i + j) - 1)
    BY <1>1 DEF y, ConsoleAssumption, Plus, Index
  <2>2. i + j \in 1 .. j + k OBVIOUS
  <2> QED BY Zenon, <2>1, <2>2 DEF SpanOf
<1>5. \A i \in 1 .. j : s[i] = SpanOf(b, x, j + k)[i] BY DEF SpanOf
<1>6. SpanOf(b, x, j + k) \in Seq(Marks) /\ Len(SpanOf(b, x, j + k)) = j + k BY Zenon, <1>1, SpanIsSeq
<1> HIDE DEF s, t
<1>7. /\ s \o t \in Seq(Marks) /\ Len(s \o t) = j + k
      /\ \A i \in 1 .. j + k : (s \o t)[i] = IF i <= j THEN s[i] ELSE t[i - j]
  BY Zenon, <1>3, ConcatFacts
<1>8. ASSUME NEW i \in 1 .. j + k PROVE (s \o t)[i] = SpanOf(b, x, j + k)[i]
  <2>1. CASE i <= j BY <2>1, <1>5, <1>7
  <2>2. CASE ~(i <= j)
    <3>1. i - j \in 1 .. k /\ (i - j) + j = i BY <2>2
    <3> QED BY Zenon, <2>2, <3>1, <1>4, <1>7
  <2> QED BY Zenon, <2>1, <2>2
<1>9. s \o t = SpanOf(b, x, j + k) BY Zenon, <1>6, <1>7, <1>8, SameSeq
<1> QED BY Zenon, <1>9 DEF s, t, y

(* What is typed at e leaves the cells between x and e as they were.          *)
LEMMA SpanKeeps ==
  ASSUME ConsoleAssumption, NEW b, NEW b2, NEW x \in Index, NEW y \in Index,
         \A z \in Cells : z # y % INPUT_BUF => b2[z] = b[z],
         Minus(y, x) < INPUT_BUF, NEW j \in 0 .. Minus(y, x)
  PROVE  SpanOf(b2, x, j) = SpanOf(b, x, j)
<1>1. Minus(y, x) \in Nat /\ INPUT_BUF \in Nat \ {0} /\ WRAP \in Nat /\ WRAP % INPUT_BUF = 0
  BY Apart DEF Index, ConsoleAssumption
<1>2. ASSUME NEW i \in 1 .. j PROVE b2[Plus(x, i - 1) % INPUT_BUF] = b[Plus(x, i - 1) % INPUT_BUF]
  <2> DEFINE z == Plus(x, i - 1)
             d == Minus(y, x) - (i - 1)
  <2>1. i \in 1 .. Minus(y, x) BY <1>1
  <2>2. d \in 1 .. INPUT_BUF - 1 /\ i - 1 \in 0 .. INPUT_BUF BY <1>1, <2>1
  <2>3. z \in Index /\ z % INPUT_BUF \in Cells BY Zenon, <2>2, CellOf
  <2>4. y - z = d \/ y - z = d - WRAP BY <1>1, <2>2 DEF Plus, Minus, Index, ConsoleAssumption
  <2>5. z \in Int /\ y \in Int BY <1>1, <2>3 DEF Index
  <2> HIDE DEF z, d
  <2>6. z % INPUT_BUF # y % INPUT_BUF BY Zenon, <1>1, <2>2, <2>4, <2>5, CellsDiffer
  <2>7. b2[z % INPUT_BUF] = b[z % INPUT_BUF] BY Zenon, <2>3, <2>6
  <2> QED BY Zenon, <2>7 DEF z
<1> QED BY Zenon, <1>2 DEF SpanOf

(* x plus the distance from x to y is y.                                      *)
LEMMA PlusMinus ==
  ASSUME ConsoleAssumption, NEW x \in Index, NEW y \in Index
  PROVE  Plus(x, Minus(y, x)) = y
BY DEF ConsoleAssumption, Plus, Minus, Index

(* The ring is one of characters, and the indices are in order.               *)
Shape == IInv /\ buf \in Ring

(* Every step keeps the shape of the buffer.                                  *)
LEMMA ShapeInv ==
  ASSUME ConsoleAssumption
  PROVE  (Init => Shape) /\ (Shape /\ [Next]_vars => Shape')
<1>1. Init => Shape BY Zenon, InitIInv DEF Init, Shape, Ring, Marks
<1>2. ASSUME Shape, [Next]_vars PROVE Shape'
  <2>1. IInv' BY Zenon, <1>2, NextIInv DEF Shape
  <2>2. ASSUME NEW k \in Keys, Key(k) PROVE buf' \in Ring
    <3>1. CASE buf' = buf BY Zenon, <3>1, <1>2 DEF Shape
    <3>2. CASE Typed(k) /\ k \notin {"none", "^P", "^U", "^H", "del"}
      <4>1. (IF k = "cr" THEN "nl" ELSE k) \in Marks BY Zenon, <3>2 DEF Marks, Chars
      <4> QED BY Zenon, <3>2, <4>1, <1>2 DEF Typed, Shape, Ring
    <3> QED BY Zenon, <2>2, <3>1, <3>2 DEF Key, Ignored, KillLine, Backspace, vars, input
  <2>3. ASSUME buf' = buf PROVE buf' \in Ring BY Zenon, <2>3, <1>2 DEF Shape
  <2>4. buf' \in Ring
    BY Zenon, <1>2, <2>2, <2>3 DEF Next, IntrEnter, IntrExit, Write, Call, Acquire, Killed, Sleep, Asleep,
       Full, Kill, TakeEof, Take, vars, input
  <2> QED BY Zenon, <2>1, <2>4 DEF Shape
<1> QED BY Zenon, <1>1, <1>2

closedNow == Span(r, Minus(w, r))
openNow == Span(w, Minus(e, w))

(* How long the two abstract sequences are.                                   *)
LEMMA Sizes ==
  ASSUME ConsoleAssumption, Shape
  PROVE  /\ r \in Index /\ w \in Index /\ e \in Index /\ buf \in Ring
         /\ Minus(w, r) \in 0 .. INPUT_BUF /\ Minus(e, w) \in 0 .. INPUT_BUF
         /\ Minus(e, r) \in 0 .. INPUT_BUF /\ Minus(w, r) + Minus(e, w) = Minus(e, r)
         /\ closedNow = SpanOf(buf, r, Minus(w, r)) /\ openNow = SpanOf(buf, w, Minus(e, w))
         /\ closedNow \in Seq(Marks) /\ Len(closedNow) = Minus(w, r)
         /\ openNow \in Seq(Marks) /\ Len(openNow) = Minus(e, w)
<1>1. r \in Index /\ w \in Index /\ e \in Index /\ buf \in Ring BY Zenon DEF Shape, IInv, Types
<1>2. /\ Minus(w, r) \in 0 .. INPUT_BUF /\ Minus(e, w) \in 0 .. INPUT_BUF
      /\ Minus(e, r) \in 0 .. INPUT_BUF /\ Minus(w, r) + Minus(e, w) = Minus(e, r)
  <2>1. Minus(w, r) \in Nat /\ Minus(e, w) \in Nat /\ Minus(e, r) \in Nat
    BY <1>1, Apart DEF Index
  <2>2. /\ Minus(w, r) + Minus(e, w) = Minus(e, r) /\ Minus(e, r) <= INPUT_BUF
        /\ INPUT_BUF \in Nat
    BY Zenon DEF Shape, IInv, InOrder, ConsoleAssumption
  <2> QED BY <2>1, <2>2
<1>3. closedNow = SpanOf(buf, r, Minus(w, r)) /\ openNow = SpanOf(buf, w, Minus(e, w))
  BY Zenon DEF closedNow, openNow, Span, SpanOf, At
<1> QED BY <1>1, <1>2, <1>3, SpanIsSeq

(* A character typed is appended to the open line, or closes it.              *)
LEMMA TypedRefines ==
  ASSUME ConsoleAssumption, Shape, Shape', NEW key \in Keys \ {"none", "^P", "^U", "^H", "del"},
         Typed(key)
  PROVE  Line!Next
<1> DEFINE c == IF key = "cr" THEN "nl" ELSE key
           e1 == Plus(e, 1)
           k == Minus(e, w)
           j == Minus(w, r)
<1>1. c \in Chars /\ c \in Marks BY Zenon DEF Chars, Marks
<1>2. /\ Minus(e, r) < INPUT_BUF /\ r' = r /\ e' = e1
      /\ buf' = [buf EXCEPT ![e % INPUT_BUF] = c] /\ w' \in {w, e1}
  BY Zenon DEF Typed, Room
<1> HIDE DEF c
<1>3. /\ j \in Nat /\ k \in Nat /\ j + k = Minus(e, r) /\ INPUT_BUF \in Nat \ {0} /\ WRAP \in Nat
      /\ WRAP > INPUT_BUF /\ r \in Index /\ w \in Index /\ e \in Index /\ buf \in Ring
      /\ buf' \in Ring
  BY Sizes DEF ConsoleAssumption, Shape
<1>4. e1 \in Index /\ Minus(e1, w) = k + 1 /\ Minus(e1, r) = j + k + 1
  <2>1. Minus(e, w) + 1 < WRAP /\ Minus(e, r) + 1 < WRAP BY <1>2, <1>3
  <2> QED BY <1>3, <2>1, OneMore
<1>5. e % INPUT_BUF \in Cells /\ buf'[e % INPUT_BUF] = c
  <2>1. e \in Nat /\ e % INPUT_BUF \in Cells BY <1>3, ModRange DEF Index, Cells
  <2> QED BY Zenon, <1>2, <1>3, <2>1 DEF Ring
<1>6. Len(closedNow) + Len(openNow) < INPUT_BUF BY Zenon, <1>2, <1>3, Sizes
<1>6a. ASSUME NEW x \in {r, w}, NEW i \in 0 .. Minus(e, x)
       PROVE  SpanOf(buf', x, i) = SpanOf(buf, x, i)
  <2>1. x \in Index /\ Minus(e, x) < INPUT_BUF BY <1>2, <1>3
  <2>2. \A z \in Cells : z # e % INPUT_BUF => buf'[z] = buf[z] BY Zenon, <1>2, <1>3 DEF Ring
  <2>3. e \in Index BY Zenon, <1>3
  <2> HIDE DEF j, k, e1
  <2> QED BY <2>1, <2>2, <2>3, SpanKeeps
<1>7. SpanOf(buf', w, k + 1) = Append(openNow, c)
  <2>1. k \in 0 .. INPUT_BUF - 1 /\ k \in 0 .. Minus(e, w) /\ Minus(e, w) < INPUT_BUF BY <1>2, <1>3
  <2>2. SpanOf(buf', w, k) = openNow BY Zenon, <1>6a, <2>1, Sizes
  <2>3. Plus(w, k) = e BY Zenon, <1>3, PlusMinus
  <2> QED BY <1>3, <1>5, <2>1, <2>2, <2>3, SpanAppend
<1>8. CASE w' = w
  <2>1. closedNow' = SpanOf(buf', r, j) /\ openNow' = SpanOf(buf', w, k + 1)
    BY <1>2, <1>4, <1>8 DEF closedNow, openNow, Span, SpanOf, At
  <2>2. j \in 0 .. Minus(e, r) BY <1>3
  <2>3. closedNow' = closedNow BY Zenon, <1>6a, <2>1, <2>2, Sizes
  <2>4. Line!Type(c) BY Zenon, <1>6, <1>7, <2>1, <2>3 DEF Line!Type, closedNow, openNow
  <2> QED BY Zenon, <1>1, <2>4 DEF Line!Next
<1>9. CASE w' = e1
  <2>1. closedNow' = SpanOf(buf', r, j + k + 1) /\ openNow' = SpanOf(buf', e1, 0)
    BY <1>2, <1>4, <1>9, Apart DEF closedNow, openNow, Span, SpanOf, At
  <2>2. openNow' = << >> BY <2>1 DEF SpanOf
  <2>3. j + k \in 0 .. INPUT_BUF - 1 /\ j + k \in 0 .. Minus(e, r) BY <1>2, <1>3
  <2>4. SpanOf(buf', r, j + k) = SpanOf(buf, r, j + k) BY Zenon, <1>6a, <2>3
  <2>5. SpanOf(buf, r, j + k) = closedNow \o openNow
    <3>1. Plus(r, j) = w BY Zenon, <1>3, PlusMinus
    <3>2. j + k <= INPUT_BUF BY <2>3, <1>3
    <3>a. j \in Nat /\ k \in Nat /\ r \in Index /\ buf \in Ring BY Zenon, <1>3
    <3> HIDE DEF j, k
    <3>3. SpanOf(buf, r, j) \o SpanOf(buf, Plus(r, j), k) = SpanOf(buf, r, j + k)
      BY Zenon, <3>a, <3>2, SpanJoin
    <3> QED BY Zenon, <3>1, <3>3, Sizes DEF j, k
  <2>6. Plus(r, j + k) = e BY <1>3, PlusMinus
  <2>7. closedNow' = Append(closedNow \o openNow, c)
    <3> DEFINE m == j + k
    <3> HIDE DEF m
    <3>1. m \in 0 .. INPUT_BUF - 1 /\ Plus(r, m) = e BY Zenon, <2>3, <2>6 DEF m
    <3>2. SpanOf(buf', r, m + 1) = Append(SpanOf(buf', r, m), buf'[Plus(r, m) % INPUT_BUF])
      BY Zenon, <1>3, <3>1, SpanAppend
    <3> QED BY Zenon, <1>5, <2>1, <2>4, <2>5, <3>1, <3>2 DEF m
  <2>8. closedNow \in Seq(Marks) /\ openNow \in Seq(Marks) BY Zenon, Sizes
  <2>9. Append(closedNow \o openNow, c) = closedNow \o Append(openNow, c) BY <1>1, <2>8
  <2>10. Line!Enter(c) BY Zenon, <1>6, <2>2, <2>7, <2>9 DEF Line!Enter, closedNow, openNow
  <2> QED BY Zenon, <1>1, <2>10 DEF Line!Next
<1> QED BY Zenon, <1>2, <1>8, <1>9

(* An erase shortens the open line.                                           *)
LEMMA EraseRefines ==
  ASSUME ConsoleAssumption, Shape, Shape', NEW k \in 0 .. Minus(e, w), e' = Minus(e, k),
         UNCHANGED <<buf, r, w>>
  PROVE  Line!Next \/ UNCHANGED <<closedNow, openNow>>
<1>1. /\ r \in Index /\ w \in Index /\ e \in Index /\ buf \in Ring /\ INPUT_BUF \in Nat
      /\ Minus(e, w) \in 0 .. INPUT_BUF /\ openNow = SpanOf(buf, w, Minus(e, w))
      /\ Len(openNow) = Minus(e, w)
  BY Zenon, Sizes DEF ConsoleAssumption
<1>2. k \in Nat /\ k <= Minus(e, w) /\ Minus(e, w) - k \in 0 .. Minus(e, w) BY <1>1
<1>3. Minus(e', w) = Minus(e, w) - k BY Zenon, <1>1, <1>2, FewerBy
<1>4. closedNow' = closedNow BY Zenon DEF closedNow, Span, At
<1>5. openNow' = SpanOf(buf, w, Minus(e, w) - k) BY Zenon, <1>3 DEF openNow, Span, SpanOf, At
<1>6. SubSeq(openNow, 1, Minus(e, w) - k) = SpanOf(buf, w, Minus(e, w) - k)
  BY Zenon, <1>1, <1>2, SpanFront
<1>7. CASE k = 0 BY <1>1, <1>2, <1>4, <1>5, <1>7
<1>8. CASE k # 0
  <2>1. k \in 1 .. INPUT_BUF /\ k <= Len(openNow) BY <1>1, <1>2, <1>8
  <2>2. Line!Erase(k) BY Zenon, <1>1, <1>4, <1>5, <1>6, <2>1 DEF Line!Erase, closedNow, openNow
  <2> QED BY Zenon, <2>1, <2>2 DEF Line!Next
<1> QED BY Zenon, <1>7, <1>8

(* A character read is the first of the closed lines.                         *)
LEMMA TakeRefines ==
  ASSUME ConsoleAssumption, Shape, Shape', ~Empty, r' = Plus(r, 1), UNCHANGED <<buf, w, e>>
  PROVE  Line!Next
<1>1. /\ r \in Index /\ w \in Index /\ buf \in Ring /\ Minus(w, r) \in 0 .. INPUT_BUF
      /\ INPUT_BUF \in Nat /\ closedNow = SpanOf(buf, r, Minus(w, r)) /\ closedNow \in Seq(Marks)
      /\ Len(closedNow) = Minus(w, r)
  BY Zenon, Sizes DEF ConsoleAssumption
<1>2. Minus(w, r) > 0 /\ Minus(w, r) \in 1 .. INPUT_BUF BY <1>1, Apart DEF Empty
<1>3. Minus(w, r') = Minus(w, r) - 1 BY Zenon, <1>1, <1>2, OneTaken
<1>4. closedNow' = SpanOf(buf, Plus(r, 1), Minus(w, r) - 1) BY Zenon, <1>3 DEF closedNow, Span, SpanOf, At
<1>5. closedNow' = Tail(closedNow) BY Zenon, <1>1, <1>2, <1>4, SpanTail
<1>6. closedNow # << >> BY <1>1, <1>2
<1>7. openNow' = openNow BY Zenon DEF openNow, Span, At
<1>8. Line!Take BY Zenon, <1>5, <1>6, <1>7 DEF Line!Take, closedNow, openNow
<1> QED BY Zenon, <1>8 DEF Line!Next

(* Every step of the console is a step of line input or none (console.c       *)
(* 186-270).                                                                  *)
THEOREM ImplementsLineInput ==
  ASSUME ConsoleAssumption
  PROVE  Spec => IsLineInput
<1>1. Init => Line!Init
  <2> SUFFICES ASSUME Init PROVE Line!Init BY Zenon
  <2>1. Minus(w, r) = 0 /\ Minus(e, w) = 0 BY DEF Init, Minus
  <2> QED BY <2>1 DEF Line!Init, Span
<1>2. Shape /\ Shape' /\ [Next]_vars => [Line!Next]_<<closedNow, openNow>>
  <2> SUFFICES ASSUME Shape, Shape', [Next]_vars
               PROVE  Line!Next \/ UNCHANGED <<closedNow, openNow>>
    BY Zenon
  <2>1. ASSUME UNCHANGED input PROVE UNCHANGED <<closedNow, openNow>>
    BY Zenon, <2>1 DEF input, closedNow, openNow, Span, At
  <2>2. ASSUME NEW k \in Keys, Key(k) PROVE Line!Next \/ UNCHANGED <<closedNow, openNow>>
    <3>1. CASE Ignored BY Zenon, <3>1, <2>1 DEF Ignored, vars
    <3>2. CASE KillLine
      <4>1. PICK j \in 0 .. Minus(e, w) : e' = Minus(e, j) BY Zenon, <3>2 DEF KillLine
      <4> QED BY Zenon, <3>2, <4>1, EraseRefines DEF KillLine
    <3>3. CASE Backspace
      <4>1. 1 \in 0 .. Minus(e, w)
        BY <3>3, Apart, Sizes DEF Backspace, Editing
      <4> QED BY Zenon, <3>3, <4>1, EraseRefines DEF Backspace
    <3>4. CASE Typed(k) /\ k \notin {"none", "^P", "^U", "^H", "del"} BY Zenon, <3>4, TypedRefines
    <3> QED BY Zenon, <2>2, <3>1, <3>2, <3>3, <3>4 DEF Key
  <2>3. ASSUME NEW p \in Readers, TakeEof(p) \/ Take(p)
        PROVE  Line!Next \/ UNCHANGED <<closedNow, openNow>>
    <3>1. CASE r' = r BY Zenon, <2>3, <2>1, <3>1 DEF TakeEof, Take, input
    <3>2. CASE r' = Plus(r, 1) BY Zenon, <2>3, <3>2, TakeRefines DEF TakeEof, Take
    <3> QED BY Zenon, <2>3, <3>1, <3>2 DEF TakeEof, Take
  <2> QED
    BY Zenon, <2>1, <2>2, <2>3 DEF Next, IntrEnter, IntrExit, Write, Call, Acquire, Killed, Sleep, Asleep,
       Full, Kill, vars
<1>3. (Init => Shape) /\ (Shape /\ [Next]_vars => Shape') BY Zenon, ShapeInv
<1>4. Spec => Line!Spec
  BY <1>1, <1>2, <1>3, PTL DEF Spec, Line!Spec, closedNow, openNow
<1> QED BY Zenon, <1>4 DEF IsLineInput
=============================================================================
