------------------------------ MODULE Console ------------------------------
(***************************************************************************)
(* Console input and output (console.c): the interrupt handler that edits  *)
(* the input ring, readers that take lines out of it, writers, and the     *)
(* cursor of the screen that all of them echo to.  A step is one turn of a *)
(* loop under cons.lock.  The lock, and sleep giving it up, are module     *)
(* Locks and module Proc; characters come from kbdgetc or uartgetc.        *)
(***************************************************************************)
EXTENDS Integers, Sequences, FiniteSets

CONSTANTS
  Readers,    \* processes that read the console
  Keys,       \* what getc may return
  Counts,     \* how much a read asks for
  INPUT_BUF,
  WRAP,       \* 2^32: input.r, input.w and input.e are uint
  COLS,       \* columns of the screen (80)
  ROWS,       \* rows it shows (24)
  Nobody

ConsoleAssumption ==
  /\ INPUT_BUF \in Nat \ {0} /\ WRAP \in Nat /\ WRAP > INPUT_BUF
  /\ WRAP % INPUT_BUF = 0
  /\ COLS \in Nat \ {0} /\ ROWS \in Nat \ {0} /\ Counts \subseteq Nat
  /\ Nobody \notin Readers /\ "intr" \notin Readers /\ Nobody # "intr"

VARIABLES
  buf, r, w, e,   \* struct input
  cons,           \* who holds cons.lock
  pos,            \* the cursor
  panicked,       \* "pos under/overflow"
  pc,             \* of each reader: idle, wants the lock, reading, about to sleep, asleep, woken
  n, target,      \* of each reader: what it still wants, what it asked for
  killed

input == <<buf, r, w, e>>
screen == <<pos, panicked>>
readers == <<pc, n, target, killed>>
vars == <<input, cons, screen, readers>>

Chars == {IF k = "cr" THEN "nl" ELSE k : k \in Keys \ {"none", "^P", "^U", "^H", "del"}}
Index == 0 .. WRAP - 1
Cells == 0 .. INPUT_BUF - 1

TypeOK ==
  /\ buf \in [Cells -> Chars \cup {"none"}] /\ r \in Index /\ w \in Index /\ e \in Index
  /\ cons \in Readers \cup {"intr", Nobody}
  /\ pos \in Nat /\ panicked \in BOOLEAN
  /\ pc \in [Readers -> {"idle", "lock", "read", "sleep", "asleep", "woken"}]
  /\ n \in [Readers -> Nat] /\ target \in [Readers -> Nat]
  /\ killed \in [Readers -> BOOLEAN]

Init ==
  /\ buf = [i \in Cells |-> "none"] /\ r = 0 /\ w = 0 /\ e = 0
  /\ cons = Nobody
  /\ pos = 0 /\ panicked = FALSE
  /\ pc = [p \in Readers |-> "idle"]
  /\ n = [p \in Readers |-> 0] /\ target = n
  /\ killed = [p \in Readers |-> FALSE]

(* unsigned sum and difference *)
Plus(x, k) == IF x + k < WRAP THEN x + k ELSE x + k - WRAP
Minus(x, y) == IF y <= x THEN x - y ELSE x - y + WRAP
At(x) == buf[x % INPUT_BUF]

-----------------------------------------------------------------------------
(* cgaputc: where the cursor goes, and whether its check fails.  There is a   *)
(* row below the ones shown (25 in all); reaching it scrolls.                 *)
Moved(x, c) ==
  CASE c = "nl" -> x + COLS - (x % COLS)
    [] c = "back" -> IF x > 0 THEN x - 1 ELSE x
    [] OTHER -> x + 1

Scrolled(x) == IF x \div COLS >= ROWS THEN x - COLS ELSE x

cgaputc(x, c) == Scrolled(Moved(x, c))

OffScreen(x) == x < 0 \/ x > (ROWS + 1) * COLS

consputc(c) == pos' = cgaputc(pos, c) /\ panicked' = (panicked \/ OffScreen(Moved(pos, c)))

-----------------------------------------------------------------------------
(* consoleintr: one character at a time until the device has no more *)
IntrEnter == cons = Nobody /\ cons' = "intr" /\ UNCHANGED <<input, screen, readers>>

IntrExit == cons = "intr" /\ cons' = Nobody /\ UNCHANGED <<input, screen, readers>>

(* ^P asks for a process listing; kbdgetc returns 0 for keys that are no character *)
Ignored == cons = "intr" /\ UNCHANGED vars

(* ^H and DEL *)
Editing == e # w

Backspace ==
  /\ cons = "intr" /\ Editing
  /\ e' = Minus(e, 1) /\ consputc("back")
  /\ UNCHANGED <<buf, r, w, cons, readers>>

(* ^U: back over the k characters since the last newline or since input.w *)
OpenLine(k) ==
  /\ \A j \in 1 .. k : At(Minus(e, j)) # "nl"
  /\ k = Minus(e, w) \/ At(Minus(e, k + 1)) = "nl"

KillLine ==
  /\ cons = "intr"
  /\ \E k \in 0 .. Minus(e, w) :
       OpenLine(k) /\ e' = Minus(e, k) /\ pos' = IF pos >= k THEN pos - k ELSE 0
  /\ UNCHANGED <<buf, r, w, cons, panicked, readers>>

Room == Minus(e, r) < INPUT_BUF

NoneWoken == pc

(* wakeup(&input.r) *)
Woken == [p \in Readers |-> IF pc[p] = "asleep" THEN "woken" ELSE pc[p]]

EndsLine(c, e1) == c \in {"nl", "^D"} \/ e1 = Plus(r, INPUT_BUF)

Typed(key) ==
  LET c == IF key = "cr" THEN "nl" ELSE key
      e1 == Plus(e, 1)
  IN
  /\ cons = "intr" /\ Room
  /\ buf' = [buf EXCEPT ![e % INPUT_BUF] = c] /\ e' = e1
  /\ consputc(c)
  /\ IF EndsLine(c, e1) THEN w' = e1 /\ pc' = Woken ELSE UNCHANGED <<w, pc>>
  /\ UNCHANGED <<r, cons, n, target, killed>>

Key(key) ==
  CASE key \in {"none", "^P"} -> Ignored
    [] key = "^U" -> KillLine
    [] key \in {"^H", "del"} -> Backspace
    [] OTHER -> Typed(key)

-----------------------------------------------------------------------------
(* consoleread *)
Call(p, count) ==
  /\ pc[p] = "idle"
  /\ pc' = [pc EXCEPT ![p] = "lock"]
  /\ n' = [n EXCEPT ![p] = count] /\ target' = [target EXCEPT ![p] = count]
  /\ killed' = [killed EXCEPT ![p] = FALSE]   \* a killed process has exited; this is another
  /\ UNCHANGED <<input, cons, screen>>

Acquire(p) ==
  /\ pc[p] \in {"lock", "woken"} /\ cons = Nobody
  /\ cons' = p /\ pc' = [pc EXCEPT ![p] = "read"]
  /\ UNCHANGED <<input, screen, n, target, killed>>

(* release, and back to the caller with target - n, or -1 *)
Return(p) == cons' = Nobody /\ pc' = [pc EXCEPT ![p] = "idle"]

NothingTyped == r = e

Empty == r = w

Killed(p) ==
  /\ pc[p] = "read" /\ n[p] > 0 /\ Empty /\ killed[p]
  /\ Return(p) /\ UNCHANGED <<input, screen, n, target, killed>>

(* sleep(&input.r, &cons.lock): a kill may come between the check and the sleep *)
Sleep(p) ==
  /\ pc[p] = "read" /\ n[p] > 0 /\ Empty /\ ~killed[p]
  /\ pc' = [pc EXCEPT ![p] = "sleep"]
  /\ UNCHANGED <<input, cons, screen, n, target, killed>>

Asleep(p) ==
  /\ pc[p] = "sleep"
  /\ cons' = Nobody /\ pc' = [pc EXCEPT ![p] = "asleep"]
  /\ UNCHANGED <<input, screen, n, target, killed>>

(* an end of file after other characters is left for the next read *)
Kept(p) == n[p] < target[p]

TakeEof(p) ==
  /\ pc[p] = "read" /\ n[p] > 0 /\ ~Empty /\ At(r) = "^D"
  /\ r' = IF Kept(p) THEN r ELSE Plus(r, 1)
  /\ Return(p) /\ UNCHANGED <<buf, w, e, screen, n, target, killed>>

Take(p) ==
  /\ pc[p] = "read" /\ n[p] > 0 /\ ~Empty /\ At(r) # "^D"
  /\ r' = Plus(r, 1) /\ n' = [n EXCEPT ![p] = @ - 1]
  /\ IF At(r) = "nl" THEN Return(p) ELSE UNCHANGED <<cons, pc>>
  /\ UNCHANGED <<buf, w, e, screen, target, killed>>

Full(p) ==
  /\ pc[p] = "read" /\ n[p] = 0
  /\ Return(p) /\ UNCHANGED <<input, screen, n, target, killed>>

(* consolewrite, one character; cons.lock keeps it apart from the echo *)
Write(c) ==
  /\ cons = Nobody /\ consputc(c)
  /\ UNCHANGED <<input, cons, readers>>

(* kill(): a reader that sleeps is made runnable *)
Kill(p) ==
  /\ ~killed[p] /\ pc[p] # "idle"
  /\ killed' = [killed EXCEPT ![p] = TRUE]
  /\ pc' = [pc EXCEPT ![p] = IF @ = "asleep" THEN "woken" ELSE @]
  /\ UNCHANGED <<input, cons, screen, n, target>>

Next ==
  \/ IntrEnter \/ IntrExit
  \/ \E k \in Keys : Key(k)
  \/ \E c \in {"a", "nl"} : Write(c)
  \/ \E p \in Readers :
       \/ \E count \in Counts : Call(p, count)
       \/ Acquire(p) \/ Killed(p) \/ Sleep(p) \/ Asleep(p) \/ TakeEof(p) \/ Take(p) \/ Full(p)
       \/ Kill(p)

Spec == Init /\ [][Next]_vars

-----------------------------------------------------------------------------
(* The indices stay in the order read, write, edit, never more than the      *)
(* ring's size apart, across the wrap of the unsigned counters.  A consumer  *)
(* never overtakes a line's end and an erase never reaches a closed line.    *)
InOrder == Minus(w, r) + Minus(e, w) = Minus(e, r) /\ Minus(e, r) <= INPUT_BUF

(* A full ring has something to read: with no room for a newline and         *)
(* nothing closed, the console would be dead.                                *)
NeverStuck == Minus(e, r) = INPUT_BUF => ~Empty

(* A reader that sleeps has nothing to read: a line closed by a newline, an  *)
(* end of file or a full buffer woke it.                                     *)
SleepersHaveNothing == \A p \in Readers : pc[p] = "asleep" => Empty

(* The cursor stays in the rows shown and its range check in cgaputc never  *)
(* fails, whatever is typed, erased and written.                            *)
CursorOnScreen == pos < ROWS * COLS /\ ~panicked

(* An end of file leaves the queue only with a read that returns nothing     *)
(* else, so each ^D typed gives some caller a result of 0.                   *)
EofIsAlone ==
  [][\A p \in Readers : r' # r /\ At(r) = "^D" /\ cons = p => n[p] = target[p] /\ cons' = Nobody]_vars

(* The ring implements line input.                                           *)
Span(x, len) == [i \in 1 .. len |-> At(Plus(x, i - 1))]
Line == INSTANCE LineInput WITH
          Room <- INPUT_BUF, closed <- Span(r, Minus(w, r)), open <- Span(w, Minus(e, w))
IsLineInput == Line!Spec
=============================================================================
