----------------------------- MODULE LineInput -----------------------------
(***************************************************************************)
(* What console input promises: characters are edited at the end of a      *)
(* line that is still open, and read, in the order typed, from lines that  *)
(* are closed.                                                             *)
(***************************************************************************)
EXTENDS Integers, Sequences

CONSTANTS Chars, Room

VARIABLES closed, open

Init == closed = << >> /\ open = << >>

Type(c) == open' = Append(open, c) /\ Len(closed) + Len(open) < Room /\ UNCHANGED closed

(* the character that ends a line, or fills the buffer, closes what was typed *)
Enter(c) ==
  /\ Len(closed) + Len(open) < Room
  /\ closed' = closed \o Append(open, c) /\ open' = << >>

Erase(k) == k <= Len(open) /\ open' = SubSeq(open, 1, Len(open) - k) /\ UNCHANGED closed

Take == closed # << >> /\ closed' = Tail(closed) /\ UNCHANGED open

Next ==
  \/ \E c \in Chars : Type(c) \/ Enter(c)
  \/ \E k \in 1 .. Room : Erase(k)
  \/ Take

Spec == Init /\ [][Next]_<<closed, open>>
=============================================================================
