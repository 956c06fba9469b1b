------------------------------- MODULE Fifo -------------------------------
(* What a pipe promises: a bounded first-in first-out queue of bytes. *)
EXTENDS Naturals, Sequences

CONSTANTS Bytes, Size

VARIABLE q

Init == q = << >>

Put == \E b \in Bytes : Len(q) < Size /\ q' = Append(q, b)

Get == \E k \in 1..Len(q) : q' = SubSeq(q, k + 1, Len(q))

Spec == Init /\ [][Put \/ Get]_q
=============================================================================
