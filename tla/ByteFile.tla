------------------------------- MODULE ByteFile -------------------------------
(***************************************************************************)
(* What a file promises: an array of bytes, and an offset that moves       *)
(* forward.  A write of n bytes changes nothing but the n bytes after the  *)
(* offset; when it is done all of them are the writer's, and the offset is *)
(* behind them.                                                            *)
(***************************************************************************)
EXTENDS Integers, Sequences

CONSTANTS Files, Bytes
VARIABLES
  text, off,
  end         \* where the write under way will end; off when there is none

Range(f) == off[f] + 1 .. end[f]
Quiet(f) == end[f] = off[f]
Set(v, f, x) == v' = [v EXCEPT ![f] = x]

Begin(f) ==
  /\ Quiet(f) /\ end'[f] \in Nat /\ end'[f] > off[f] /\ Set(end, f, end'[f])
  /\ UNCHANGED <<text, off>>

(* bytes of the range become b; those beyond the end of the file are not seen yet *)
Put(f) ==
  /\ \E b \in Bytes, w \in SUBSET Range(f) :
       Set(text, f, [k \in DOMAIN text[f] |-> IF k \in w THEN b ELSE text[f][k]])
  /\ UNCHANGED <<off, end>>

(* the write is done: the whole range is b, and the file reaches at least so far *)
Done(f) ==
  /\ ~Quiet(f)
  /\ \E b \in Bytes :
       Set(text, f, [k \in DOMAIN text[f] \cup 1 .. end[f] |-> IF k \in Range(f) THEN b ELSE text[f][k]])
  /\ Set(off, f, end[f]) /\ UNCHANGED end

Moved(f, o) == Quiet(f) /\ Set(off, f, o) /\ Set(end, f, o)
Read(f) == (\E o \in off[f] .. Len(text[f]) : Moved(f, o)) /\ UNCHANGED text
Reopen(f) == Moved(f, 0) /\ UNCHANGED text
Truncate(f) == Moved(f, 0) /\ Set(text, f, << >>)

Next == \E f \in Files : Begin(f) \/ Put(f) \/ Done(f) \/ Read(f) \/ Reopen(f) \/ Truncate(f)

(* the files mkfs made are there from the start *)
Init == text \in [Files -> Seq(Bytes)] /\ off = [f \in Files |-> 0] /\ end = off
Spec == Init /\ [][Next]_<<text, off, end>>
=============================================================================
