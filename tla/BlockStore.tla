----------------------------- MODULE BlockStore -----------------------------
(***************************************************************************)
(* What the buffer cache promises its callers (bio.c 3-14): one current    *)
(* content per disk block, which changes only in the hands of the one      *)
(* process that has the block between bread and brelse.                    *)
(***************************************************************************)
CONSTANTS Procs, Blocks, Vals, Nobody

VARIABLES content, owner

vars == <<content, owner>>

Init ==
  /\ content \in [Blocks -> Vals]
  /\ owner = [n \in Blocks |-> Nobody]

Take(n) ==
  /\ owner[n] = Nobody
  /\ \E p \in Procs : owner' = [owner EXCEPT ![n] = p]
  /\ UNCHANGED content

Update(n) ==
  /\ owner[n] # Nobody
  /\ \E v \in Vals : content' = [content EXCEPT ![n] = v]
  /\ UNCHANGED owner

Give(n) ==
  /\ owner[n] # Nobody
  /\ owner' = [owner EXCEPT ![n] = Nobody]
  /\ UNCHANGED content

Next == \E n \in Blocks : Take(n) \/ Update(n) \/ Give(n)

Spec == Init /\ [][Next]_vars
=============================================================================
