----------------------------- MODULE StrideHeap -----------------------------
(***************************************************************************)
(* The stand-alone priority queue of strideheap.c: an array of processes   *)
(* by value, with push, getmin, pop (which sifts down) and getsorted       *)
(* (which empties the heap and fills it again).  It is sequential, so a    *)
(* step is one call.  The heap inside proc.c is module Heap.               *)
(***************************************************************************)
EXTENDS Integers, Sequences, Bags, FiniteSets

CONSTANTS
  Cap,      \* bound: processes pushed; the array has room for 64 and push does not test
  Entries   \* processes: [pass, runtime, pid]

VARIABLES
  arr,      \* the first size elements of h->arr, from index 0
  pushed    \* the bag of processes pushed and not popped

vars == <<arr, pushed>>

Init == arr = << >> /\ pushed = EmptyBag

-----------------------------------------------------------------------------
At(a, i) == a[i + 1]     \* C's index

parent(idx) == (idx - 1) \div 2

greater(p1, p2) ==
  \/ p1.pass > p2.pass
  \/ p1.pass = p2.pass /\ p1.runtime > p2.runtime
  \/ p1.pass = p2.pass /\ p1.runtime = p2.runtime /\ p1.pid > p2.pid

swap(a, i, j) == [a EXCEPT ![i + 1] = At(a, j), ![j + 1] = At(a, i)]

RECURSIVE SiftUp(_, _)
SiftUp(a, idx) ==
  IF idx # 0 /\ greater(At(a, parent(idx)), At(a, idx))
  THEN SiftUp(swap(a, idx, parent(idx)), parent(idx)) ELSE a

push(a, p) == SiftUp(Append(a, p), Len(a))

getmin(a) == At(a, 0)

OneChild(a, idx) ==
  LET left == 2 * idx + 1
  IN IF left < Len(a) /\ greater(At(a, idx), At(a, left)) THEN left ELSE idx

(* the least of a node and its children *)
Smallest(a, idx) ==
  LET left == 2 * idx + 1
      s1 == IF left < Len(a) /\ greater(At(a, idx), At(a, left)) THEN left ELSE idx
  IN IF left + 1 < Len(a) /\ greater(At(a, s1), At(a, left + 1)) THEN left + 1 ELSE s1

RECURSIVE heapify(_, _)
heapify(a, idx) ==
  LET s == Smallest(a, idx) IN IF s = idx THEN a ELSE heapify(swap(a, idx, s), s)

pop(a) == heapify(SubSeq(swap(a, 0, Len(a) - 1), 1, Len(a) - 1), 0)

RECURSIVE Drain(_)
Drain(a) == IF a = << >> THEN << >> ELSE <<getmin(a)>> \o Drain(pop(a))

RECURSIVE PushAll(_, _)
PushAll(a, s) == IF s = << >> THEN a ELSE PushAll(push(a, Head(s)), Tail(s))

-----------------------------------------------------------------------------
Push(p) == arr' = push(arr, p) /\ pushed' = pushed (+) SetToBag({p})

Pop ==
  /\ arr # << >>
  /\ arr' = pop(arr) /\ pushed' = pushed (-) SetToBag({getmin(arr)})

(* it returns Drain(arr) and pushes all of it again *)
getsorted == arr' = PushAll(<< >>, Drain(arr)) /\ UNCHANGED pushed

Next == (Len(arr) < Cap /\ \E p \in Entries : Push(p)) \/ Pop \/ getsorted

Spec == Init /\ [][Next]_vars

-----------------------------------------------------------------------------
(* The order promised: pass, then runtime, then pid. *)
Before(p, q) ==
  \/ p.pass < q.pass
  \/ p.pass = q.pass /\ p.runtime < q.runtime
  \/ p.pass = q.pass /\ p.runtime = q.runtime /\ p.pid <= q.pid
BagOf(s) == LET In == {s[i] : i \in 1 .. Len(s)}
            IN [x \in In |-> Cardinality({i \in 1 .. Len(s) : s[i] = x})]

(* The root comes first of all processes pushed and not popped, and none is   *)
(* lost or doubled, after any mixture of pushes, pops and sortings.           *)
RootIsLeast == BagOf(arr) = pushed /\ \A i \in 1 .. Len(arr) : Before(getmin(arr), arr[i])

(* getsorted returns every process of the heap, in ascending order.           *)
SortedIsSorted ==
  LET s == Drain(arr)
  IN BagOf(s) = pushed /\ \A i \in 1 .. Len(s) - 1 : Before(s[i], s[i + 1])
=============================================================================
