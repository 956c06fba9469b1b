------------------------------ MODULE Umalloc ------------------------------
(***************************************************************************)
(* malloc and free of the user library (umalloc.c): a circular free list   *)
(* in address order, searched first fit from freep.  Memory is counted in  *)
(* units of sizeof(Header); a block is its header's address and its size,  *)
(* and address 0 stands for the static header base.  Other callers of sbrk *)
(* may leave gaps between the blocks morecore gets.                        *)
(***************************************************************************)
EXTENDS Integers, FiniteSets

CONSTANTS
  Units,    \* top of the address space
  Least,    \* units morecore asks for at least (4096)
  Requests  \* values of nunits: at least the header and one unit

VARIABLES
  ptr, size,  \* the headers
  freep,      \* where searches start, -1 before the first malloc
  brk,        \* end of the process's memory
  held,       \* headers of the blocks the program holds
  core        \* units the allocator got from sbrk

vars == <<ptr, size, freep, brk, held, core>>
Base == 0
Addr == 0 .. Units

Init ==
  /\ ptr = [a \in Addr |-> 0] /\ size = [a \in Addr |-> 0]
  /\ freep = -1 /\ brk = 1 /\ held = {} /\ core = {}

-----------------------------------------------------------------------------
(* A heap as a value: the headers and freep, before and after a call *)
Heap == [ptr |-> ptr, size |-> size, freep |-> freep]

(* free's search: the free block below bp, the last one if bp is above or below all *)
Between(h, bp, p) ==
  \/ bp > p /\ bp < h.ptr[p]
  \/ p >= h.ptr[p] /\ (bp > p \/ bp < h.ptr[p])

RECURSIVE Below(_, _, _)
Below(h, bp, p) == IF Between(h, bp, p) THEN p ELSE Below(h, bp, h.ptr[p])

(* join with the upper neighbour, then with the lower one *)

JoinUpper(h, bp, p) ==
  LET up == h.ptr[p] IN
  IF bp + h.size[bp] = up
  THEN [h EXCEPT !.size[bp] = @ + h.size[up], !.ptr[bp] = h.ptr[up]]
  ELSE [h EXCEPT !.ptr[bp] = up]

JoinLower(h, bp, p) ==
  IF p + h.size[p] = bp
  THEN [h EXCEPT !.size[p] = @ + h.size[bp], !.ptr[p] = h.ptr[bp]]
  ELSE [h EXCEPT !.ptr[p] = bp]

free(h, bp) ==
  LET p == Below(h, bp, h.freep) IN [JoinLower(JoinUpper(h, bp, p), bp, p) EXCEPT !.freep = p]

(* malloc: the list is made on the first call *)
Started(h) == IF h.freep = -1 THEN [h EXCEPT !.ptr[Base] = Base, !.size[Base] = 0, !.freep = Base] ELSE h

(* the predecessor of the first block that is large enough, -1 when back at freep *)
StopsEarly(h, p) == p = Base

BackAtStart(h, p) == p = h.freep

RECURSIVE Search(_, _, _)
Search(h, prevp, nunits) ==
  LET p == h.ptr[prevp] IN
  IF h.size[p] >= nunits THEN prevp
  ELSE IF BackAtStart(h, p) THEN -1
  ELSE Search(h, p, nunits)

(* take it whole, or its tail *)
Carve(h, prevp, nunits) ==
  LET p == h.ptr[prevp]
      rest == h.size[p] - nunits
  IN [h |-> IF rest = 0 THEN [h EXCEPT !.ptr[prevp] = h.ptr[p], !.freep = prevp]
            ELSE [h EXCEPT !.size[p] = rest, !.size[p + rest] = nunits, !.freep = prevp],
      block |-> p + rest]

(* morecore: sbrk, and free what it returns *)
Ask(nunits) == IF nunits < Least THEN Least ELSE nunits

More(h, nunits) == free([h EXCEPT !.size[brk] = Ask(nunits)], brk)

(* the headers on h's free list *)
RECURSIVE ListFrom(_, _, _)
ListFrom(h, p, seen) == IF p \in seen THEN seen ELSE ListFrom(h, h.ptr[p], seen \cup {p})
FreeList(h) == IF h.freep = -1 THEN {} ELSE ListFrom(h, h.freep, {})

(* a header that no block has any more, and the link of a held block, are the *)
(* program's to overwrite: 0 here                                             *)
Update(h, blocks) ==
  /\ ptr' = [a \in Addr |-> IF a \in FreeList(h) THEN h.ptr[a] ELSE 0]
  /\ size' = [a \in Addr |-> IF a \in FreeList(h) \cup blocks THEN h.size[a] ELSE 0]
  /\ freep' = h.freep /\ held' = blocks

Fits(nunits) == LET h == Started(Heap) IN Search(h, h.freep, nunits)

Malloc(nunits) ==
  LET h == Started(Heap)
      got == Carve(h, Fits(nunits), nunits)
  IN /\ Fits(nunits) # -1
     /\ Update(got.h, held \cup {got.block}) /\ UNCHANGED <<brk, core>>

(* after morecore the search goes on from the new freep *)
MallocMore(nunits) ==
  LET h == More(Started(Heap), nunits)
      got == Carve(h, Search(h, h.freep, nunits), nunits)
  IN /\ Fits(nunits) = -1 /\ brk + Ask(nunits) <= Units
     /\ Update(got.h, held \cup {got.block})
     /\ core' = core \cup brk .. brk + Ask(nunits) - 1 /\ brk' = brk + Ask(nunits)

(* sbrk fails: malloc returns 0 *)
MallocFails(nunits) ==
  /\ Fits(nunits) = -1 /\ brk + Ask(nunits) > Units
  /\ Update(Started(Heap), held) /\ UNCHANGED <<brk, core>>

Free(bp) ==
  /\ bp \in held
  /\ Update(free(Heap, bp), held \ {bp}) /\ UNCHANGED <<brk, core>>

(* the program calls sbrk itself *)
Sbrk ==
  /\ brk < Units /\ brk' = brk + 1
  /\ UNCHANGED <<ptr, size, freep, held, core>>

Next ==
  \/ \E nunits \in Requests : Malloc(nunits) \/ MallocMore(nunits) \/ MallocFails(nunits)
  \/ \E bp \in held : Free(bp)
  \/ Sbrk

Spec == Init /\ [][Next]_vars

-----------------------------------------------------------------------------
Block(a) == a .. a + size[a] - 1

(* Every unit got from sbrk is in exactly one block, free or held, and no     *)
(* block reaches outside: nothing is lost and no two blocks overlap, through  *)
(* any sequence of splits and joins.                                          *)
EachUnitOnce ==
  /\ UNION {Block(a) : a \in held \cup FreeList(Heap)} = core
  /\ \A a, b \in held \cup FreeList(Heap) : a # b => Block(a) \cap Block(b) = {}

(* The free list is one circle through base in address order, and no two      *)
(* free blocks touch: free joined them.                                       *)
ListInOrder ==
  freep # -1 =>
    /\ Base \in FreeList(Heap)
    /\ \A a \in FreeList(Heap) : LET up == {b \in FreeList(Heap) : b > a} IN
         IF up = {} THEN ptr[a] = Base
         ELSE ptr[a] \in up /\ (\A b \in up : ptr[a] <= b) /\ a + size[a] < ptr[a]

(* malloc turns to sbrk, or fails, only when no free block is large enough,   *)
(* although the search starts in the middle of the list.                      *)
SearchesAll == \A nunits \in Requests : Fits(nunits) = -1 => \A a \in FreeList(Heap) : size[a] < nunits
=============================================================================
