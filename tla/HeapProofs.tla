----------------------------- MODULE HeapProofs -----------------------------
(***************************************************************************)
(* The heap of the stride scheduler, for every capacity and all values of  *)
(* pass, runtime and pid.                                                  *)
(***************************************************************************)
EXTENDS Heap, TLAPS

(* The order is total, and greater is its strict converse. *)
LEMMA OrderLemma ==
  ASSUME HeapAssumption
  PROVE  \A p, q, r \in Procs :
           /\ Precedes(p, p)
           /\ Precedes(p, q) /\ Precedes(q, r) => Precedes(p, r)
           /\ greater(p, q) <=> ~Precedes(p, q)
           /\ ~Precedes(p, q) => Precedes(q, p)
<1> SUFFICES ASSUME NEW p \in Procs, NEW q \in Procs, NEW r \in Procs PROVE
       /\ Precedes(p, p)
       /\ Precedes(p, q) /\ Precedes(q, r) => Precedes(p, r)
       /\ greater(p, q) <=> ~Precedes(p, q)
       /\ ~Precedes(p, q) => Precedes(q, p)
  BY Zenon
<1>1. \A x \in Procs : x.pass \in Int /\ x.runtime \in Int /\ x.pid \in Int
  BY Zenon DEF HeapAssumption, Procs
<1>2. Precedes(p, p) /\ (~Precedes(p, q) => Precedes(q, p))
  BY <1>1 DEF Precedes
<1>3. Precedes(p, q) /\ Precedes(q, r) => Precedes(p, r)
  BY <1>1 DEF Precedes
<1>4. greater(p, q) <=> ~Precedes(p, q)
  BY <1>1 DEF Precedes, greater, compare
<1> QED BY Zenon, <1>2, <1>3, <1>4

(* The parent of an entry other than the root comes before it in the array. *)
LEMMA ParentLemma ==
  \A i \in Int : i > 0 => parent(i) \in Int /\ 0 <= parent(i) /\ parent(i) < i
BY DEF parent

(* The entries in use: while push is in its loop, the new one counts too. *)
Used == IF Between THEN 0 .. size - 1 ELSE 0 .. size

(* Inductive invariant.  The root precedes every entry in use, except that while
   push is in its loop the entry it is moving may not be in place yet. *)
IInv ==
  /\ TypeOK
  /\ ~Between => size < NPROC /\ idx <= size
  /\ pushed = {arr[i] : i \in Used}
  /\ \A i \in Used : i # idx => Precedes(arr[0], arr[i])

(* An empty heap satisfies the invariant, whatever its array holds. *)
LEMMA InitIInv ==
  ASSUME HeapAssumption
  PROVE  Init => IInv
BY DEF HeapAssumption, Init, IInv, TypeOK, Used, Between, Index

(* Every step of the heap keeps the invariant. *)
LEMMA NextIInv ==
  ASSUME HeapAssumption
  PROVE  IInv /\ [Next]_vars => IInv'
<1> SUFFICES ASSUME IInv, [Next]_vars PROVE IInv'
  BY Zenon
<1> USE DEF HeapAssumption
<1>t. TypeOK /\ 0 \in Index
  BY DEF IInv, Index
<1>1. CASE Clear
  BY <1>1, <1>t DEF Clear, IInv, TypeOK, Used, Between
<1>2. ASSUME NEW p \in Procs, PushStart(p) PROVE IInv'
  <2>1. /\ size \in Index /\ idx' = size /\ size' = size /\ idx = -1
        /\ arr' = [arr EXCEPT ![size] = p] /\ pushed' = pushed \cup {p}
    BY <1>2, <1>t DEF PushStart, Accepts, Between, TypeOK, Index
  <2>2. TypeOK' /\ (~Between => size < NPROC /\ idx <= size)'
    BY <2>1, <1>t DEF TypeOK, Index, Between
  <2>3. Used = 0 .. size - 1 /\ Used' = 0 .. size
    BY <2>1, <1>t DEF Used, Between, TypeOK, Index
  <2>4. \A i \in 0 .. size - 1 : arr'[i] = arr[i] /\ i \in Index
    BY <2>1, <1>t DEF TypeOK, Index
  <2>5. arr'[size] = p
    BY Zenon, <2>1, <1>t DEF TypeOK
  <2>6. (pushed = {arr[i] : i \in Used})'
    <3>1. 0 .. size = 0 .. size - 1 \cup {size}
      BY <2>1 DEF Index
    <3> QED BY <3>1, <2>1, <2>3, <2>4, <2>5 DEF IInv
  <2>7. (\A i \in Used : i # idx => Precedes(arr[0], arr[i]))'
    <3> SUFFICES ASSUME NEW i \in 0 .. size, i # size PROVE Precedes(arr'[0], arr'[i])
      BY Zenon, <2>1, <2>3
    <3>1. i \in 0 .. size - 1 /\ 0 \in 0 .. size - 1 /\ i # idx
      BY <2>1 DEF Index
    <3> QED BY Zenon, <3>1, <2>3, <2>4 DEF IInv
  <2> QED BY Zenon, <2>2, <2>6, <2>7 DEF IInv
<1>3. CASE PushSwap
  <2> DEFINE q == parent(idx)
  <2>1. /\ idx \in Index /\ idx > 0 /\ size < NPROC /\ idx <= size /\ size \in Nat
        /\ q \in Index /\ q < idx /\ idx' = q /\ size' = size /\ pushed' = pushed
    BY <1>3, <1>t, ParentLemma DEF PushSwap, Between, Rises, IInv, TypeOK, Index
  <2>2. Used = 0 .. size /\ Used' = 0 .. size
    BY <2>1 DEF Used, Between, Index
  <2>3. arr' \in [Index -> Procs] /\ arr'[idx] = arr[q] /\ arr'[q] = arr[idx]
    BY Zenon, <2>1, <1>3, <1>t DEF PushSwap, TypeOK
  <2>4. \A i \in Index : i # idx /\ i # q => arr'[i] = arr[i]
    BY Zenon, <2>1, <1>3, <1>t DEF PushSwap, TypeOK
  <2>5. TypeOK' /\ (~Between => size < NPROC /\ idx <= size)'
    BY <2>1, <2>3, <1>t DEF TypeOK, Index, Between
  <2>6. (pushed = {arr[i] : i \in Used})'
    <3>1. idx \in 0 .. size /\ q \in 0 .. size /\ 0 .. size \subseteq Index
      BY <2>1 DEF Index
    <3>2. {arr'[i] : i \in 0 .. size} = {arr[i] : i \in 0 .. size}
      BY Zenon, <3>1, <2>3, <2>4
    <3> QED BY Zenon, <3>2, <2>1, <2>2 DEF IInv
  <2>7. ~Precedes(arr[q], arr[idx]) /\ Precedes(arr[idx], arr[q])
    BY ZenonT(40), <1>3, <1>t, <2>1, OrderLemma DEF PushSwap, Rises, TypeOK
  <2>8. (\A i \in Used : i # idx => Precedes(arr[0], arr[i]))'
    <3> SUFFICES ASSUME NEW i \in 0 .. size, i # q PROVE Precedes(arr'[0], arr'[i])
      BY Zenon, <2>1, <2>2
    <3>1. i \in Index /\ 0 \in 0 .. size /\ q \in 0 .. size /\ q # idx /\ 0 # idx
      BY <2>1 DEF Index
    <3>2. Precedes(arr[0], arr[q])
      BY Zenon, <3>1, <2>2 DEF IInv
    <3>3. i # idx => arr'[i] = arr[i] /\ Precedes(arr[0], arr[i])
      BY Zenon, <3>1, <2>2, <2>4 DEF IInv
    <3>4. \A j \in Index : arr[j] \in Procs
      BY Zenon, <1>t DEF TypeOK
    <3>5. CASE q = 0
      <4>1. arr'[0] = arr[idx] /\ Precedes(arr[idx], arr[0])
        BY Zenon, <3>5, <2>3, <2>7
      <4>2. CASE i = idx
        BY Zenon, <4>1, <4>2, <3>5, <2>3
      <4>3. CASE i # idx
        BY Zenon, <4>1, <4>3, <3>1, <3>3, <3>4, <1>t, <2>1, OrderLemma
      <4> QED BY Zenon, <4>2, <4>3
    <3>6. CASE q # 0
      <4>1. arr'[0] = arr[0]
        BY Zenon, <3>6, <3>1, <2>4, <1>t
      <4> QED BY Zenon, <4>1, <3>2, <3>3, <2>3
    <3> QED BY Zenon, <3>5, <3>6
  <2> QED BY Zenon, <2>5, <2>6, <2>8 DEF IInv
<1>4. CASE PushDone
  <2>1. /\ idx \in Index /\ idx <= size /\ size < NPROC /\ size \in Nat
        /\ idx' = -1 /\ size' = size + 1 /\ arr' = arr /\ pushed' = pushed
    BY <1>4, <1>t DEF PushDone, Between, IInv, TypeOK, Index
  <2>2. Used = 0 .. size /\ Used' = 0 .. size
    BY <2>1 DEF Used, Between, Index
  <2>3. TypeOK' /\ (~Between => size < NPROC /\ idx <= size)'
    BY <2>1, <1>t DEF TypeOK, Between
  <2>4. Precedes(arr[0], arr[idx])
    <3>1. CASE idx = 0
      BY Zenon, <3>1, <1>t, OrderLemma DEF TypeOK
    <3>2. CASE idx # 0
      <4> DEFINE q == parent(idx)
      <4>1. q \in Index /\ q \in 0 .. size /\ q # idx
        BY <2>1, <3>2, ParentLemma DEF Index
      <4>2. Precedes(arr[q], arr[idx])
        BY <1>4, <3>2, <4>1, <2>1, <1>t, OrderLemma DEF PushDone, Rises, TypeOK
      <4>3. Precedes(arr[0], arr[q])
        BY Zenon, <4>1, <2>2 DEF IInv
      <4> QED BY Zenon, <4>1, <4>2, <4>3, <2>1, <1>t, OrderLemma DEF TypeOK
    <3> QED BY Zenon, <3>1, <3>2
  <2> QED BY Zenon, <2>1, <2>2, <2>3, <2>4 DEF IInv
<1>5. CASE UNCHANGED vars
  BY Zenon, <1>5 DEF vars, IInv, TypeOK, Used, Between
<1> QED BY Zenon, <1>1, <1>2, <1>3, <1>4, <1>5 DEF Next

(* The heap never grows past its array, whatever is pushed (push's test). *)
THEOREM HeapTypeOK ==
  ASSUME HeapAssumption
  PROVE  Spec => []TypeOK
<1>1. IInv => TypeOK
  BY Zenon DEF IInv
<1> QED BY <1>1, InitIInv, NextIInv, PTL DEF Spec

(* getmin always returns the process that the scheduling order puts first among
   those pushed, for every number of processes. *)
THEOREM GetminCorrect ==
  ASSUME HeapAssumption
  PROVE  Spec => []GetminIsLeast
<1>1. IInv => GetminIsLeast
  <2> SUFFICES ASSUME IInv, Between, size > 0 PROVE
         getmin \in pushed /\ \A p \in pushed : Precedes(getmin, p)
    BY Zenon DEF GetminIsLeast
  <2>1. Used = 0 .. size - 1 /\ 0 \in Used /\ -1 \notin Used /\ idx = -1
    BY DEF Used, IInv, TypeOK, Between
  <2> QED BY Zenon, <2>1 DEF IInv, getmin
<1> QED BY <1>1, InitIInv, NextIInv, PTL DEF Spec
=============================================================================
