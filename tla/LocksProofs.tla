---------------------------- MODULE LocksProofs ----------------------------
(***************************************************************************)
(* Proofs about Locks, for any number of cpus and threads: the locks that  *)
(* a path of kernel code holds at each point can be read off what is left  *)
(* of it, and the locks of a cpu are those of the context that it runs.    *)
(***************************************************************************)
EXTENDS Locks, TLAPS

(* sched(), swtch() and the search of the table are done with ptable.lock held. *)
Gives(s, l) == s = rel(l) \/ (l = "ptable" /\ s \in {scan, swtch, sched, zombie})

(* The locks held at place i of a path: those that it releases, or switches out
   with, before it acquires them. *)
Owes(p, i) ==
  {l \in LockNames : \E j \in i .. Len(p) : Gives(p[j], l) /\ \A k \in i .. j - 1 : p[k] # acq(l)}

(* The order in which the code nests its locks: those held around sleep and wakeup
   come before ptable.lock. *)
Waited == {"tickslock", "cons", "idelock", "log"} \cup Pipes \cup SleepLocks
Order == {<<l, "ptable">> : l \in Waited} \cup {<<"ptable", "cons">>, <<"ptable", "kmem">>}
After(H, l) == \A h \in H : <<h, l>> \in Order

(* What step s asks of the locks H held before it and K held after it. *)
StepOk(s, H, K) ==
  /\ \A l \in LockNames : s = acq(l) => l \in K /\ After(H, l)
  /\ \A l \in LockNames : s = rel(l) => l \notin K
  /\ s \in {sched, swtch} => H = {"ptable"} /\ K = {"ptable"}
  /\ s \in {scan, zombie} => H = {"ptable"}
  /\ s \in {sti, iret, closing} => H = {} /\ K = {}

(* p is a path of steps in A on which every step finds the locks it needs, and
   that starts with the locks H. *)
Leads(p, A, H) ==
  /\ p \in Seq(A)
  /\ \A i \in 1 .. Len(p) : StepOk(p[i], Owes(p, i), Owes(p, i + 1))
  /\ Owes(p, 1) = H

Good(p, A) == Leads(p, A, Owes(p, 1))

LockSteps == {acq(l) : l \in LockNames} \cup {rel(l) : l \in LockNames}
IrqSteps == LockSteps \cup {sched, zombie, closing}
ThreadSteps == IrqSteps \cup {iret}
SchedulerSteps == LockSteps \cup {sti, scan, swtch}

-----------------------------------------------------------------------------
(* The inductive invariant *)

HeldBy(c) == {l \in LockNames : holder[l] = c}
Running(x) == \E c \in CPUS : run[c] = x

(* the locks that context x has when it runs *)
Needs(x) == Owes(Path(x), 1)

(* a context follows the kernel's paths; handlers interrupt code without locks *)
TodoSteps(x) == IF x \in Threads THEN ThreadSteps ELSE SchedulerSteps
HandlerSteps(x) == IF x \in Threads THEN IrqSteps ELSE LockSteps
OnPath(x) ==
  /\ Good(todo[x], TodoSteps(x))
  /\ inirq[x] => Good(irq[x], HandlerSteps(x)) /\ Owes(todo[x], 1) = {}

(* a thread in forkret has no interrupt flag of its own yet *)
Fresh(x) == ~inirq[x] /\ todo[x] = forkret

(* pushcli's depth, with one for each lock held and one for the lock spun for *)
Depth(c) == Cardinality(HeldBy(c)) + (IF spin[c] = NoLock THEN 0 ELSE 1)

(* what the steps use of the size of a set of locks *)
Counts ==
  /\ Cardinality({}) = 0 /\ Cardinality({"ptable"}) = 1
  /\ \A S \in SUBSET LockNames :
       /\ Cardinality(S) \in Nat
       /\ Cardinality(S) = 0 => S = {}
       /\ \A l \in S : Cardinality(S \ {l}) = Cardinality(S) - 1
       /\ \A l \in LockNames \ S : Cardinality(S \cup {l}) = Cardinality(S) + 1

(* cpu c, running context x, holds what x needs, and its interrupt flags follow
   the locks *)
Follows(c, x) ==
  /\ HeldBy(c) = Needs(x)
  /\ ncli[c] = Depth(c)
  /\ spin[c] # NoLock => Path(x) # << >> /\ Head(Path(x)) = acq(spin[c])
  /\ ncli[c] > 0 \/ inirq[x] => ~IF_[c]
  /\ inirq[x] /\ ncli[c] > 0 => ~intena[c]
  /\ x \in Threads /\ ~inirq[x] =>
       IF ncli[c] > 0 THEN Fresh(x) \/ intena[c] ELSE todo[x] = <<iret>> \/ IF_[c]

(* a context that no cpu runs was switched out with ptable.lock, and its thread
   keeps the flag to restore *)
OffOk(x) ==
  /\ Needs(x) = {"ptable"}
  /\ x \in CPUS => ~inirq[x]
  /\ x \in Threads => Fresh(x) \/ saved[x] = ~inirq[x]

OneCpu ==
  /\ \A c \in CPUS : run[c] \in {c} \cup Threads
  /\ \A c, d \in CPUS : run[c] = run[d] => c = d

IInv ==
  /\ TypeOK /\ ~panic /\ OneCpu
  /\ \A x \in Contexts : OnPath(x)
  /\ \A c \in CPUS : Follows(c, run[c])
  /\ \A x \in Contexts : ~Running(x) => OffOk(x)

-----------------------------------------------------------------------------
(* Paths *)

(* Sequences of the same length with the same elements are equal. *)
LEMMA SameSeq ==
  ASSUME NEW S, NEW s \in Seq(S), NEW t \in Seq(S),
         Len(s) = Len(t), \A i \in 1 .. Len(s) : s[i] = t[i]
  PROVE  s = t
OBVIOUS

(* A sequence without its first element. *)
LEMMA TailFacts ==
  ASSUME NEW S, NEW s \in Seq(S), s # << >>
  PROVE  /\ Head(s) \in S /\ Tail(s) \in Seq(S) /\ Len(Tail(s)) = Len(s) - 1
         /\ \A i \in 1 .. Len(Tail(s)) : Tail(s)[i] = s[i + 1]
OBVIOUS

(* Two sequences one after the other. *)
LEMMA ConcatFacts ==
  ASSUME NEW S, NEW s \in Seq(S), NEW t \in Seq(S)
  PROVE  /\ s \o t \in Seq(S) /\ Len(s \o t) = Len(s) + Len(t)
         /\ \A i \in 1 .. Len(s) + Len(t) :
              (s \o t)[i] = IF i <= Len(s) THEN s[i] ELSE t[i - Len(s)]
OBVIOUS

(* Steps of different kinds, or on different locks, are different. *)
LEMMA StepFacts ==
  /\ \A l, m : acq(l) # rel(m) /\ (acq(l) = acq(m) => l = m) /\ (rel(l) = rel(m) => l = m)
  /\ \A l : acq(l) \notin {sched, zombie, closing, swtch, scan, sti, iret}
  /\ \A l : rel(l) \notin {sched, zombie, closing, swtch, scan, sti, iret}
  /\ sched # swtch /\ sched # scan /\ sched # sti /\ sched # iret /\ swtch # scan
  /\ swtch # sti /\ swtch # iret /\ scan # sti /\ scan # iret /\ sti # iret
  /\ zombie \notin {sched, closing, swtch, scan, sti, iret} /\ closing \notin {sched, swtch, scan, sti, iret}
BY DEF acq, rel, sched, zombie, closing, swtch, scan, sti, iret

(* The locks at one place of a path, from those at the next. *)
LEMMA Unfold ==
  ASSUME NEW S, NEW p \in Seq(S), NEW i \in 1 .. Len(p), NEW l \in LockNames
  PROVE  l \in Owes(p, i) <=> Gives(p[i], l) \/ (p[i] # acq(l) /\ l \in Owes(p, i + 1))
<1> DEFINE Out(a, j) == Gives(p[j], l) /\ \A k \in a .. j - 1 : p[k] # acq(l)
<1>1. \A a \in Nat : l \in Owes(p, a) <=> \E j \in a .. Len(p) : Out(a, j) BY Zenon DEF Owes
<1>2. Len(p) \in Nat /\ i \in Nat OBVIOUS
<1>3. ASSUME NEW j \in i .. Len(p), Out(i, j) PROVE Gives(p[i], l) \/ (p[i] # acq(l) /\ l \in Owes(p, i + 1))
  <2>1. CASE j = i BY Zenon, <1>3, <2>1
  <2>2. CASE j # i
    <3>1. j \in i + 1 .. Len(p) /\ i \in i .. j - 1 BY <1>2, <2>2
    <3>2. \A k \in i + 1 .. j - 1 : k \in i .. j - 1 BY <1>2
    <3>3. Out(i + 1, j) /\ p[i] # acq(l) BY Zenon, <1>3, <3>1, <3>2
    <3>4. i + 1 \in Nat BY <1>2
    <3> QED BY Zenon, <1>1, <3>1, <3>3, <3>4
  <2> QED BY Zenon, <2>1, <2>2
<1>4. ASSUME Gives(p[i], l) PROVE l \in Owes(p, i)
  <2>1. i \in i .. Len(p) /\ \A k \in i .. i - 1 : FALSE BY <1>2
  <2>2. Out(i, i) BY Zenon, <1>4, <2>1
  <2> QED BY Zenon, <1>1, <1>2, <2>1, <2>2
<1>5. ASSUME p[i] # acq(l), NEW j \in i + 1 .. Len(p), Out(i + 1, j) PROVE l \in Owes(p, i)
  <2>1. j \in i .. Len(p) /\ \A k \in i .. j - 1 : k = i \/ k \in i + 1 .. j - 1 BY <1>2
  <2>2. Out(i, j) BY Zenon, <1>5, <2>1
  <2> QED BY Zenon, <1>1, <1>2, <2>1, <2>2
<1>6. i + 1 \in Nat BY <1>2
<1> HIDE DEF Out
<1> QED BY Zenon, <1>1, <1>2, <1>3, <1>4, <1>5, <1>6

(* Dropping the first step moves the places by one. *)
LEMMA Shift ==
  ASSUME NEW S, NEW p \in Seq(S), p # << >>, NEW i \in Nat \ {0}
  PROVE  Owes(Tail(p), i) = Owes(p, i + 1)
<1>1. /\ Len(p) \in Nat /\ Len(Tail(p)) = Len(p) - 1 /\ i \in Nat
      /\ \A j \in 1 .. Len(p) - 1 : Tail(p)[j] = p[j + 1]
  BY TailFacts
<1>2. ASSUME NEW l, NEW j \in i .. Len(p) - 1, Gives(Tail(p)[j], l), \A k \in i .. j - 1 : Tail(p)[k] # acq(l)
      PROVE  \E m \in i + 1 .. Len(p) : Gives(p[m], l) /\ \A k \in i + 1 .. m - 1 : p[k] # acq(l)
  <2>1. j + 1 \in i + 1 .. Len(p) /\ p[j + 1] = Tail(p)[j] BY <1>1
  <2>2. ASSUME NEW k \in i + 1 .. (j + 1) - 1 PROVE p[k] # acq(l)
    <3>1. k - 1 \in i .. j - 1 /\ k - 1 \in 1 .. Len(p) - 1 /\ (k - 1) + 1 = k BY <1>1
    <3> QED BY Zenon, <1>1, <1>2, <3>1
  <2> QED BY Zenon, <1>2, <2>1, <2>2
<1>3. ASSUME NEW l, NEW m \in i + 1 .. Len(p), Gives(p[m], l), \A k \in i + 1 .. m - 1 : p[k] # acq(l)
      PROVE  \E j \in i .. Len(p) - 1 : Gives(Tail(p)[j], l) /\ \A k \in i .. j - 1 : Tail(p)[k] # acq(l)
  <2>1. m - 1 \in i .. Len(p) - 1 /\ m - 1 \in 1 .. Len(p) - 1 /\ (m - 1) + 1 = m BY <1>1
  <2>2. Tail(p)[m - 1] = p[m] BY Zenon, <1>1, <2>1
  <2>3. ASSUME NEW k \in i .. (m - 1) - 1 PROVE Tail(p)[k] # acq(l)
    <3>1. k + 1 \in i + 1 .. m - 1 /\ k \in 1 .. Len(p) - 1 BY <1>1
    <3> QED BY Zenon, <1>1, <1>3, <3>1
  <2> QED BY Zenon, <1>3, <2>1, <2>2, <2>3
<1> QED BY Zenon, <1>1, <1>2, <1>3 DEF Owes

(* After its first step a path leads on. *)
LEMMA TailLeads ==
  ASSUME NEW A, NEW H, NEW p, Leads(p, A, H), p # << >>
  PROVE  /\ Head(p) \in A /\ Good(Tail(p), A)
         /\ StepOk(Head(p), H, Owes(Tail(p), 1))
         /\ \A l \in LockNames :
              l \in H <=> Gives(Head(p), l) \/ (Head(p) # acq(l) /\ l \in Owes(Tail(p), 1))
<1>1. p \in Seq(A) /\ Owes(p, 1) = H BY Zenon DEF Leads
<1>2. /\ Head(p) \in A /\ Tail(p) \in Seq(A) /\ Len(p) \in Nat /\ Len(Tail(p)) = Len(p) - 1
      /\ Head(p) = p[1] /\ 1 \in 1 .. Len(p) /\ 1 + 1 = 2 /\ 1 \in Nat \ {0}
      /\ \A j \in 1 .. Len(p) - 1 : Tail(p)[j] = p[j + 1] /\ j + 1 \in 1 .. Len(p) /\ j \in Nat \ {0} /\ j + 1 \in Nat \ {0}
  BY <1>1, TailFacts
<1>3. Owes(Tail(p), 1) = Owes(p, 1 + 1) BY Zenon, <1>1, <1>2, Shift
<1>4. StepOk(Head(p), H, Owes(Tail(p), 1)) BY Zenon, <1>1, <1>2, <1>3 DEF Leads
<1>5. ASSUME NEW j \in 1 .. Len(Tail(p))
      PROVE  StepOk(Tail(p)[j], Owes(Tail(p), j), Owes(Tail(p), j + 1))
  <2>1. j \in 1 .. Len(p) - 1 BY Zenon, <1>2
  <2>2. Owes(Tail(p), j) = Owes(p, j + 1) /\ Owes(Tail(p), j + 1) = Owes(p, (j + 1) + 1)
    BY Zenon, <1>1, <1>2, <2>1, Shift
  <2>3. StepOk(p[j + 1], Owes(p, j + 1), Owes(p, (j + 1) + 1)) BY Zenon, <1>2, <2>1 DEF Leads
  <2> QED BY Zenon, <1>2, <2>1, <2>2, <2>3
<1>6. Good(Tail(p), A) BY Zenon, <1>2, <1>5 DEF Good, Leads
<1>7. ASSUME NEW l \in LockNames
      PROVE  l \in H <=> Gives(Head(p), l) \/ (Head(p) # acq(l) /\ l \in Owes(Tail(p), 1))
  <2>1. l \in Owes(p, 1) <=> Gives(p[1], l) \/ (p[1] # acq(l) /\ l \in Owes(p, 1 + 1))
    BY Zenon, <1>1, <1>2, Unfold
  <2> QED BY Zenon, <1>1, <1>2, <1>3, <2>1
<1> QED BY Zenon, <1>2, <1>4, <1>6, <1>7

(* The locks of a path are locks. *)
LEMMA OwesLocks == ASSUME NEW p, NEW i PROVE Owes(p, i) \subseteq LockNames
BY Zenon DEF Owes

(* A path that has nothing left holds nothing. *)
LEMMA EmptyLeads == ASSUME NEW A PROVE Leads(<< >>, A, {})
<1>1. << >> \in Seq(A) /\ Len(<< >>) = 0 /\ \A i \in 1 .. 0 : FALSE OBVIOUS
<1> QED BY Zenon, <1>1 DEF Leads, Owes

(* acquire: the lock was not held and comes last in the order. *)
LEMMA HeadAcq ==
  ASSUME NEW A, NEW H, NEW p, Leads(p, A, H), p # << >>, NEW l \in LockNames, Head(p) = acq(l)
  PROVE  l \notin H /\ After(H, l) /\ Leads(Tail(p), A, H \cup {l})
<1> DEFINE K == Owes(Tail(p), 1)
<1>1. H \subseteq LockNames /\ K \subseteq LockNames BY Zenon, OwesLocks DEF Leads
<1>2. ASSUME NEW m \in LockNames PROVE m \in H <=> m # l /\ m \in K
  <2>1. ~Gives(acq(l), m) /\ (acq(l) = acq(m) <=> l = m) BY Zenon, StepFacts DEF Gives
  <2>2. m \in H <=> Gives(Head(p), m) \/ (Head(p) # acq(m) /\ m \in Owes(Tail(p), 1)) BY Zenon, TailLeads
  <2> QED BY Zenon, <2>1, <2>2
<1>3. l \in K /\ After(H, l) BY Zenon, TailLeads DEF StepOk
<1>4. K = H \cup {l} BY Zenon, <1>1, <1>2, <1>3
<1>5. Leads(Tail(p), A, K) BY Zenon, TailLeads DEF Good
<1> QED BY Zenon, <1>2, <1>3, <1>4, <1>5

(* release: the lock was held. *)
LEMMA HeadRel ==
  ASSUME NEW A, NEW H, NEW p, Leads(p, A, H), p # << >>, NEW l \in LockNames, Head(p) = rel(l)
  PROVE  l \in H /\ Leads(Tail(p), A, H \ {l})
<1> DEFINE K == Owes(Tail(p), 1)
<1>1. H \subseteq LockNames /\ K \subseteq LockNames BY Zenon, OwesLocks DEF Leads
<1>2. ASSUME NEW m \in LockNames PROVE m \in H <=> m = l \/ m \in K
  <2>1. rel(l) # acq(m) /\ (Gives(rel(l), m) <=> l = m) BY Zenon, StepFacts DEF Gives
  <2>2. m \in H <=> Gives(Head(p), m) \/ (Head(p) # acq(m) /\ m \in Owes(Tail(p), 1)) BY Zenon, TailLeads
  <2> QED BY Zenon, <2>1, <2>2
<1>3. l \notin K BY Zenon, TailLeads DEF StepOk
<1>4. K = H \ {l} BY Zenon, <1>1, <1>2, <1>3
<1>5. Leads(Tail(p), A, K) BY Zenon, TailLeads DEF Good
<1> QED BY Zenon, <1>2, <1>4, <1>5

(* The context switches and sti ask for what they say, and leave the locks. *)
LEMMA HeadOther ==
  ASSUME NEW A, NEW H, NEW p, Leads(p, A, H), p # << >>
  PROVE  /\ Head(p) \in {sched, swtch} => H = {"ptable"} /\ Leads(Tail(p), A, {"ptable"})
         /\ Head(p) \in {scan, zombie} => H = {"ptable"}
         /\ Head(p) \in {sti, iret, closing} => H = {} /\ Leads(Tail(p), A, {})
<1>1. Leads(Tail(p), A, Owes(Tail(p), 1)) /\ StepOk(Head(p), H, Owes(Tail(p), 1)) BY Zenon, TailLeads DEF Good
<1> QED BY Zenon, <1>1 DEF StepOk

-----------------------------------------------------------------------------
(* The kernel's paths *)

(* A step put before a path. *)
LEMMA PutBefore ==
  ASSUME NEW A, NEW r, NEW H, NEW K, NEW s \in A, Leads(r, A, K), H \subseteq LockNames, StepOk(s, H, K),
         \A l \in LockNames : l \in H <=> Gives(s, l) \/ (s # acq(l) /\ l \in K)
  PROVE  Leads(<<s>> \o r, A, H)
<1> DEFINE p == <<s>> \o r
<1>1. r \in Seq(A) /\ Owes(r, 1) = K BY Zenon DEF Leads
<1>2. /\ p \in Seq(A) /\ p # << >> /\ Tail(p) = r /\ p[1] = s /\ Len(p) = Len(r) + 1 /\ 1 \in 1 .. Len(p)
      /\ \A i \in 1 .. Len(p) : i = 1 \/ (i - 1 \in 1 .. Len(r) /\ p[i] = r[i - 1] /\ i - 1 \in Nat \ {0}
                                        /\ (i - 1) + 1 = i /\ i \in Nat \ {0})
      /\ 1 \in Nat \ {0}
  BY <1>1
<1> HIDE DEF p
<1>3. Owes(p, 1 + 1) = K BY Zenon, <1>1, <1>2, Shift
<1>4. ASSUME NEW l \in LockNames PROVE l \in Owes(p, 1) <=> l \in H
  <2>1. l \in Owes(p, 1) <=> Gives(p[1], l) \/ (p[1] # acq(l) /\ l \in Owes(p, 1 + 1)) BY Zenon, <1>2, Unfold
  <2> QED BY Zenon, <1>2, <1>3, <2>1
<1>5. Owes(p, 1) = H BY Zenon, <1>4, OwesLocks
<1>6. ASSUME NEW i \in 1 .. Len(p) PROVE StepOk(p[i], Owes(p, i), Owes(p, i + 1))
  <2>1. CASE i = 1 BY Zenon, <1>2, <1>3, <1>5, <2>1
  <2>2. CASE i # 1
    <3>1. /\ i - 1 \in 1 .. Len(r) /\ p[i] = r[i - 1] /\ i - 1 \in Nat \ {0}
          /\ (i - 1) + 1 = i /\ i \in Nat \ {0}
      BY Zenon, <1>2, <2>2
    <3>2. Owes(Tail(p), i - 1) = Owes(p, (i - 1) + 1)
      <4>1. i - 1 \in Nat \ {0} /\ p \in Seq(A) /\ p # << >> BY Zenon, <1>2, <3>1
      <4> QED BY Zenon, <4>1, Shift
    <3>3. Owes(Tail(p), i) = Owes(p, i + 1)
      <4>1. i \in Nat \ {0} /\ p \in Seq(A) /\ p # << >> BY Zenon, <1>2, <3>1
      <4> QED BY Zenon, <4>1, Shift
    <3>4. StepOk(r[i - 1], Owes(r, i - 1), Owes(r, (i - 1) + 1)) BY Zenon, <3>1 DEF Leads
    <3> QED BY Zenon, <1>2, <3>1, <3>2, <3>3, <3>4
  <2> QED BY Zenon, <2>1, <2>2
<1> QED BY Zenon, <1>2, <1>5, <1>6 DEF Leads, p

(* The locks a path leads with are locks. *)
LEMMA LeadsLocks == ASSUME NEW p, NEW A, NEW H, Leads(p, A, H) PROVE H \subseteq LockNames /\ p \in Seq(A)
BY Zenon, OwesLocks DEF Leads

(* Each kind of step before a path that leads on. *)
LEMMA LeadAcq ==
  ASSUME NEW A, NEW r, NEW K, NEW l \in LockNames, acq(l) \in A, Leads(r, A, K \cup {l}),
         l \notin K, After(K, l)
  PROVE  Leads(<<acq(l)>> \o r, A, K)
<1>1. K \subseteq LockNames BY Zenon, LeadsLocks
<1>2. StepOk(acq(l), K, K \cup {l}) BY Zenon, StepFacts DEF StepOk
<1>3. \A m \in LockNames : m \in K <=> Gives(acq(l), m) \/ (acq(l) # acq(m) /\ m \in K \cup {l})
  BY Zenon, StepFacts DEF Gives
<1> QED BY Zenon, <1>1, <1>2, <1>3, PutBefore

LEMMA LeadRel ==
  ASSUME NEW A, NEW r, NEW K, NEW l \in LockNames, rel(l) \in A, Leads(r, A, K), l \notin K
  PROVE  Leads(<<rel(l)>> \o r, A, K \cup {l})
<1>1. K \cup {l} \subseteq LockNames BY Zenon, LeadsLocks
<1>2. StepOk(rel(l), K \cup {l}, K) BY Zenon, StepFacts DEF StepOk
<1>3. \A m \in LockNames : m \in K \cup {l} <=> Gives(rel(l), m) \/ (rel(l) # acq(m) /\ m \in K)
  BY Zenon, StepFacts DEF Gives
<1> QED BY Zenon, <1>1, <1>2, <1>3, PutBefore

LEMMA LeadSwitch ==
  ASSUME NEW A, NEW r, NEW s \in {sched, swtch}, s \in A, Leads(r, A, {"ptable"})
  PROVE  Leads(<<s>> \o r, A, {"ptable"})
<1>1. {"ptable"} \subseteq LockNames BY Zenon, LeadsLocks
<1>2. StepOk(s, {"ptable"}, {"ptable"}) BY Zenon, StepFacts DEF StepOk
<1>3. \A m \in LockNames : m \in {"ptable"} <=> Gives(s, m) \/ (s # acq(m) /\ m \in {"ptable"})
  BY Zenon, StepFacts DEF Gives
<1> QED BY Zenon, <1>1, <1>2, <1>3, PutBefore

LEMMA LeadEnd ==
  ASSUME NEW A, NEW r, NEW s \in {scan, zombie}, s \in A, Leads(r, A, {})
  PROVE  Leads(<<s>> \o r, A, {"ptable"})
<1>1. {"ptable"} \subseteq LockNames BY Zenon DEF LockNames, Single
<1>2. StepOk(s, {"ptable"}, {}) BY Zenon, StepFacts DEF StepOk
<1>3. \A m \in LockNames : m \in {"ptable"} <=> Gives(s, m) \/ (s # acq(m) /\ m \in {})
  BY Zenon, StepFacts DEF Gives
<1> QED BY <1>1, <1>2, <1>3, PutBefore

LEMMA LeadOn ==
  ASSUME NEW A, NEW r, NEW s \in {sti, iret, closing}, s \in A, Leads(r, A, {})
  PROVE  Leads(<<s>> \o r, A, {})
<1>1. {} \subseteq LockNames BY Zenon
<1>2. StepOk(s, {}, {}) BY Zenon, StepFacts DEF StepOk
<1>3. \A m \in LockNames : m \in {} <=> Gives(s, m) \/ (s # acq(m) /\ m \in {})
  BY Zenon, StepFacts DEF Gives
<1> QED BY <1>1, <1>2, <1>3, PutBefore

(* Putting sequences together. *)
LEMMA ConcatEmpty ==
  ASSUME NEW A, NEW p \in Seq(A), NEW q \in Seq(A)
  PROVE  p \o << >> = p /\ << >> \o p = p /\ p \o q \in Seq(A)
OBVIOUS

LEMMA Two == ASSUME NEW A, NEW a \in A, NEW b \in A PROVE <<a, b>> = <<a>> \o <<b>>
<1> DEFINE p == <<a>>
           q == <<b>>
           r == <<a, b>>
<1>1. p \in Seq(A) /\ q \in Seq(A) /\ r \in Seq(A) OBVIOUS
<1>2. Len(r) = 2 /\ Len(p) = 1 /\ Len(q) = 1 OBVIOUS
<1>3. r[1] = a /\ r[2] = b /\ p[1] = a /\ q[1] = b OBVIOUS
<1> HIDE DEF p, q, r
<1>4. /\ p \o q \in Seq(A) /\ Len(p \o q) = Len(p) + Len(q)
      /\ \A i \in 1 .. Len(p) + Len(q) : (p \o q)[i] = IF i <= Len(p) THEN p[i] ELSE q[i - Len(p)]
  BY Zenon, <1>1, ConcatFacts
<1>5. Len(p \o q) = 2 /\ (p \o q)[1] = p[1] /\ (p \o q)[2] = q[1] BY <1>2, <1>4
<1>6. \A i \in 1 .. Len(r) : r[i] = (p \o q)[i]
  <2>1. \A i \in 1 .. 2 : i = 1 \/ i = 2 OBVIOUS
  <2> QED BY Zenon, <2>1, <1>2, <1>3, <1>5
<1>7. r = p \o q BY Zenon, <1>1, <1>2, <1>4, <1>5, <1>6, SameSeq
<1> QED BY Zenon, <1>7 DEF p, q, r

(* A path given by enumeration, one step at a time. *)
LEMMA FlatTwo ==
  ASSUME NEW A, NEW r \in Seq(A), NEW a \in A, NEW b \in A
  PROVE  <<a, b>> \o r = <<a>> \o (<<b>> \o r)
<1>1. <<a>> \in Seq(A) /\ <<b>> \in Seq(A) /\ <<a, b>> \in Seq(A) OBVIOUS
<1>2. <<a, b>> = <<a>> \o <<b>> BY Zenon, Two
<1> QED BY <1>1, <1>2

LEMMA FlatThree ==
  ASSUME NEW A, NEW r \in Seq(A), NEW a \in A, NEW b \in A, NEW c \in A
  PROVE  <<a, b, c>> \in Seq(A) /\ <<a, b, c>> \o r = <<a>> \o (<<b>> \o (<<c>> \o r))
<1>1. <<a>> \in Seq(A) /\ <<b, c>> \in Seq(A) /\ <<a, b, c>> \in Seq(A) OBVIOUS
<1>2. <<a, b, c>> = <<a>> \o <<b, c>> OBVIOUS
<1>3. <<a, b, c>> \o r = <<a>> \o (<<b, c>> \o r) BY <1>1, <1>2
<1>4. <<b, c>> \o r = <<b>> \o (<<c>> \o r) BY Zenon, FlatTwo
<1> QED BY Zenon, <1>1, <1>3, <1>4

(* A short critical section before a path. *)
LEMMA LeadSection ==
  ASSUME NEW A, LockSteps \subseteq A, NEW r, NEW K, Leads(r, A, K), NEW l \in LockNames,
         l \notin K, After(K, l)
  PROVE  Leads(Section(l) \o r, A, K)
<1>1. acq(l) \in A /\ rel(l) \in A BY Zenon DEF LockSteps
<1>2. r \in Seq(A) BY Zenon, LeadsLocks
<1>3. Leads(<<rel(l)>> \o r, A, K \cup {l}) BY Zenon, <1>1, LeadRel
<1>4. Leads(<<acq(l)>> \o (<<rel(l)>> \o r), A, K) BY Zenon, <1>1, <1>3, LeadAcq
<1>5. Section(l) \o r = <<acq(l)>> \o (<<rel(l)>> \o r) BY Zenon, <1>1, <1>2, FlatTwo DEF Section
<1> QED BY Zenon, <1>4, <1>5

LEMMA SectionSteps == ASSUME NEW A, LockSteps \subseteq A, NEW l \in LockNames PROVE Section(l) \in Seq(A)
<1>1. acq(l) \in A /\ rel(l) \in A BY Zenon DEF LockSteps
<1> QED BY <1>1 DEF Section

(* The nesting of two locks. *)
LEMMA AfterFacts ==
  /\ \A l : After({}, l)
  /\ \A l \in Waited : After({l}, "ptable")
  /\ \A l \in {"cons", "kmem"} : After({"ptable"}, l)
BY Zenon DEF After, Order

(* sleep(lk), before a path that has lk. *)
LEMMA LeadSleep ==
  ASSUME NEW A, IrqSteps \subseteq A, NEW r, NEW lk \in Waited, Leads(r, A, {lk})
  PROVE  Leads(sleep(lk) \o r, A, {lk}) /\ sleep(lk) \in Seq(A)
<1>1. lk \in LockNames /\ "ptable" \in LockNames /\ lk # "ptable"
  BY CpuAssumption DEF LockNames, Single, Waited
<1>2. /\ acq(lk) \in A /\ rel(lk) \in A /\ acq("ptable") \in A /\ rel("ptable") \in A /\ sched \in A
  BY Zenon, <1>1 DEF IrqSteps, LockSteps
<1>3. r \in Seq(A) BY Zenon, LeadsLocks
<1> DEFINE r1 == <<acq(lk)>> \o r
           r2 == <<rel("ptable")>> \o r1
           r3 == <<sched>> \o r2
           r4 == <<rel(lk)>> \o r3
           r5 == <<acq("ptable")>> \o r4
<1>4. sleep(lk) \o r = r5 /\ sleep(lk) \in Seq(A)
  <2> DEFINE a == acq("ptable")
             b == rel(lk)
             d == rel("ptable")
             e == acq(lk)
             u == <<a, b>>
             v == <<sched, d, e>>
  <2>1. a \in A /\ b \in A /\ sched \in A /\ d \in A /\ e \in A BY Zenon, <1>2
  <2> HIDE DEF a, b, d, e
  <2>2. <<a, b, sched, d, e>> \in Seq(A) BY <2>1
  <2>3. <<a, b, sched, d, e>> = u \o v BY <2>1
  <2>4. u \in Seq(A) /\ v \in Seq(A) /\ v \o r \in Seq(A) BY <2>1, <1>3
  <2>5. v \o r = <<sched>> \o (<<d>> \o (<<e>> \o r))
    <3> DEFINE w == <<d, e>>
               g == <<sched>>
    <3>1. w \in Seq(A) /\ g \in Seq(A) BY <2>1
    <3>2. v = g \o w BY <2>1
    <3>3. w \o r = <<d>> \o (<<e>> \o r)
      <4>1. d \in A /\ e \in A BY Zenon, <2>1
      <4> QED BY Zenon, <1>3, <4>1, FlatTwo
    <3>4. (g \o w) \o r = g \o (w \o r)
      <4> HIDE DEF g, w
      <4> QED BY <1>3, <3>1
    <3> QED BY Zenon, <3>2, <3>3, <3>4
  <2>6. u \o (v \o r) = <<a>> \o (<<b>> \o (v \o r))
    <3> DEFINE k == v \o r
    <3>1. k \in Seq(A) /\ a \in A /\ b \in A BY Zenon, <2>1, <2>4
    <3> HIDE DEF k
    <3>2. u \o k = <<a>> \o (<<b>> \o k) BY Zenon, <3>1, FlatTwo
    <3> QED BY Zenon, <3>2 DEF k
  <2>7. (u \o v) \o r = u \o (v \o r)
    <3> HIDE DEF u, v
    <3> QED BY <1>3, <2>4
  <2> QED BY Zenon, <1>1, <2>2, <2>3, <2>5, <2>6, <2>7 DEF a, b, d, e, sleep
<1>5. {} \cup {lk} = {lk} /\ {} \cup {"ptable"} = {"ptable"} /\ lk \notin {} /\ "ptable" \notin {} /\ lk \notin {"ptable"}
      /\ {"ptable"} \cup {lk} = {lk} \cup {"ptable"} /\ "ptable" \notin {lk}
  BY Zenon, <1>1
<1>6. Leads(r1, A, {}) BY Zenon, <1>1, <1>2, <1>5, LeadAcq, AfterFacts
<1> HIDE DEF r1
<1>7. Leads(r2, A, {} \cup {"ptable"}) BY Zenon, <1>1, <1>2, <1>5, <1>6, LeadRel
<1> HIDE DEF r2
<1>8. Leads(r3, A, {"ptable"})
  <2>1. Leads(r2, A, {"ptable"}) BY Zenon, <1>5, <1>7
  <2> QED BY Zenon, <1>2, <2>1, LeadSwitch
<1> HIDE DEF r3
<1>9. Leads(r4, A, {"ptable"} \cup {lk}) BY Zenon, <1>1, <1>2, <1>5, <1>8, LeadRel
<1> HIDE DEF r4
<1>10. Leads(r5, A, {lk}) BY Zenon, <1>1, <1>2, <1>5, <1>9, LeadAcq, AfterFacts
<1> HIDE DEF r5
<1> QED BY Zenon, <1>4, <1>10

(* A body between acquire and release of lock l, before a path without locks. *)
LEMMA LeadWrap ==
  ASSUME NEW A, LockSteps \subseteq A, NEW b \in Seq(A), NEW r, NEW l \in LockNames,
         Leads(r, A, {}), \A k : Leads(k, A, {l}) => Leads(b \o k, A, {l})
  PROVE  Leads(Under(l, b) \o r, A, {}) /\ Under(l, b) \in Seq(A)
<1>1. acq(l) \in A /\ rel(l) \in A BY Zenon DEF LockSteps
<1>2. r \in Seq(A) BY Zenon, LeadsLocks
<1> DEFINE p == <<acq(l)>>
           q == <<rel(l)>>
<1>3. p \in Seq(A) /\ q \in Seq(A) BY <1>1
<1>4. {} \cup {l} = {l} /\ l \notin {} BY Zenon
<1>5. Leads(q \o r, A, {} \cup {l}) BY Zenon, <1>1, <1>4, LeadRel
<1>6. Leads(b \o (q \o r), A, {l}) BY Zenon, <1>4, <1>5
<1>7. Leads(p \o (b \o (q \o r)), A, {}) BY Zenon, <1>1, <1>4, <1>6, LeadAcq, AfterFacts
<1> HIDE DEF p, q
<1>8. p \o b \in Seq(A) /\ q \o r \in Seq(A) /\ (p \o b) \o q \in Seq(A) BY Zenon, <1>2, <1>3, ConcatEmpty
<1>9. ((p \o b) \o q) \o r = (p \o b) \o (q \o r)
  <2> DEFINE pb == p \o b
  <2>1. pb \in Seq(A) BY Zenon, <1>8
  <2> HIDE DEF pb
  <2>2. (pb \o q) \o r = pb \o (q \o r) BY <1>2, <1>3, <2>1
  <2> QED BY Zenon, <2>2 DEF pb
<1>10. (p \o b) \o (q \o r) = p \o (b \o (q \o r))
  <2> DEFINE qr == q \o r
  <2>1. qr \in Seq(A) BY Zenon, <1>8
  <2> HIDE DEF qr
  <2>2. (p \o b) \o qr = p \o (b \o qr) BY <1>3, <2>1
  <2> QED BY Zenon, <2>2 DEF qr
<1> QED BY Zenon, <1>7, <1>8, <1>9, <1>10 DEF p, q, Under

(* Four pieces, the way the model's paths are put together. *)
LEMMA LeadFour ==
  ASSUME NEW A, NEW H, NEW p \in Seq(A), NEW q \in Seq(A), NEW r \in Seq(A), NEW t \in Seq(A),
         Leads(p \o (q \o (r \o t)), A, H)
  PROVE  Leads(p \o q \o r \o t, A, H)
<1> DEFINE pq == p \o q
           rt == r \o t
<1>1. pq \in Seq(A) /\ rt \in Seq(A) OBVIOUS
<1>2. pq \o rt = p \o (q \o rt)
  <2>1. rt \in Seq(A) BY Zenon, <1>1
  <2> HIDE DEF rt
  <2>2. (p \o q) \o rt = p \o (q \o rt) BY <2>1
  <2> QED BY Zenon, <2>2
<1>3. (pq \o r) \o t = pq \o rt
  <2>1. (pq \o r) \o t = pq \o (r \o t)
    <3>1. pq \in Seq(A) BY Zenon, <1>1
    <3> HIDE DEF pq
    <3> QED BY <3>1
  <2> QED BY Zenon, <2>1
<1>4. p \o q \o r \o t = p \o (q \o (r \o t)) BY Zenon, <1>2, <1>3
<1> QED BY Zenon, <1>4

(* A path that leads on with nothing after it. *)
LEMMA LeadAlone ==
  ASSUME NEW A, NEW p \in Seq(A), NEW H, Leads(p \o << >>, A, H)
  PROVE  Leads(p, A, H)
BY Zenon, ConcatEmpty

(* One step alone. *)
LEMMA OneStep == ASSUME NEW A, NEW a \in A PROVE <<a>> \in Seq(A) /\ <<a>> \o << >> = <<a>>
OBVIOUS

(* A piece of a path that starts and ends with the locks H. *)
Keeps(b, A, H) == b \in Seq(A) /\ \A k : Leads(k, A, H) => Leads(b \o k, A, H)

LEMMA KeepsSection ==
  ASSUME NEW A, LockSteps \subseteq A, NEW K, NEW l \in LockNames, l \notin K, After(K, l)
  PROVE  Keeps(Section(l), A, K)
BY Zenon, LeadSection, SectionSteps DEF Keeps

LEMMA KeepsBoth ==
  ASSUME NEW A, NEW H, NEW b, NEW d, Keeps(b, A, H), Keeps(d, A, H)
  PROVE  Keeps(b \o d, A, H)
<1>1. b \in Seq(A) /\ d \in Seq(A) BY Zenon DEF Keeps
<1>2. ASSUME NEW k, Leads(k, A, H) PROVE Leads((b \o d) \o k, A, H)
  <2>1. k \in Seq(A) BY Zenon, <1>2, LeadsLocks
  <2>2. (b \o d) \o k = b \o (d \o k) BY <1>1, <2>1
  <2>3. Leads(b \o (d \o k), A, H) BY Zenon, <1>2 DEF Keeps
  <2> QED BY Zenon, <2>2, <2>3
<1>3. b \o d \in Seq(A) BY Zenon, <1>1, ConcatEmpty
<1> QED BY Zenon, <1>2, <1>3 DEF Keeps

(* sleep comes back with the lock it was called with, and wakeup leaves it. *)
LEMMA KeepsSleep ==
  ASSUME NEW A, IrqSteps \subseteq A, NEW l \in Waited
  PROVE  Keeps(sleep(l), A, {l}) /\ Keeps(wakeup, A, {l}) /\ l \in LockNames
<1>1. l \in LockNames /\ "ptable" \in LockNames /\ "ptable" # l BY CpuAssumption DEF LockNames, Single, Waited
<1>2. LockSteps \subseteq A /\ rel(l) \in A BY Zenon, <1>1 DEF IrqSteps, LockSteps
<1>3. sleep(l) \in Seq(A)
  <2>1. {} \cup {l} = {l} /\ l \notin {} BY Zenon
  <2>2. Leads(<<rel(l)>> \o << >>, A, {} \cup {l}) BY Zenon, <1>1, <1>2, <2>1, LeadRel, EmptyLeads
  <2> QED BY Zenon, <2>1, <2>2, LeadSleep
<1>4. Keeps(sleep(l), A, {l}) BY Zenon, <1>3, LeadSleep DEF Keeps
<1>5. Keeps(wakeup, A, {l}) BY Zenon, <1>1, <1>2, KeepsSection, AfterFacts DEF wakeup
<1> QED BY Zenon, <1>1, <1>4, <1>5

(* Under a lock. *)
LEMMA KeepsUnder ==
  ASSUME NEW A, LockSteps \subseteq A, NEW l \in LockNames, NEW b, Keeps(b, A, {l})
  PROVE  Keeps(Under(l, b), A, {})
BY Zenon, EmptyLeads, LeadWrap DEF Keeps

LEMMA KeepsWakeup ==
  ASSUME NEW A, LockSteps \subseteq A, NEW l \in Waited
  PROVE  Keeps(Under(l, wakeup), A, {})
<1>1. l \in LockNames /\ "ptable" \in LockNames /\ "ptable" # l BY CpuAssumption DEF LockNames, Single, Waited
<1>2. Keeps(wakeup, A, {l}) BY Zenon, <1>1, KeepsSection, AfterFacts DEF wakeup
<1> QED BY Zenon, <1>1, <1>2, KeepsUnder

(* A whole path. *)
LEMMA KeepsAlone == ASSUME NEW A, NEW p, Keeps(p, A, {}) PROVE Leads(p, A, {})
BY Zenon, EmptyLeads, LeadAlone DEF Keeps

(* wait gives up ptable.lock in sleep, which does not take it again itself. *)
LEMMA WaitKeeps ==
  ASSUME NEW A, IrqSteps \subseteq A
  PROVE  Keeps(wait, A, {})
<1>1. "kmem" \in LockNames /\ "ptable" \in LockNames /\ "kmem" \notin {"ptable"} BY DEF LockNames, Single
<1>2. LockSteps \subseteq A /\ sched \in A BY Zenon DEF IrqSteps
<1>3. Keeps(kalloc, A, {"ptable"}) BY Zenon, <1>1, <1>2, KeepsSection, AfterFacts DEF kalloc
<1>4. Keeps(sleep("ptable"), A, {"ptable"})
  <2>1. sleep("ptable") = <<sched>> BY Zenon DEF sleep
  <2>2. <<sched>> \in Seq(A) BY Zenon, <1>2, OneStep
  <2>3. \A k : Leads(k, A, {"ptable"}) => Leads(<<sched>> \o k, A, {"ptable"}) BY Zenon, <1>2, LeadSwitch
  <2> QED BY Zenon, <2>1, <2>2, <2>3 DEF Keeps
<1> QED BY Zenon, <1>1, <1>2, <1>3, <1>4, KeepsBoth, KeepsUnder DEF wait

(* Printing once without locks, and while ptable.lock is held. *)
LEMMA LeadCprintf ==
  ASSUME NEW A, LockSteps \subseteq A, NEW r, NEW K \in {{}, {"ptable"}}, Leads(r, A, K)
  PROVE  Leads(cprintf \o r, A, K) /\ cprintf \in Seq(A)
<1>1. "cons" \in LockNames /\ "cons" \notin {} /\ "cons" \notin {"ptable"} BY DEF LockNames, Single
<1>2. "cons" \notin K /\ After(K, "cons") BY Zenon, <1>1, AfterFacts
<1> QED BY Zenon, <1>1, <1>2, LeadSection, SectionSteps DEF cprintf

LEMMA YieldLeads ==
  ASSUME NEW A, IrqSteps \subseteq A
  PROVE  Leads(yield, A, {})
<1>1. /\ LockSteps \subseteq A /\ acq("ptable") \in A /\ rel("ptable") \in A /\ sched \in A
      /\ "ptable" \in LockNames
  BY Zenon DEF IrqSteps, LockSteps, LockNames, Single
<1> DEFINE q == <<acq("ptable")>>
           k == <<rel("ptable")>>
           t == <<sched, rel("ptable")>>
<1>2. q \in Seq(A) /\ k \in Seq(A) /\ t \in Seq(A) BY <1>1
<1>3. {} \cup {"ptable"} = {"ptable"} /\ "ptable" \notin {} BY Zenon
<1>4. Leads(<<rel("ptable")>> \o << >>, A, {} \cup {"ptable"}) BY Zenon, <1>1, <1>3, LeadRel, EmptyLeads
<1>5. Leads(k, A, {"ptable"}) BY Zenon, <1>2, <1>3, <1>4, LeadAlone
<1>6. t = <<sched>> \o k BY Zenon, <1>1, Two
<1>7. Leads(t, A, {"ptable"}) BY Zenon, <1>1, <1>5, <1>6, LeadSwitch
<1> HIDE DEF t, k
<1>8. Leads(cprintf \o t, A, {"ptable"}) /\ cprintf \in Seq(A) BY Zenon, <1>1, <1>7, LeadCprintf
<1>9. Leads(q \o (cprintf \o t), A, {})
  <2> DEFINE m == cprintf \o t
  <2>1. Leads(m, A, {} \cup {"ptable"}) BY Zenon, <1>3, <1>8
  <2> HIDE DEF m
  <2>2. Leads(q \o m, A, {}) BY Zenon, <1>1, <1>3, <2>1, LeadAcq, AfterFacts
  <2> QED BY Zenon, <2>2 DEF m
<1> HIDE DEF q
<1>10. Leads(cprintf \o (q \o (cprintf \o t)), A, {}) BY Zenon, <1>1, <1>9, LeadCprintf
<1>11. Leads(cprintf \o q \o cprintf \o t, A, {}) BY Zenon, <1>2, <1>8, <1>10, LeadFour
<1> QED BY Zenon, <1>11 DEF yield, q, t

LEMMA ForkretLeads ==
  ASSUME NEW A, LockSteps \subseteq A, iret \in A
  PROVE  Leads(forkret, A, {"ptable"})
<1>1. rel("ptable") \in A /\ "ptable" \in LockNames BY Zenon DEF LockSteps, LockNames, Single
<1> DEFINE k == <<iret>>
<1>2. k \in Seq(A) BY OneStep
<1>3. {} \cup {"ptable"} = {"ptable"} /\ "ptable" \notin {} BY Zenon
<1>4. Leads(<<iret>> \o << >>, A, {}) BY Zenon, LeadOn, EmptyLeads
<1>5. Leads(k, A, {}) BY Zenon, <1>2, <1>4, LeadAlone
<1>6. Leads(<<rel("ptable")>> \o k, A, {} \cup {"ptable"}) BY Zenon, <1>1, <1>3, <1>5, LeadRel
<1>7. forkret = <<rel("ptable")>> \o k BY Zenon, <1>1, Two DEF forkret
<1> QED BY Zenon, <1>3, <1>6, <1>7

(* exit, and the end of it, start without locks. *)
LEMMA ExitLeads ==
  ASSUME NEW A, IrqSteps \subseteq A
  PROVE  Leads(exit, A, {}) /\ Leads(die, A, {})
<1>1. LockSteps \subseteq A /\ acq("ptable") \in A /\ zombie \in A /\ closing \in A /\ "ptable" \in LockNames
  BY Zenon DEF IrqSteps, LockSteps, LockNames, Single
<1>2. Leads(exit, A, {})
  <2>1. Leads(<<closing>> \o << >>, A, {}) BY Zenon, <1>1, LeadOn, EmptyLeads
  <2> QED BY Zenon, <1>1, <2>1, OneStep DEF exit
<1>3. Leads(die, A, {})
  <2> DEFINE k == <<zombie>>
  <2>1. Leads(<<zombie>> \o << >>, A, {"ptable"}) BY Zenon, <1>1, LeadEnd, EmptyLeads
  <2>2. Leads(k, A, {"ptable"}) BY Zenon, <1>1, <2>1, OneStep
  <2>3. {} \cup {"ptable"} = {"ptable"} /\ "ptable" \notin {} BY Zenon
  <2>4. Leads(<<acq("ptable")>> \o k, A, {}) BY Zenon, <1>1, <2>2, <2>3, LeadAcq, AfterFacts
  <2>5. die = <<acq("ptable")>> \o k BY Zenon, <1>1, Two DEF die
  <2> QED BY Zenon, <2>4, <2>5
<1> QED BY Zenon, <1>2, <1>3

LEMMA SchedulerLeads ==
  /\ Leads(SchedStart, SchedulerSteps, {})
  /\ Leads(SchedFound, SchedulerSteps, {"ptable"})
  /\ Leads(SchedNone, SchedulerSteps, {"ptable"})
<1> DEFINE A == SchedulerSteps
<1>1. /\ LockSteps \subseteq A /\ acq("ptable") \in A /\ rel("ptable") \in A
      /\ sti \in A /\ scan \in A /\ swtch \in A /\ "ptable" \in LockNames
  BY Zenon DEF SchedulerSteps, LockSteps, LockNames, Single
<1> HIDE DEF A
<1>2. {} \cup {"ptable"} = {"ptable"} /\ "ptable" \notin {} BY Zenon
<1>3. Leads(SchedNone, A, {"ptable"})
  <2>1. Leads(<<rel("ptable")>> \o << >>, A, {} \cup {"ptable"}) BY Zenon, <1>1, <1>2, LeadRel, EmptyLeads
  <2>2. <<rel("ptable")>> \in Seq(A) BY Zenon, <1>1, OneStep
  <2> QED BY Zenon, <1>2, <2>1, <2>2, LeadAlone DEF SchedNone
<1> DEFINE k == <<scan>>
<1>4. k \in Seq(A) BY Zenon, <1>1, OneStep
<1>5. Leads(k \o << >>, A, {"ptable"}) BY Zenon, <1>1, LeadEnd, EmptyLeads
<1>6. Leads(k, A, {"ptable"}) BY Zenon, <1>4, <1>5, LeadAlone
<1>7. Leads(SchedStart, A, {})
  <2>1. Leads(<<acq("ptable")>> \o (k \o << >>), A, {}) BY Zenon, <1>1, <1>2, <1>5, LeadAcq, AfterFacts
  <2> DEFINE m == <<acq("ptable")>> \o (k \o << >>)
  <2>2. Leads(m, A, {}) BY Zenon, <2>1
  <2>3. Leads(<<sti>> \o m, A, {}) BY Zenon, <1>1, <2>2, LeadOn
  <2>4. SchedStart \o << >> = <<sti>> \o m /\ SchedStart \in Seq(A)
    <3>1. << >> \in Seq(A) OBVIOUS
    <3> QED BY <1>1, <3>1, FlatThree DEF SchedStart
  <2> QED BY Zenon, <2>3, <2>4, LeadAlone
<1>8. Leads(SchedFound, A, {"ptable"})
  <2> DEFINE q == <<swtch>>
             m == cprintf \o k
  <2>1. q \in Seq(A) BY Zenon, <1>1, OneStep
  <2> HIDE DEF k
  <2>2. Leads(m, A, {"ptable"}) /\ cprintf \in Seq(A) BY Zenon, <1>1, <1>6, LeadCprintf
  <2> HIDE DEF m
  <2>3. Leads(q \o m, A, {"ptable"}) BY Zenon, <1>1, <2>2, LeadSwitch
  <2> HIDE DEF q
  <2>4. Leads(cprintf \o (q \o m), A, {"ptable"}) BY Zenon, <1>1, <2>3, LeadCprintf
  <2>5. Leads(cprintf \o q \o cprintf \o k, A, {"ptable"}) BY Zenon, <1>4, <2>1, <2>2, <2>4, LeadFour DEF m
  <2> QED BY Zenon, <2>5 DEF SchedFound, q, k
<1> QED BY Zenon, <1>3, <1>7, <1>8 DEF A

(* What closing a file is made of starts and ends without locks. *)
LEMMA FileCallsKeep ==
  ASSUME NEW A, IrqSteps \subseteq A, NEW p \in FileCalls
  PROVE  Keeps(p, A, {})
<1>1. LockSteps \subseteq A BY Zenon DEF IrqSteps
<1>2. ASSUME NEW l \in LockNames PROVE Keeps(Section(l), A, {})
  <2>1. l \notin {} BY Zenon
  <2> QED BY Zenon, <1>1, <2>1, KeepsSection, AfterFacts
<1>3. ASSUME NEW l \in Waited PROVE Keeps(Under(l, sleep(l)), A, {}) /\ Keeps(Under(l, wakeup), A, {})
  BY Zenon, <1>1, KeepsSleep, KeepsUnder
<1>4. /\ "kmem" \in LockNames /\ "bcache" \in LockNames /\ "icache" \in LockNames /\ "ftable" \in LockNames
      /\ "log" \in LockNames /\ "log" \in Waited /\ "idelock" \in Waited /\ Pipes \subseteq Waited
      /\ SleepLocks \subseteq Waited /\ SleepLocks \subseteq LockNames
  BY Zenon DEF LockNames, Single, Waited
<1>5. Keeps(kalloc, A, {}) /\ Keeps(bget, A, {}) /\ Keeps(iget, A, {}) /\ Keeps(filealloc, A, {}) /\ Keeps(log_write, A, {})
  BY Zenon, <1>2, <1>4 DEF kalloc, bget, iget, filealloc, log_write
<1>6. Keeps(iderw, A, {}) /\ Keeps(begin_op, A, {}) /\ Keeps(end_op, A, {})
  BY Zenon, <1>3, <1>4 DEF iderw, begin_op, end_op
<1>7. \A l \in SleepLocks : Keeps(holdingsleep(l), A, {}) /\ Keeps(acquiresleep(l), A, {}) /\ Keeps(releasesleep(l), A, {})
  BY Zenon, <1>2, <1>3, <1>4 DEF holdingsleep, acquiresleep, releasesleep
<1>8. \A q \in Pipes : Keeps(pipeclose(q), A, {}) BY Zenon, <1>3, <1>4 DEF pipeclose
<1>9. CASE p \in {kalloc, bget, iget, filealloc, log_write, iderw, begin_op, end_op} BY Zenon, <1>5, <1>6, <1>9
<1>10. CASE p \in UNION {{holdingsleep(l), acquiresleep(l), releasesleep(l)} : l \in SleepLocks}
  <2>1. PICK l \in SleepLocks : p \in {holdingsleep(l), acquiresleep(l), releasesleep(l)} BY Zenon, <1>10
  <2> QED BY Zenon, <1>7, <2>1
<1>11. CASE p \in {pipeclose(q) : q \in Pipes}
  <2>1. PICK q \in Pipes : p = pipeclose(q) BY <1>11
  <2> QED BY Zenon, <1>8, <2>1
<1> QED BY Zenon, <1>9, <1>10, <1>11 DEF FileCalls

(* Every system call's path starts and ends without locks. *)
LEMMA CallsLead == ASSUME NEW p \in Calls PROVE Leads(p, ThreadSteps, {})
<1> DEFINE A == ThreadSteps
<1>1. LockSteps \subseteq A /\ IrqSteps \subseteq A BY Zenon DEF ThreadSteps, IrqSteps
<1> HIDE DEF A
<1>2. ASSUME NEW l \in LockNames PROVE Leads(Section(l), A, {})
  <2>1. l \notin {} BY Zenon
  <2> QED BY Zenon, <1>1, <2>1, KeepsSection, KeepsAlone, AfterFacts
<1>3. "tickslock" \in LockNames /\ "cons" \in LockNames /\ "ptable" \in LockNames
      /\ "tickslock" \in Waited /\ "cons" \in Waited /\ Pipes \subseteq Waited
  BY Zenon DEF LockNames, Single, Waited
<1>4. Leads(sys_uptime, A, {}) /\ Leads(cprintf, A, {}) /\ Leads(allocproc, A, {})
  BY Zenon, <1>2, <1>3 DEF sys_uptime, cprintf, allocproc
<1>5. \A l \in Waited : Leads(Under(l, sleep(l)), A, {}) BY Zenon, <1>1, KeepsSleep, KeepsUnder, KeepsAlone
<1>6. Leads(sys_sleep, A, {}) /\ Leads(consoleread, A, {}) BY Zenon, <1>3, <1>5 DEF sys_sleep, consoleread
<1>7. ASSUME NEW q \in Pipes PROVE Leads(pipewrite(q), A, {}) /\ Leads(piperead(q), A, {})
  <2>1. Keeps(sleep(q), A, {q}) /\ Keeps(wakeup, A, {q}) /\ q \in LockNames BY Zenon, <1>1, <1>3, KeepsSleep
  <2>2. Keeps(sleep(q) \o wakeup, A, {q}) /\ Keeps(wakeup \o sleep(q), A, {q}) BY Zenon, <2>1, KeepsBoth
  <2>3. Keeps((wakeup \o sleep(q)) \o wakeup, A, {q}) BY Zenon, <2>1, <2>2, KeepsBoth
  <2> QED BY Zenon, <1>1, <2>1, <2>2, <2>3, KeepsUnder, KeepsAlone DEF pipewrite, piperead
<1>8. Leads(wait, A, {}) /\ Leads(exit, A, {}) BY Zenon, <1>1, WaitKeeps, KeepsAlone, ExitLeads
<1>9. p \in FileCalls => Leads(p, A, {}) BY Zenon, <1>1, FileCallsKeep, KeepsAlone
<1> QED BY Zenon, <1>4, <1>6, <1>7, <1>8, <1>9 DEF Calls, A

(* What trap() does when the timer interrupts a process. *)
LEMMA YieldingLeads == Leads(Yielding, IrqSteps, {})
<1>1. LockSteps \subseteq IrqSteps BY Zenon DEF IrqSteps
<1>2. Leads(yield, IrqSteps, {}) BY Zenon, YieldLeads
<1> QED BY Zenon, <1>1, <1>2, LeadCprintf DEF Yielding

(* A handler that interrupts a process may switch; one that interrupts the
   scheduler only takes locks.  Both start and end without locks. *)
LEMMA HandlersLead ==
  ASSUME NEW c, NEW inProcess \in BOOLEAN, NEW h \in Handlers(c, inProcess)
  PROVE  Leads(h, IF inProcess THEN IrqSteps ELSE LockSteps, {})
<1> DEFINE A == IF inProcess THEN IrqSteps ELSE LockSteps
           own == IF c = BootCpu THEN tick ELSE << >>
           rest == IF inProcess THEN Yielding ELSE << >>
<1>1. LockSteps \subseteq A /\ (inProcess => IrqSteps \subseteq A) BY Zenon DEF IrqSteps
<1> HIDE DEF A
<1>2. Leads(<< >>, A, {}) /\ << >> \in Seq(A) BY Zenon, EmptyLeads, LeadsLocks
<1>3. \A l \in Waited : Leads(Under(l, wakeup), A, {}) BY Zenon, <1>1, KeepsWakeup, KeepsAlone
<1>12. "tickslock" \in Waited /\ "cons" \in Waited /\ "idelock" \in Waited BY Zenon DEF Waited
<1>4. Leads(consoleintr, A, {}) /\ Leads(ideintr, A, {}) BY Zenon, <1>3, <1>12 DEF consoleintr, ideintr
<1>5. Leads(cprintf, A, {})
  <2>1. Leads(cprintf \o << >>, A, {}) /\ cprintf \in Seq(A) BY Zenon, <1>1, <1>2, LeadCprintf
  <2> QED BY Zenon, <2>1, LeadAlone
<1>6. Leads(procdump, A, {})
  <2>1. Leads(cprintf \o cprintf, A, {}) BY Zenon, <1>1, <1>5, LeadCprintf
  <2> QED BY Zenon, <2>1 DEF procdump, cprintf
<1>7. Leads(rest, A, {})
  <2>1. CASE inProcess
    <3>1. A = IrqSteps BY Zenon, <2>1 DEF A
    <3> QED BY Zenon, <2>1, <3>1, YieldingLeads
  <2>2. CASE ~inProcess BY Zenon, <1>2, <2>2
  <2> QED BY Zenon, <2>1, <2>2
<1>8. rest \in Seq(A) BY Zenon, <1>7, LeadsLocks
<1> HIDE DEF rest
<1>9. Leads(own \o rest, A, {})
  <2>1. CASE c = BootCpu
    <3>1. Leads(tick \o rest, A, {}) BY Zenon, <1>1, <1>7, <1>12, KeepsWakeup DEF tick, Keeps
    <3> QED BY Zenon, <2>1, <3>1
  <2>2. CASE c # BootCpu
    <3>1. << >> \o rest = rest BY Zenon, <1>8, ConcatEmpty
    <3> QED BY Zenon, <1>7, <2>2, <3>1
  <2> QED BY Zenon, <2>1, <2>2
<1>10. Leads(Timer(c, inProcess), A, {}) BY Zenon, <1>9 DEF Timer, rest
<1>11. h = Timer(c, inProcess) \/ h \in {consoleintr, procdump, ideintr, fault} BY Zenon DEF Handlers
<1> QED BY Zenon, <1>4, <1>5, <1>6, <1>10, <1>11 DEF A, fault

-----------------------------------------------------------------------------
(* Steps *)

(* The steps that a context's current path is made of. *)
PathSteps(x) == IF inirq[x] THEN HandlerSteps(x) ELSE TodoSteps(x)

(* A context that keeps to the kernel's paths leads with the locks it needs. *)
LEMMA PathLeads ==
  ASSUME NEW x, OnPath(x)
  PROVE  Leads(Path(x), PathSteps(x), Needs(x))
BY Zenon DEF OnPath, Good, Path, PathSteps, Needs

(* Every alphabet is made of the model's steps. *)
LEMMA PathStepsFacts ==
  ASSUME NEW x \in Contexts
  PROVE  /\ sched \in PathSteps(x) \/ zombie \in PathSteps(x) \/ closing \in PathSteps(x) => x \in Threads
         /\ swtch \in PathSteps(x) \/ scan \in PathSteps(x) => x \notin Threads /\ ~inirq[x]
         /\ sti \in PathSteps(x) \/ iret \in PathSteps(x) => ~inirq[x]
         /\ PathSteps(x) \subseteq Steps
<1>1. sched \notin LockSteps /\ zombie \notin LockSteps /\ closing \notin LockSteps /\ swtch \notin LockSteps /\ scan \notin LockSteps /\ sti \notin LockSteps /\ iret \notin LockSteps
  BY Zenon, StepFacts DEF LockSteps
<1>2. LockSteps \cup {sched, zombie, closing, iret, sti, scan, swtch} \subseteq Steps BY Zenon DEF LockSteps, Steps
<1> QED BY Zenon, <1>1, <1>2, StepFacts DEF PathSteps, HandlerSteps, TodoSteps, SchedulerSteps, ThreadSteps, IrqSteps

(* A context that goes on by one step stays on its path; the others wait. *)
LEMMA Advanced ==
  ASSUME TypeOK, NEW x \in Contexts, OnPath(x), Path(x) # << >>, Advance(x), UNCHANGED inirq
  PROVE  /\ Path(x)' = Tail(Path(x)) /\ OnPath(x)' /\ Good(Tail(Path(x)), PathSteps(x))
         /\ todo' \in [Contexts -> Seq(Steps)] /\ irq' \in [Contexts -> Seq(Steps)]
         /\ \A y \in Contexts \ {x} : todo'[y] = todo[y] /\ irq'[y] = irq[y]
<1>1. /\ todo \in [Contexts -> Seq(Steps)] /\ irq \in [Contexts -> Seq(Steps)] /\ inirq[x] \in BOOLEAN
  BY Zenon DEF TypeOK
<1>2. Good(Tail(Path(x)), PathSteps(x)) BY Zenon, PathLeads, TailLeads
<1>3. CASE inirq[x]
  <2>1. Path(x) = irq[x] /\ irq' = [irq EXCEPT ![x] = Tail(@)] /\ todo' = todo BY Zenon, <1>3 DEF Path, Advance
  <2>2. Tail(irq[x]) \in Seq(Steps) BY <1>1, <2>1
  <2>3. irq' \in [Contexts -> Seq(Steps)] /\ irq'[x] = Tail(irq[x]) /\ \A y \in Contexts \ {x} : irq'[y] = irq[y]
    BY Zenon, <1>1, <2>1, <2>2
  <2>4. Path(x)' = Tail(Path(x)) BY Zenon, <1>3, <2>1, <2>3 DEF Path
  <2>5. OnPath(x)' BY Zenon, <1>2, <1>3, <2>1, <2>3 DEF OnPath, PathSteps, TodoSteps, HandlerSteps
  <2> QED BY Zenon, <1>1, <1>2, <2>1, <2>3, <2>4, <2>5
<1>4. CASE ~inirq[x]
  <2>1. Path(x) = todo[x] /\ todo' = [todo EXCEPT ![x] = Tail(@)] /\ irq' = irq BY Zenon, <1>4 DEF Path, Advance
  <2>2. Tail(todo[x]) \in Seq(Steps) BY <1>1, <2>1
  <2>3. todo' \in [Contexts -> Seq(Steps)] /\ todo'[x] = Tail(todo[x]) /\ \A y \in Contexts \ {x} : todo'[y] = todo[y]
    BY Zenon, <1>1, <2>1, <2>2
  <2>4. Path(x)' = Tail(Path(x)) BY Zenon, <1>4, <2>1, <2>3 DEF Path
  <2>5. OnPath(x)' BY Zenon, <1>2, <1>4, <2>1, <2>3 DEF OnPath, PathSteps, TodoSteps
  <2> QED BY Zenon, <1>1, <1>2, <2>1, <2>3, <2>4, <2>5
<1> QED BY Zenon, <1>3, <1>4

(* A step of cpu c leaves the other cpus and the contexts it does not run alone. *)
Elsewhere(c) ==
  /\ \A d \in CPUS \ {c} :
       /\ run'[d] = run[d] /\ ncli'[d] = ncli[d] /\ intena'[d] = intena[d]
       /\ IF_'[d] = IF_[d] /\ spin'[d] = spin[d] /\ HeldBy(d)' = HeldBy(d)
  /\ \A y \in Contexts \ {run[c]} :
       todo'[y] = todo[y] /\ irq'[y] = irq[y] /\ inirq'[y] = inirq[y] /\ saved'[y] = saved[y]

(* It is enough to look at the cpu that moves, and at the context it moved. *)
LEMMA OneMoves ==
  ASSUME IInv, NEW c \in CPUS, NEW x, x = run[c],
         Elsewhere(c), TypeOK', ~panic', OneCpu', OnPath(x)', NEW z, run'[c] = z, Follows(c, z)',
         \A y \in Contexts : ~Running(y)' => IF y = x THEN OffOk(y)' ELSE ~Running(y)
  PROVE  IInv'
<1>1. x \in Contexts /\ \A d \in CPUS : run[d] \in Contexts BY Zenon DEF IInv, TypeOK
<1>2. ASSUME NEW y \in Contexts \ {x}
      PROVE  Path(y)' = Path(y) /\ Needs(y)' = Needs(y) /\ OnPath(y)' /\ Fresh(y)' = Fresh(y)
  <2>1. Path(y)' = Path(y) /\ Fresh(y)' = Fresh(y) BY Zenon DEF Elsewhere, Path, Fresh
  <2>2. Needs(y)' = Needs(y) BY Zenon, <2>1 DEF Needs
  <2>3. OnPath(y) BY Zenon DEF IInv
  <2>4. OnPath(y)' BY Zenon, <2>3 DEF OnPath, Elsewhere, TodoSteps, HandlerSteps
  <2> QED BY Zenon, <2>1, <2>2, <2>4
<1>3. ASSUME NEW d \in CPUS \ {c}, NEW w, w = run[d] PROVE Follows(d, w)' /\ run'[d] = w
  <2>1. w \in Contexts \ {x} /\ run'[d] = w BY Zenon, <1>1, <1>3 DEF IInv, OneCpu, Elsewhere
  <2>2. Follows(d, w) BY Zenon, <1>3 DEF IInv
  <2>3. /\ ncli'[d] = ncli[d] /\ intena'[d] = intena[d] /\ IF_'[d] = IF_[d] /\ spin'[d] = spin[d]
        /\ HeldBy(d)' = HeldBy(d) /\ inirq'[w] = inirq[w] /\ todo'[w] = todo[w]
    BY Zenon, <2>1 DEF Elsewhere
  <2>4. Depth(d)' = Depth(d) BY Zenon, <2>3 DEF Depth
  <2>5. Path(w)' = Path(w) /\ Needs(w)' = Needs(w) /\ Fresh(w)' = Fresh(w) BY Zenon, <1>2, <2>1
  <2> QED BY Zenon, <2>1, <2>2, <2>3, <2>4, <2>5 DEF Follows
<1>4. ASSUME NEW y \in Contexts, ~Running(y)' PROVE OffOk(y)'
  <2>1. CASE y = x BY Zenon, <1>4, <2>1
  <2>2. CASE y # x
    <3>1. OffOk(y) BY Zenon, <1>4, <2>2 DEF IInv
    <3>2. inirq'[y] = inirq[y] /\ saved'[y] = saved[y] BY Zenon, <2>2 DEF Elsewhere
    <3> QED BY Zenon, <1>2, <2>2, <3>1, <3>2 DEF OffOk
  <2> QED BY Zenon, <2>1, <2>2
<1>5. ASSUME NEW d \in CPUS, NEW w, w = run'[d] PROVE Follows(d, w)'
  <2>1. CASE d = c BY Zenon, <1>5, <2>1
  <2>2. CASE d # c
    <3>1. w = run[d] BY Zenon, <1>5, <2>2 DEF Elsewhere
    <3> QED BY Zenon, <1>3, <2>2, <3>1
  <2> QED BY Zenon, <2>1, <2>2
<1>6. (\A d \in CPUS : Follows(d, run[d]))' BY Zenon, <1>5
<1> QED BY Zenon, <1>1, <1>2, <1>4, <1>6 DEF IInv

(* The same for a step after which every cpu runs what it ran. *)
LEMMA OneSteps ==
  ASSUME IInv, NEW c \in CPUS, NEW x, x = run[c], UNCHANGED run,
         Elsewhere(c), TypeOK', ~panic', OnPath(x)', Follows(c, x)'
  PROVE  IInv'
<1>1. OneCpu' BY Zenon DEF IInv, OneCpu
<1>2. \A y \in Contexts : ~Running(y)' => y # x /\ ~Running(y) BY Zenon DEF Running
<1>3. run'[c] = x BY Zenon
<1> QED BY Zenon, <1>1, <1>2, <1>3, OneMoves

(* The number of locks in a set. *)
LEMMA CardFacts ==
  ASSUME Counts, NEW S, S \subseteq LockNames, NEW l \in LockNames
  PROVE  /\ Cardinality(S) \in Nat
         /\ Cardinality(S) = 0 => S = {}
         /\ l \in S => Cardinality(S \ {l}) = Cardinality(S) - 1
         /\ l \notin S => Cardinality(S \cup {l}) = Cardinality(S) + 1
BY Zenon DEF Counts

(* What the invariant says of the cpu that moves. *)
LEMMA Here ==
  ASSUME IInv, NEW c \in CPUS, NEW x, x = run[c]
  PROVE  /\ x \in Contexts /\ OnPath(x) /\ Follows(c, x) /\ Leads(Path(x), PathSteps(x), HeldBy(c))
         /\ HeldBy(c) \subseteq LockNames /\ (x # c => x \in Threads) /\ c \notin Threads
         /\ ncli[c] \in Nat /\ inirq[x] \in BOOLEAN /\ IF_[c] \in BOOLEAN /\ intena[c] \in BOOLEAN
<1>1. x \in Contexts /\ OnPath(x) /\ Follows(c, x) BY Zenon DEF IInv, TypeOK
<1>2. Leads(Path(x), PathSteps(x), HeldBy(c)) BY Zenon, <1>1, PathLeads DEF Follows
<1>3. (x # c => x \in Threads) /\ c \notin Threads BY Zenon, CpuAssumption DEF IInv, OneCpu
<1>4. ncli[c] \in Nat /\ inirq[x] \in BOOLEAN /\ IF_[c] \in BOOLEAN /\ intena[c] \in BOOLEAN
  BY Zenon, <1>1 DEF IInv, TypeOK
<1> QED BY Zenon, <1>1, <1>2, <1>3, <1>4 DEF HeldBy

(* pushcli's depth follows the locks. *)
LEMMA DepthFacts ==
  ASSUME IInv, Counts, NEW c \in CPUS
  PROVE  /\ spin[c] = NoLock => ncli[c] = Cardinality(HeldBy(c))
         /\ spin[c] # NoLock => ncli[c] = Cardinality(HeldBy(c)) + 1 /\ ncli[c] > 0
         /\ ncli[c] = 0 => HeldBy(c) = {} /\ spin[c] = NoLock
         /\ \A l \in LockNames : l \in HeldBy(c) => ncli[c] > 0
         /\ Cardinality(HeldBy(c)) \in Nat
<1>1. HeldBy(c) \subseteq LockNames /\ Follows(c, run[c]) /\ ncli[c] \in Nat BY Zenon, Here
<1>2. ncli[c] = Cardinality(HeldBy(c)) + (IF spin[c] = NoLock THEN 0 ELSE 1) BY Zenon, <1>1 DEF Follows, Depth
<1>3. Cardinality(HeldBy(c)) \in Nat /\ (Cardinality(HeldBy(c)) = 0 => HeldBy(c) = {})
  <2>1. "ptable" \in LockNames BY Zenon DEF LockNames, Single
  <2> QED BY Zenon, <1>1, <2>1, CardFacts
<1>4. ncli[c] = 0 => Cardinality(HeldBy(c)) = 0 /\ spin[c] = NoLock BY <1>2, <1>3
<1>5. ncli[c] = 0 \/ ncli[c] > 0 BY <1>1
<1>6. (spin[c] = NoLock => ncli[c] = Cardinality(HeldBy(c))) /\ (spin[c] # NoLock => ncli[c] = Cardinality(HeldBy(c)) + 1 /\ ncli[c] > 0)
  BY <1>2, <1>3
<1> QED BY Zenon, <1>3, <1>4, <1>5, <1>6

(* acquire does not find its own cpu holding the lock; pushcli saves the flag. *)
LEMMA AcquireStartStep ==
  ASSUME IInv, Counts, NEW c \in CPUS, NEW l \in LockNames, AcquireStart(c, l)
  PROVE  IInv'
<1>0. PICK x : x = run[c] BY Zenon
<1>1. /\ x \in Contexts /\ OnPath(x) /\ Follows(c, x) /\ Leads(Path(x), PathSteps(x), HeldBy(c))
      /\ ncli[c] \in Nat /\ inirq[x] \in BOOLEAN /\ IF_[c] \in BOOLEAN /\ intena[c] \in BOOLEAN
  BY Zenon, <1>0, Here
<1>2. ~panic /\ spin[c] = NoLock /\ Path(x) # << >> /\ Head(Path(x)) = acq(l) BY Zenon, <1>0 DEF AcquireStart, At
<1>3. holder[l] # c BY Zenon, <1>1, <1>2, HeadAcq DEF HeldBy
<1>4. /\ IF_' = [IF_ EXCEPT ![c] = FALSE] /\ intena' = [intena EXCEPT ![c] = PushedIntena(c)]
      /\ ncli' = [ncli EXCEPT ![c] = @ + 1] /\ spin' = [spin EXCEPT ![c] = l]
      /\ ~panic' /\ panic' = panic /\ UNCHANGED <<holder, run, todo, inirq, irq, saved>>
  BY Zenon, <1>2, <1>3 DEF AcquireStart, ctxvars
<1>5. TypeOK BY Zenon DEF IInv
<1>6. ncli[c] + 1 \in Nat /\ ncli[c] + 1 > 0 BY <1>1
<1>7. PushedIntena(c) \in BOOLEAN BY Zenon, <1>1 DEF PushedIntena
<1>8. TypeOK'
  <2>1. IF_' \in [CPUS -> BOOLEAN] /\ intena' \in [CPUS -> BOOLEAN] BY Zenon, <1>4, <1>5, <1>7 DEF TypeOK
  <2>2. ncli' \in [CPUS -> Nat] BY Zenon, <1>4, <1>5, <1>6 DEF TypeOK
  <2>3. spin' \in [CPUS -> LockNames \cup {NoLock}] BY Zenon, <1>4, <1>5 DEF TypeOK
  <2> QED BY Zenon, <1>4, <1>5, <2>1, <2>2, <2>3 DEF TypeOK
<1>9. /\ IF_'[c] = FALSE /\ intena'[c] = PushedIntena(c) /\ ncli'[c] = ncli[c] + 1 /\ spin'[c] = l
      /\ \A d \in CPUS \ {c} : IF_'[d] = IF_[d] /\ intena'[d] = intena[d] /\ ncli'[d] = ncli[d] /\ spin'[d] = spin[d]
  BY Zenon, <1>4, <1>5 DEF TypeOK
<1>10. \A d : HeldBy(d)' = HeldBy(d) BY Zenon, <1>4 DEF HeldBy
<1>11. Path(x)' = Path(x) /\ Needs(x)' = Needs(x) /\ OnPath(x)' /\ Fresh(x)' = Fresh(x)
  BY Zenon, <1>1, <1>4 DEF Path, Needs, OnPath, TodoSteps, HandlerSteps, Fresh
<1>12. Elsewhere(c) BY Zenon, <1>4, <1>9, <1>10 DEF Elsewhere
<1>13. Follows(c, x)'
  <2>1. (HeldBy(c) = Needs(x))' BY Zenon, <1>1, <1>10, <1>11 DEF Follows
  <2>2. (ncli[c] = Depth(c))'
    <3>1. ncli[c] = Cardinality(HeldBy(c)) /\ Cardinality(HeldBy(c)) \in Nat BY Zenon, <1>2, DepthFacts
    <3>2. l # NoLock BY Zenon, CpuAssumption
    <3>3. Cardinality(HeldBy(c))' = Cardinality(HeldBy(c)) BY Zenon, <1>10
    <3> QED BY <1>9, <3>1, <3>2, <3>3 DEF Depth
  <2>3. (spin[c] # NoLock => Path(x) # << >> /\ Head(Path(x)) = acq(spin[c]))' BY Zenon, <1>2, <1>9, <1>11
  <2>4. (ncli[c] > 0 \/ inirq[x] => ~IF_[c])' BY Zenon, <1>9
  <2>5. ncli[c] = 0 \/ ncli[c] > 0 BY <1>1
  <2>6. (inirq[x] /\ ncli[c] > 0 => ~intena[c])' BY Zenon, <1>1, <1>4, <1>9, <2>5 DEF PushedIntena, Follows
  <2>7. ncli[c] = 0 => todo[x] # <<iret>> \/ inirq[x]
    <3>1. Head(<<iret>>) = iret OBVIOUS
    <3> QED BY Zenon, <1>2, <3>1, StepFacts DEF Path
  <2>8. (x \in Threads /\ ~inirq[x] =>
          IF ncli[c] > 0 THEN Fresh(x) \/ intena[c] ELSE todo[x] = <<iret>> \/ IF_[c])'
    <3>1. ~(ncli[c] > 0 /\ ncli[c] = 0) BY <1>1
    <3> QED BY Zenon, <1>1, <1>4, <1>6, <1>9, <1>11, <2>5, <2>7, <3>1 DEF PushedIntena, Follows
  <2> QED BY Zenon, <2>1, <2>2, <2>3, <2>4, <2>6, <2>8 DEF Follows
<1> QED BY Zenon, <1>0, <1>4, <1>8, <1>11, <1>12, <1>13, OneSteps

(* The lock is taken by the cpu that spins for it, whose path goes on with it. *)
LEMMA AcquireStep ==
  ASSUME IInv, Counts, NEW c \in CPUS, NEW l \in LockNames, Acquire(c, l)
  PROVE  IInv'
<1>0. PICK x : x = run[c] BY Zenon
<1>1. /\ x \in Contexts /\ OnPath(x) /\ Follows(c, x) /\ Leads(Path(x), PathSteps(x), HeldBy(c))
      /\ HeldBy(c) \subseteq LockNames
  BY Zenon, <1>0, Here
<1>2. TypeOK /\ l # NoLock BY Zenon, CpuAssumption DEF IInv
<1>3. /\ ~panic /\ spin[c] = l /\ holder[l] = NoCpu /\ holder' = [holder EXCEPT ![l] = c]
      /\ spin' = [spin EXCEPT ![c] = NoLock] /\ Advance(x)
      /\ UNCHANGED <<ncli, intena, IF_, run, inirq, saved, panic>>
  BY Zenon, <1>0 DEF Acquire
<1>4. Path(x) # << >> /\ Head(Path(x)) = acq(l) BY Zenon, <1>1, <1>2, <1>3 DEF Follows
<1>5. l \notin HeldBy(c) /\ Leads(Tail(Path(x)), PathSteps(x), HeldBy(c) \cup {l}) BY Zenon, <1>1, <1>4, HeadAcq
<1>6. /\ Path(x)' = Tail(Path(x)) /\ OnPath(x)'
      /\ todo' \in [Contexts -> Seq(Steps)] /\ irq' \in [Contexts -> Seq(Steps)]
      /\ \A y \in Contexts \ {x} : todo'[y] = todo[y] /\ irq'[y] = irq[y]
  BY Zenon, <1>1, <1>2, <1>3, <1>4, Advanced
<1>7. /\ spin'[c] = NoLock /\ \A d \in CPUS \ {c} : spin'[d] = spin[d]
      /\ \A m \in LockNames : holder'[m] = IF m = l THEN c ELSE holder[m]
  BY Zenon, <1>2, <1>3 DEF TypeOK
<1>8. TypeOK'
  <2>1. holder' \in [LockNames -> CPUS \cup {NoCpu}] BY Zenon, <1>2, <1>3 DEF TypeOK
  <2>2. spin' \in [CPUS -> LockNames \cup {NoLock}] BY Zenon, <1>2, <1>3 DEF TypeOK
  <2> QED BY Zenon, <1>2, <1>3, <1>6, <2>1, <2>2 DEF TypeOK
<1>9. HeldBy(c)' = HeldBy(c) \cup {l} BY Zenon, <1>7 DEF HeldBy
<1>10. ASSUME NEW d \in CPUS \ {c} PROVE HeldBy(d)' = HeldBy(d)
  <2>1. d # NoCpu /\ \A m \in LockNames : holder'[m] = d <=> holder[m] = d BY Zenon, <1>3, <1>7, CpuAssumption
  <2> QED BY Zenon, <2>1 DEF HeldBy
<1>11. Elsewhere(c) BY Zenon, <1>0, <1>3, <1>6, <1>7, <1>10 DEF Elsewhere
<1>12. Follows(c, x)'
  <2>1. (HeldBy(c) = Needs(x))' BY Zenon, <1>5, <1>6, <1>9 DEF Needs, Leads
  <2>2. (ncli[c] = Depth(c))'
    <3>1. ncli[c] = Cardinality(HeldBy(c)) + 1 BY Zenon, <1>2, <1>3, DepthFacts
    <3>2. Cardinality(HeldBy(c) \cup {l}) = Cardinality(HeldBy(c)) + 1 /\ Cardinality(HeldBy(c)) \in Nat BY Zenon, <1>1, <1>5, CardFacts
    <3>3. Cardinality(HeldBy(c))' = Cardinality(HeldBy(c)) + 1 BY Zenon, <1>9, <3>2
    <3> QED BY <1>3, <1>7, <3>1, <3>2, <3>3 DEF Depth
  <2>3. ncli[c] > 0 BY Zenon, <1>2, <1>3, DepthFacts
  <2>4. ~Fresh(x)
    <3>1. Head(forkret) = rel("ptable") BY DEF forkret
    <3> QED BY Zenon, <1>4, <3>1, StepFacts DEF Fresh, Path
  <2> QED BY Zenon, <1>1, <1>3, <1>7, <2>1, <2>2, <2>3, <2>4 DEF Follows
<1> QED BY Zenon, <1>0, <1>3, <1>6, <1>8, <1>11, <1>12, OneSteps

(* release finds the lock held and interrupts off; the outermost popcli restores
   the flag. *)
LEMMA ReleaseStep ==
  ASSUME IInv, Counts, NEW c \in CPUS, NEW l \in LockNames, Release(c, l)
  PROVE  IInv'
<1>0. PICK x : x = run[c] BY Zenon
<1>1. /\ x \in Contexts /\ OnPath(x) /\ Follows(c, x) /\ Leads(Path(x), PathSteps(x), HeldBy(c))
      /\ HeldBy(c) \subseteq LockNames /\ ncli[c] \in Nat /\ inirq[x] \in BOOLEAN
      /\ IF_[c] \in BOOLEAN /\ intena[c] \in BOOLEAN
  BY Zenon, <1>0, Here
<1>2. TypeOK BY Zenon DEF IInv
<1>3. ~panic /\ spin[c] = NoLock /\ Path(x) # << >> /\ Head(Path(x)) = rel(l) BY Zenon, <1>0 DEF Release, At
<1>4. l \in HeldBy(c) /\ Leads(Tail(Path(x)), PathSteps(x), HeldBy(c) \ {l}) BY Zenon, <1>1, <1>3, HeadRel
<1>5. ncli[c] = Cardinality(HeldBy(c)) /\ ncli[c] > 0 BY Zenon, <1>3, <1>4, DepthFacts
<1>6. holder[l] = c /\ ~IF_[c] BY Zenon, <1>1, <1>4, <1>5 DEF HeldBy, Follows
<1>7. ~(ncli[c] < 1) BY <1>1, <1>5
<1>8. /\ holder' = [holder EXCEPT ![l] = NoCpu] /\ ncli' = [ncli EXCEPT ![c] = ncli[c] - 1]
      /\ IF_' = [IF_ EXCEPT ![c] = @ \/ PopsToSti(c)] /\ Advance(x) /\ panic' = panic
      /\ UNCHANGED <<intena, spin, run, inirq, saved>>
  BY Zenon, <1>0, <1>6, <1>7 DEF Release, Popped
<1>9. /\ Path(x)' = Tail(Path(x)) /\ OnPath(x)'
      /\ todo' \in [Contexts -> Seq(Steps)] /\ irq' \in [Contexts -> Seq(Steps)]
      /\ \A y \in Contexts \ {x} : todo'[y] = todo[y] /\ irq'[y] = irq[y]
  BY Zenon, <1>1, <1>2, <1>3, <1>8, Advanced
<1>10. ncli[c] - 1 \in Nat /\ (ncli[c] - 1 > 0 => ncli[c] # 1) /\ (~(ncli[c] - 1 > 0) => ncli[c] = 1) BY <1>1, <1>5
<1>11. /\ ncli'[c] = ncli[c] - 1 /\ IF_'[c] = PopsToSti(c)
       /\ \A d \in CPUS \ {c} : ncli'[d] = ncli[d] /\ IF_'[d] = IF_[d]
       /\ \A m \in LockNames : holder'[m] = IF m = l THEN NoCpu ELSE holder[m]
  <2>1. PopsToSti(c) \in BOOLEAN BY Zenon DEF PopsToSti
  <2>2. IF_'[c] = PopsToSti(c) BY Zenon, <1>1, <1>2, <1>6, <1>8, <2>1 DEF TypeOK
  <2> QED BY Zenon, <1>2, <1>8, <2>2 DEF TypeOK
<1>12. TypeOK'
  <2>1. holder' \in [LockNames -> CPUS \cup {NoCpu}] BY Zenon, <1>2, <1>8 DEF TypeOK
  <2>2. ncli' \in [CPUS -> Nat] BY Zenon, <1>2, <1>8, <1>10 DEF TypeOK
  <2>3. IF_' \in [CPUS -> BOOLEAN] BY Zenon, <1>2, <1>8 DEF TypeOK
  <2> QED BY Zenon, <1>2, <1>8, <1>9, <2>1, <2>2, <2>3 DEF TypeOK
<1>13. HeldBy(c)' = HeldBy(c) \ {l} BY Zenon, <1>11, CpuAssumption DEF HeldBy
<1>14. \A d \in CPUS \ {c} : HeldBy(d)' = HeldBy(d) BY Zenon, <1>6, <1>11, CpuAssumption DEF HeldBy
<1>15. Elsewhere(c) BY Zenon, <1>0, <1>8, <1>9, <1>11, <1>14 DEF Elsewhere
<1>16. Fresh(x) => ncli[c] = 1 /\ todo'[x] = <<iret>>
  <2>1. ASSUME Fresh(x) PROVE ncli[c] = 1 /\ todo'[x] = <<iret>>
    <3>1. ~inirq[x] /\ Path(x) = forkret BY Zenon, <2>1 DEF Fresh, Path
    <3>2. todo'[x] = Tail(forkret) BY Zenon, <1>8, <1>9, <3>1 DEF Path
    <3>3. Tail(forkret) = <<iret>> BY DEF forkret
    <3>4. LockSteps \subseteq ThreadSteps /\ iret \in ThreadSteps BY Zenon DEF ThreadSteps, IrqSteps
    <3>5. Owes(forkret, 1) = {"ptable"} BY Zenon, <3>4, ForkretLeads DEF Leads
    <3>6. HeldBy(c) = {"ptable"} BY Zenon, <1>1, <3>1, <3>5 DEF Follows, Needs
    <3>7. Cardinality({"ptable"}) = 1 BY Zenon DEF Counts
    <3> QED BY Zenon, <1>5, <3>2, <3>3, <3>6, <3>7
  <2> QED BY Zenon, <2>1
<1>17. Follows(c, x)'
  <2>1. (HeldBy(c) = Needs(x))' BY Zenon, <1>4, <1>9, <1>13 DEF Needs, Leads
  <2>2. (ncli[c] = Depth(c))'
    <3>1. Cardinality(HeldBy(c) \ {l}) = Cardinality(HeldBy(c)) - 1 /\ Cardinality(HeldBy(c)) \in Nat BY Zenon, <1>1, <1>4, CardFacts
    <3>2. Cardinality(HeldBy(c))' = Cardinality(HeldBy(c)) - 1 BY Zenon, <1>13, <3>1
    <3> QED BY <1>3, <1>5, <1>8, <1>11, <3>1, <3>2 DEF Depth
  <2>3. (spin[c] # NoLock => Path(x) # << >> /\ Head(Path(x)) = acq(spin[c]))' BY Zenon, <1>3, <1>8
  <2>4. (ncli[c] > 0 \/ inirq[x] => ~IF_[c])' BY Zenon, <1>1, <1>5, <1>8, <1>10, <1>11 DEF PopsToSti, Follows
  <2>5. (inirq[x] /\ ncli[c] > 0 => ~intena[c])' BY Zenon, <1>1, <1>5, <1>8 DEF Follows
  <2>6. (x \in Threads /\ ~inirq[x] =>
          IF ncli[c] > 0 THEN Fresh(x) \/ intena[c] ELSE todo[x] = <<iret>> \/ IF_[c])'
    BY Zenon, <1>1, <1>5, <1>8, <1>10, <1>11, <1>16 DEF PopsToSti, Follows
  <2> QED BY Zenon, <2>1, <2>2, <2>3, <2>4, <2>5, <2>6 DEF Follows
<1>18. ~panic' BY Zenon, <1>3, <1>8
<1> QED BY Zenon, <1>0, <1>8, <1>9, <1>12, <1>15, <1>17, <1>18, OneSteps

(* A step that only gives the context of c a new path, which starts with the
   same locks. *)
LEMMA NewPath ==
  ASSUME IInv, NEW c \in CPUS, NEW x, x = run[c], NEW p, todo' = [todo EXCEPT ![x] = p],
         ~inirq[x], spin[c] = NoLock, Leads(p, TodoSteps(x), HeldBy(c)), x \in Threads => IF_[c],
         UNCHANGED <<holder, ncli, intena, IF_, spin, run, inirq, irq, saved, panic>>
  PROVE  IInv'
<1>1. x \in Contexts /\ OnPath(x) /\ Follows(c, x) BY Zenon, Here
<1>2. TypeOK /\ ~panic BY Zenon DEF IInv
<1>3. p \in Seq(Steps)
  <2>1. TodoSteps(x) \subseteq Steps BY Zenon, <1>1, PathStepsFacts DEF PathSteps
  <2>2. p \in Seq(TodoSteps(x)) BY Zenon, LeadsLocks
  <2> QED BY <2>1, <2>2
<1>4. TypeOK' BY Zenon, <1>2, <1>3 DEF TypeOK
<1>5. todo'[x] = p /\ \A y \in Contexts \ {x} : todo'[y] = todo[y] BY Zenon, <1>1, <1>2 DEF TypeOK
<1>6. \A d : HeldBy(d)' = HeldBy(d) BY Zenon DEF HeldBy
<1>7. Elsewhere(c) BY Zenon, <1>5, <1>6 DEF Elsewhere
<1>8. OnPath(x)' BY Zenon, <1>5 DEF OnPath, Good, Leads, TodoSteps
<1>9. Follows(c, x)'
  <2>1. (HeldBy(c) = Needs(x))' BY Zenon, <1>5, <1>6 DEF Needs, Path, Leads
  <2>2. Depth(c)' = Depth(c) BY Zenon, <1>6 DEF Depth
  <2>3. ~(ncli[c] > 0) \/ x \notin Threads BY Zenon, <1>1 DEF Follows
  <2> QED BY Zenon, <1>1, <2>1, <2>2, <2>3 DEF Follows
<1> QED BY Zenon, <1>2, <1>4, <1>7, <1>8, <1>9, OneSteps

(* The search of the table goes on with ptable.lock. *)
LEMMA ScanStep == ASSUME IInv, NEW c \in CPUS, Scan(c) PROVE IInv'
<1>0. PICK x : x = run[c] BY Zenon
<1>1. /\ x \in Contexts /\ Leads(Path(x), PathSteps(x), HeldBy(c)) /\ (x # c => x \in Threads) /\ c \notin Threads
  BY Zenon, <1>0, Here
<1>2. spin[c] = NoLock /\ Path(x) # << >> /\ Head(Path(x)) = scan BY Zenon, <1>0 DEF Scan, At
<1>3. scan \in PathSteps(x) /\ HeldBy(c) = {"ptable"} BY Zenon, <1>1, <1>2, TailLeads, HeadOther
<1>4. x = c /\ ~inirq[x] /\ TodoSteps(x) = SchedulerSteps BY Zenon, <1>1, <1>3, PathStepsFacts DEF TodoSteps
<1>5. PICK p \in {SchedFound, SchedNone} : todo' = [todo EXCEPT ![x] = p] BY Zenon, <1>4 DEF Scan
<1>6. Leads(p, TodoSteps(x), HeldBy(c)) BY Zenon, <1>3, <1>4, SchedulerLeads
<1>7. UNCHANGED <<holder, ncli, intena, IF_, spin, run, inirq, irq, saved, panic>> BY Zenon DEF Scan, cpuvars
<1> QED BY Zenon, <1>0, <1>1, <1>2, <1>4, <1>5, <1>6, <1>7, NewPath

(* A context that starts over holds nothing. *)
LEMMA StartStep == ASSUME IInv, Counts, NEW c \in CPUS, Start(c) PROVE IInv'
<1>0. PICK x : x = run[c] BY Zenon
<1>1. /\ x \in Contexts /\ Follows(c, x) /\ (x # c => x \in Threads) /\ c \notin Threads /\ ncli[c] \in Nat
  BY Zenon, <1>0, Here
<1>2. ~inirq[x] /\ todo[x] = << >> /\ spin[c] = NoLock BY Zenon, <1>0 DEF Start
<1>3. HeldBy(c) = {}
  <2>1. Owes(<< >>, 1) = {} BY Zenon, EmptyLeads DEF Leads
  <2> QED BY Zenon, <1>1, <1>2, <2>1 DEF Follows, Needs, Path
<1>4. PICK p : todo' = [todo EXCEPT ![x] = p] /\ (IF x = c THEN p = SchedStart ELSE p \in Calls)
  BY Zenon, <1>0 DEF Start
<1>5. Leads(p, TodoSteps(x), HeldBy(c)) BY Zenon, <1>1, <1>3, <1>4, SchedulerLeads, CallsLead DEF TodoSteps
<1>6. x \in Threads => IF_[c]
  <2>1. ~(ncli[c] > 0)
    <3>1. ncli[c] = Cardinality({}) BY Zenon, <1>2, <1>3, DepthFacts
    <3>2. Cardinality({}) = 0 BY Zenon DEF Counts
    <3> QED BY <3>1, <3>2
  <2>2. << >> # <<iret>> OBVIOUS
  <2> QED BY Zenon, <1>1, <1>2, <2>1, <2>2 DEF Follows
<1>7. UNCHANGED <<holder, ncli, intena, IF_, spin, run, inirq, irq, saved, panic>> BY Zenon DEF Start, cpuvars
<1> QED BY Zenon, <1>0, <1>2, <1>4, <1>5, <1>6, <1>7, NewPath

(* A step that only gives the handler that the context of c is in a new path,
   which starts with the same locks. *)
LEMMA NewHandlerPath ==
  ASSUME IInv, NEW c \in CPUS, NEW x, x = run[c], NEW p, irq' = [irq EXCEPT ![x] = p],
         inirq[x], spin[c] = NoLock, Leads(p, HandlerSteps(x), HeldBy(c)),
         UNCHANGED <<holder, ncli, intena, IF_, spin, run, inirq, todo, saved, panic>>
  PROVE  IInv'
<1>1. x \in Contexts /\ OnPath(x) /\ Follows(c, x) BY Zenon, Here
<1>2. TypeOK /\ ~panic BY Zenon DEF IInv
<1>3. p \in Seq(Steps)
  <2>1. HandlerSteps(x) \subseteq Steps BY Zenon, <1>1, PathStepsFacts DEF PathSteps
  <2>2. p \in Seq(HandlerSteps(x)) BY Zenon, LeadsLocks
  <2> QED BY <2>1, <2>2
<1>4. TypeOK' BY Zenon, <1>2, <1>3 DEF TypeOK
<1>5. irq'[x] = p /\ \A y \in Contexts \ {x} : irq'[y] = irq[y] BY Zenon, <1>1, <1>2 DEF TypeOK
<1>6. \A d : HeldBy(d)' = HeldBy(d) BY Zenon DEF HeldBy
<1>7. Elsewhere(c) BY Zenon, <1>5, <1>6 DEF Elsewhere
<1>8. OnPath(x)' BY Zenon, <1>1, <1>5 DEF OnPath, Good, Leads, TodoSteps, HandlerSteps
<1>9. Follows(c, x)'
  <2>1. (HeldBy(c) = Needs(x))' BY Zenon, <1>5, <1>6 DEF Needs, Path, Leads
  <2>2. Depth(c)' = Depth(c) BY Zenon, <1>6 DEF Depth
  <2> QED BY Zenon, <1>1, <2>1, <2>2 DEF Follows
<1> QED BY Zenon, <1>2, <1>4, <1>7, <1>8, <1>9, OneSteps

(* exit goes on without locks, whether it was called or reached from trap(). *)
LEMMA ClosingStep == ASSUME IInv, Counts, NEW c \in CPUS, Closing(c) PROVE IInv'
<1>0. PICK x : x = run[c] BY Zenon
<1>1. /\ x \in Contexts /\ Follows(c, x) /\ Leads(Path(x), PathSteps(x), HeldBy(c)) /\ ncli[c] \in Nat
      /\ inirq[x] \in BOOLEAN
  BY Zenon, <1>0, Here
<1>2. spin[c] = NoLock /\ Path(x) # << >> /\ Head(Path(x)) = closing BY Zenon, <1>0 DEF Closing, At
<1>3. closing \in PathSteps(x) /\ HeldBy(c) = {} BY Zenon, <1>1, <1>2, TailLeads, HeadOther
<1>4. x \in Threads BY Zenon, <1>1, <1>3, PathStepsFacts
<1>5. /\ UNCHANGED <<holder, ncli, intena, IF_, spin, run, inirq, saved, panic>>
      /\ \E p : GoOn(x, p) /\ (p = die \/ \E f \in FileCalls : p = f \o <<closing>>)
  BY Zenon, <1>0 DEF Closing, cpuvars
<1>6. PICK p : GoOn(x, p) /\ (p = die \/ \E f \in FileCalls : p = f \o <<closing>>) BY Zenon, <1>5
<1>7. IrqSteps \subseteq TodoSteps(x) /\ IrqSteps \subseteq HandlerSteps(x)
  BY Zenon, <1>4 DEF TodoSteps, HandlerSteps, ThreadSteps
<1>8. ASSUME NEW A, IrqSteps \subseteq A PROVE Leads(p, A, {})
  <2>1. Leads(die, A, {}) /\ Leads(<<closing>>, A, {}) BY Zenon, <1>8, ExitLeads DEF exit
  <2> QED BY Zenon, <1>6, <1>8, <2>1, FileCallsKeep DEF Keeps
<1>9. Leads(p, TodoSteps(x), HeldBy(c)) /\ Leads(p, HandlerSteps(x), HeldBy(c)) BY Zenon, <1>3, <1>7, <1>8
<1>10. ~inirq[x] => IF_[c]
  <2>1. ~(ncli[c] > 0)
    <3>1. ncli[c] = Cardinality({}) BY Zenon, <1>2, <1>3, DepthFacts
    <3>2. Cardinality({}) = 0 BY Zenon DEF Counts
    <3> QED BY <3>1, <3>2
  <2>2. Head(<<iret>>) # closing BY StepFacts
  <2> QED BY Zenon, <1>1, <1>2, <1>4, <2>1, <2>2 DEF Follows, Path
<1>11. CASE inirq[x]
  <2>1. irq' = [irq EXCEPT ![x] = p] /\ todo' = todo BY Zenon, <1>6, <1>11 DEF GoOn
  <2> QED BY Zenon, <1>0, <1>2, <1>5, <1>9, <1>11, <2>1, NewHandlerPath
<1>12. CASE ~inirq[x]
  <2>1. todo' = [todo EXCEPT ![x] = p] /\ irq' = irq BY Zenon, <1>6, <1>12 DEF GoOn
  <2> QED BY Zenon, <1>0, <1>2, <1>5, <1>9, <1>10, <1>12, <2>1, NewPath
<1> QED BY Zenon, <1>11, <1>12

(* trap() calls exit without locks. *)
LEMMA KilledStep == ASSUME IInv, NEW c \in CPUS, Killed(c) PROVE IInv'
<1>0. PICK x : x = run[c] BY Zenon
<1>1. x \in Contexts /\ Follows(c, x) /\ (x # c => x \in Threads) BY Zenon, <1>0, Here
<1>2. /\ x # c /\ inirq[x] /\ spin[c] = NoLock /\ irq[x] \in {<< >>, Yielding}
      /\ irq' = [irq EXCEPT ![x] = exit]
      /\ UNCHANGED <<holder, ncli, intena, IF_, spin, run, inirq, todo, saved, panic>>
  BY Zenon, <1>0 DEF Killed, cpuvars
<1>3. HeldBy(c) = {}
  <2>1. Owes(<< >>, 1) = {} BY Zenon, EmptyLeads DEF Leads
  <2>2. Owes(Yielding, 1) = {} BY Zenon, YieldingLeads DEF Leads
  <2> QED BY Zenon, <1>1, <1>2, <2>1, <2>2 DEF Follows, Needs, Path
<1>4. HandlerSteps(x) = IrqSteps BY Zenon, <1>1, <1>2 DEF HandlerSteps
<1>5. Leads(exit, HandlerSteps(x), HeldBy(c)) BY Zenon, <1>3, <1>4, ExitLeads
<1> QED BY Zenon, <1>0, <1>2, <1>5, NewHandlerPath

(* Interrupts are turned on without locks and outside of handlers. *)
LEMMA EnableStep == ASSUME IInv, Counts, NEW c \in CPUS, Enable(c) PROVE IInv'
<1>0. PICK x : x = run[c] BY Zenon
<1>1. /\ x \in Contexts /\ OnPath(x) /\ Follows(c, x) /\ Leads(Path(x), PathSteps(x), HeldBy(c)) /\ ncli[c] \in Nat
  BY Zenon, <1>0, Here
<1>2. TypeOK BY Zenon DEF IInv
<1>3. /\ ~panic /\ spin[c] = NoLock /\ Path(x) # << >> /\ Head(Path(x)) \in {sti, iret}
      /\ IF_' = [IF_ EXCEPT ![c] = TRUE] /\ Advance(x)
      /\ UNCHANGED <<holder, ncli, intena, spin, run, inirq, saved, panic>>
  BY Zenon, <1>0 DEF Enable, At
<1>4. HeldBy(c) = {} /\ Leads(Tail(Path(x)), PathSteps(x), {}) BY Zenon, <1>1, <1>3, HeadOther
<1>5. ~inirq[x]
  <2>1. Head(Path(x)) \in PathSteps(x) BY Zenon, <1>1, <1>3, TailLeads
  <2> QED BY Zenon, <1>1, <1>3, <2>1, PathStepsFacts
<1>6. ncli[c] = 0 /\ ~(ncli[c] > 0)
  <2>1. ncli[c] = Cardinality({}) BY Zenon, <1>3, <1>4, DepthFacts
  <2>2. Cardinality({}) = 0 BY Zenon DEF Counts
  <2> QED BY <2>1, <2>2
<1>7. /\ Path(x)' = Tail(Path(x)) /\ OnPath(x)'
      /\ todo' \in [Contexts -> Seq(Steps)] /\ irq' \in [Contexts -> Seq(Steps)]
      /\ \A y \in Contexts \ {x} : todo'[y] = todo[y] /\ irq'[y] = irq[y]
  BY Zenon, <1>1, <1>2, <1>3, Advanced
<1>8. IF_'[c] = TRUE /\ \A d \in CPUS \ {c} : IF_'[d] = IF_[d] BY Zenon, <1>2, <1>3 DEF TypeOK
<1>9. TypeOK'
  <2>1. IF_' \in [CPUS -> BOOLEAN] BY Zenon, <1>2, <1>3 DEF TypeOK
  <2> QED BY Zenon, <1>2, <1>3, <1>7, <2>1 DEF TypeOK
<1>10. \A d : HeldBy(d)' = HeldBy(d) BY Zenon, <1>3 DEF HeldBy
<1>11. Elsewhere(c) BY Zenon, <1>0, <1>3, <1>7, <1>8, <1>10 DEF Elsewhere
<1>12. Follows(c, x)'
  <2>1. (HeldBy(c) = Needs(x))' BY Zenon, <1>4, <1>7, <1>10 DEF Needs, Leads
  <2>2. Depth(c)' = Depth(c) BY Zenon, <1>3, <1>10 DEF Depth
  <2> QED BY Zenon, <1>1, <1>3, <1>5, <1>6, <1>8, <2>1, <2>2 DEF Follows
<1> QED BY Zenon, <1>0, <1>3, <1>7, <1>9, <1>11, <1>12, OneSteps

(* An interrupt comes when the context holds no lock. *)
LEMMA InterruptStep == ASSUME IInv, Counts, NEW c \in CPUS, Interrupt(c) PROVE IInv'
<1>0. PICK x : x = run[c] BY Zenon
<1>1. /\ x \in Contexts /\ OnPath(x) /\ Follows(c, x) /\ ncli[c] \in Nat /\ inirq[x] \in BOOLEAN
      /\ (x # c => x \in Threads) /\ c \notin Threads
  BY Zenon, <1>0, Here
<1>2. TypeOK BY Zenon DEF IInv
<1>3. PICK h \in Handlers(c, x # c) : irq' = [irq EXCEPT ![x] = h] BY Zenon, <1>0 DEF Interrupt
<1>4. /\ ~panic /\ IF_[c] /\ inirq' = [inirq EXCEPT ![x] = TRUE] /\ IF_' = [IF_ EXCEPT ![c] = FALSE]
      /\ UNCHANGED <<holder, ncli, intena, spin, run, todo, saved, panic>>
  BY Zenon, <1>0 DEF Interrupt
<1>5. ~(ncli[c] > 0) /\ ~inirq[x] BY Zenon, <1>1, <1>4 DEF Follows
<1>6. HeldBy(c) = {} /\ spin[c] = NoLock
  <2>1. ncli[c] = 0 BY <1>1, <1>5
  <2> QED BY Zenon, <2>1, DepthFacts
<1>7. Owes(todo[x], 1) = {} BY Zenon, <1>1, <1>5, <1>6 DEF Follows, Needs, Path
<1>8. Leads(h, HandlerSteps(x), {})
  <2>1. Leads(h, IF x # c THEN IrqSteps ELSE LockSteps, {})
    <3>1. (x # c) \in BOOLEAN BY Zenon
    <3> QED BY Zenon, <3>1, HandlersLead
  <2> QED BY Zenon, <1>1, <2>1 DEF HandlerSteps
<1>9. h \in Seq(Steps)
  <2>1. HandlerSteps(x) \subseteq Steps BY Zenon DEF HandlerSteps, IrqSteps, LockSteps, Steps
  <2>2. h \in Seq(HandlerSteps(x)) BY Zenon, <1>8, LeadsLocks
  <2> QED BY <2>1, <2>2
<1>10. /\ irq'[x] = h /\ inirq'[x] = TRUE /\ IF_'[c] = FALSE
       /\ \A y \in Contexts \ {x} : irq'[y] = irq[y] /\ inirq'[y] = inirq[y]
       /\ \A d \in CPUS \ {c} : IF_'[d] = IF_[d]
  BY Zenon, <1>1, <1>2, <1>3, <1>4 DEF TypeOK
<1>11. TypeOK'
  <2>1. irq' \in [Contexts -> Seq(Steps)] BY Zenon, <1>2, <1>3, <1>9 DEF TypeOK
  <2>2. inirq' \in [Contexts -> BOOLEAN] /\ IF_' \in [CPUS -> BOOLEAN] BY Zenon, <1>2, <1>4 DEF TypeOK
  <2> QED BY Zenon, <1>2, <1>4, <2>1, <2>2 DEF TypeOK
<1>12. \A d : HeldBy(d)' = HeldBy(d) BY Zenon, <1>4 DEF HeldBy
<1>13. Elsewhere(c) BY Zenon, <1>0, <1>4, <1>10, <1>12 DEF Elsewhere
<1>14. OnPath(x)' BY Zenon, <1>1, <1>4, <1>7, <1>8, <1>10 DEF OnPath, Good, Leads, HandlerSteps, TodoSteps
<1>15. Follows(c, x)'
  <2>1. (HeldBy(c) = Needs(x))' BY Zenon, <1>6, <1>8, <1>10, <1>12 DEF Needs, Path, Leads
  <2>2. Depth(c)' = Depth(c) BY Zenon, <1>4, <1>12 DEF Depth
  <2> QED BY Zenon, <1>1, <1>4, <1>5, <1>6, <1>10, <2>1, <2>2 DEF Follows
<1>16. UNCHANGED run /\ ~panic' BY Zenon, <1>4
<1> QED BY Zenon, <1>0, <1>11, <1>13, <1>14, <1>15, <1>16, OneSteps

(* A handler returns without locks to code that has none. *)
LEMMA IretStep == ASSUME IInv, Counts, NEW c \in CPUS, Iret(c) PROVE IInv'
<1>0. PICK x : x = run[c] BY Zenon
<1>1. x \in Contexts /\ OnPath(x) /\ Follows(c, x) BY Zenon, <1>0, Here
<1>2. TypeOK BY Zenon DEF IInv
<1>3. /\ ~panic /\ inirq[x] /\ irq[x] = << >> /\ spin[c] = NoLock
      /\ inirq' = [inirq EXCEPT ![x] = FALSE] /\ IF_' = [IF_ EXCEPT ![c] = TRUE]
      /\ UNCHANGED <<holder, ncli, intena, spin, run, todo, irq, saved, panic>>
  BY Zenon, <1>0 DEF Iret
<1>4. HeldBy(c) = {}
  <2>1. Owes(<< >>, 1) = {} BY Zenon, EmptyLeads DEF Leads
  <2> QED BY Zenon, <1>1, <1>3, <2>1 DEF Follows, Needs, Path
<1>5. ncli[c] = 0 /\ ~(ncli[c] > 0)
  <2>1. ncli[c] = Cardinality({}) BY Zenon, <1>3, <1>4, DepthFacts
  <2>2. Cardinality({}) = 0 BY Zenon DEF Counts
  <2> QED BY <2>1, <2>2
<1>6. Owes(todo[x], 1) = {} BY Zenon, <1>1, <1>3 DEF OnPath
<1>7. /\ inirq'[x] = FALSE /\ IF_'[c] = TRUE
      /\ \A y \in Contexts \ {x} : inirq'[y] = inirq[y]
      /\ \A d \in CPUS \ {c} : IF_'[d] = IF_[d]
  BY Zenon, <1>1, <1>2, <1>3 DEF TypeOK
<1>8. TypeOK'
  <2>1. inirq' \in [Contexts -> BOOLEAN] /\ IF_' \in [CPUS -> BOOLEAN] BY Zenon, <1>2, <1>3 DEF TypeOK
  <2> QED BY Zenon, <1>2, <1>3, <2>1 DEF TypeOK
<1>9. \A d : HeldBy(d)' = HeldBy(d) BY Zenon, <1>3 DEF HeldBy
<1>10. Elsewhere(c) BY Zenon, <1>0, <1>3, <1>7, <1>9 DEF Elsewhere
<1>11. OnPath(x)' BY Zenon, <1>1, <1>3, <1>7 DEF OnPath, TodoSteps
<1>12. Follows(c, x)'
  <2>1. (HeldBy(c) = Needs(x))' BY Zenon, <1>3, <1>4, <1>6, <1>7, <1>9 DEF Needs, Path
  <2>2. Depth(c)' = Depth(c) BY Zenon, <1>3, <1>9 DEF Depth
  <2> QED BY Zenon, <1>1, <1>3, <1>5, <1>7, <2>1, <2>2 DEF Follows
<1>13. UNCHANGED run /\ ~panic' BY Zenon, <1>3
<1> QED BY Zenon, <1>0, <1>8, <1>10, <1>11, <1>12, <1>13, OneSteps

(* sched() finds ptable.lock alone held.  The scheduler goes on with that lock,
   and the thread keeps its flag. *)
LEMMA SchedStep == ASSUME IInv, Counts, NEW c \in CPUS, Sched(c) PROVE IInv'
<1>0. PICK x : x = run[c] BY Zenon
<1>1. /\ x \in Contexts /\ OnPath(x) /\ Follows(c, x) /\ Leads(Path(x), PathSteps(x), HeldBy(c))
      /\ c \notin Threads /\ inirq[x] \in BOOLEAN /\ intena[c] \in BOOLEAN
  BY Zenon, <1>0, Here
<1>2. TypeOK /\ OneCpu BY Zenon DEF IInv
<1>3. ~panic /\ spin[c] = NoLock /\ Path(x) # << >> /\ Head(Path(x)) = sched BY Zenon, <1>0 DEF Sched, At
<1>4. HeldBy(c) = {"ptable"} /\ Leads(Tail(Path(x)), PathSteps(x), {"ptable"}) BY Zenon, <1>1, <1>3, HeadOther
<1>5. x \in Threads
  <2>1. sched \in PathSteps(x) BY Zenon, <1>1, <1>3, TailLeads
  <2> QED BY Zenon, <1>1, <2>1, PathStepsFacts
<1>6. ncli[c] = 1 /\ ncli[c] > 0
  <2>1. ncli[c] = Cardinality({"ptable"}) BY Zenon, <1>3, <1>4, DepthFacts
  <2>2. Cardinality({"ptable"}) = 1 BY Zenon DEF Counts
  <2> QED BY <2>1, <2>2
<1>7. holder["ptable"] = c /\ ~IF_[c] BY Zenon, <1>1, <1>4, <1>6 DEF HeldBy, Follows
<1>8. /\ saved' = [saved EXCEPT ![x] = intena[c]] /\ run' = [run EXCEPT ![c] = c] /\ Advance(x) /\ panic' = panic
      /\ UNCHANGED <<holder, ncli, intena, IF_, spin, inirq>>
  BY Zenon, <1>0, <1>6, <1>7 DEF Sched
<1>9. /\ Path(x)' = Tail(Path(x)) /\ OnPath(x)'
      /\ todo' \in [Contexts -> Seq(Steps)] /\ irq' \in [Contexts -> Seq(Steps)]
      /\ \A y \in Contexts \ {x} : todo'[y] = todo[y] /\ irq'[y] = irq[y]
  BY Zenon, <1>1, <1>2, <1>3, <1>8, Advanced
<1>10. /\ run'[c] = c /\ saved'[x] = intena[c]
       /\ \A d \in CPUS \ {c} : run'[d] = run[d]
       /\ \A y \in Contexts \ {x} : saved'[y] = saved[y]
  BY Zenon, <1>1, <1>2, <1>8 DEF TypeOK
<1>11. TypeOK'
  <2>1. run' \in [CPUS -> Contexts] BY Zenon, <1>2, <1>8 DEF TypeOK, Contexts
  <2>2. saved' \in [Contexts -> BOOLEAN] BY Zenon, <1>1, <1>2, <1>8 DEF TypeOK
  <2> QED BY Zenon, <1>2, <1>8, <1>9, <2>1, <2>2 DEF TypeOK
<1>12. \A d : HeldBy(d)' = HeldBy(d) BY Zenon, <1>8 DEF HeldBy
<1>13. Elsewhere(c) BY Zenon, <1>0, <1>8, <1>9, <1>10, <1>12 DEF Elsewhere
<1>14. c # x /\ c \in Contexts /\ \A d \in CPUS : run[d] # c
  BY Zenon, <1>0, <1>1, <1>2, <1>5 DEF OneCpu, Contexts
<1>15. OneCpu' BY Zenon, <1>2, <1>10, <1>14 DEF OneCpu
<1>16. Needs(c) = {"ptable"} /\ ~inirq[c] BY Zenon, <1>14 DEF IInv, Running, OffOk
<1>17. Follows(c, c)'
  <2>1. Path(c)' = Path(c) BY Zenon, <1>8, <1>9, <1>14 DEF Path
  <2>2. (HeldBy(c) = Needs(c))' BY Zenon, <1>4, <1>12, <1>16, <2>1 DEF Needs
  <2>3. Depth(c)' = Depth(c) BY Zenon, <1>8, <1>12 DEF Depth
  <2> QED BY Zenon, <1>1, <1>3, <1>7, <1>8, <1>16, <2>2, <2>3 DEF Follows
<1>18. OffOk(x)'
  <2>1. Needs(x)' = {"ptable"} BY Zenon, <1>4, <1>9 DEF Needs, Leads
  <2>2. Head(forkret) = rel("ptable") BY DEF forkret
  <2>3. ~Fresh(x) BY Zenon, <1>3, <2>2, StepFacts DEF Fresh, Path
  <2>4. saved'[x] = ~inirq'[x] BY Zenon, <1>1, <1>5, <1>6, <1>8, <1>10, <2>3 DEF Follows
  <2>5. x \notin CPUS BY Zenon, <1>5, CpuAssumption
  <2> QED BY Zenon, <2>1, <2>4, <2>5 DEF OffOk
<1>19. \A y \in Contexts : ~Running(y)' => IF y = x THEN OffOk(y)' ELSE ~Running(y)
  BY Zenon, <1>0, <1>10, <1>18 DEF Running
<1>20. ~panic' /\ OnPath(x)' /\ run'[c] = c BY Zenon, <1>3, <1>8, <1>9, <1>10
<1> QED BY Zenon, <1>0, <1>11, <1>13, <1>15, <1>17, <1>19, <1>20, OneMoves

(* exit's sched() finds ptable.lock alone held too; the slot is left for a thread
   that starts in forkret. *)
LEMMA ZombieStep == ASSUME IInv, Counts, NEW c \in CPUS, Zombie(c) PROVE IInv'
<1>0. PICK x : x = run[c] BY Zenon
<1>1. /\ x \in Contexts /\ Follows(c, x) /\ Leads(Path(x), PathSteps(x), HeldBy(c)) /\ c \notin Threads
  BY Zenon, <1>0, Here
<1>2. TypeOK /\ OneCpu BY Zenon DEF IInv
<1>3. ~panic /\ spin[c] = NoLock /\ Path(x) # << >> /\ Head(Path(x)) = zombie BY Zenon, <1>0 DEF Zombie, At
<1>4. HeldBy(c) = {"ptable"} BY Zenon, <1>1, <1>3, HeadOther
<1>5. x \in Threads
  <2>1. zombie \in PathSteps(x) BY Zenon, <1>1, <1>3, TailLeads
  <2> QED BY Zenon, <1>1, <2>1, PathStepsFacts
<1>6. ncli[c] = 1 /\ ncli[c] > 0
  <2>1. ncli[c] = Cardinality({"ptable"}) BY Zenon, <1>3, <1>4, DepthFacts
  <2>2. Cardinality({"ptable"}) = 1 BY Zenon DEF Counts
  <2> QED BY <2>1, <2>2
<1>7. holder["ptable"] = c /\ ~IF_[c] BY Zenon, <1>1, <1>4, <1>6 DEF HeldBy, Follows
<1>8. /\ run' = [run EXCEPT ![c] = c] /\ todo' = [todo EXCEPT ![x] = forkret]
      /\ inirq' = [inirq EXCEPT ![x] = FALSE] /\ irq' = [irq EXCEPT ![x] = << >>]
      /\ UNCHANGED <<holder, ncli, intena, IF_, spin, saved, panic>>
  BY Zenon, <1>0, <1>6, <1>7 DEF Zombie
<1>9. Leads(forkret, ThreadSteps, {"ptable"}) /\ forkret \in Seq(Steps) /\ << >> \in Seq(Steps)
  <2>1. LockSteps \subseteq ThreadSteps /\ iret \in ThreadSteps /\ ThreadSteps \subseteq Steps
    BY Zenon DEF ThreadSteps, IrqSteps, LockSteps, Steps
  <2>2. Leads(forkret, ThreadSteps, {"ptable"}) BY Zenon, <2>1, ForkretLeads
  <2>3. forkret \in Seq(ThreadSteps) BY Zenon, <2>2, LeadsLocks
  <2>4. forkret \in Seq(Steps) BY <2>1, <2>3
  <2> QED BY Zenon, <2>2, <2>4, EmptyLeads, LeadsLocks
<1>10. /\ run'[c] = c /\ todo'[x] = forkret /\ inirq'[x] = FALSE
       /\ \A d \in CPUS \ {c} : run'[d] = run[d]
       /\ \A y \in Contexts \ {x} : todo'[y] = todo[y] /\ irq'[y] = irq[y] /\ inirq'[y] = inirq[y]
  BY Zenon, <1>1, <1>2, <1>8 DEF TypeOK
<1>11. TypeOK'
  <2>1. run' \in [CPUS -> Contexts] BY Zenon, <1>2, <1>8 DEF TypeOK, Contexts
  <2>2. todo' \in [Contexts -> Seq(Steps)] /\ irq' \in [Contexts -> Seq(Steps)] /\ inirq' \in [Contexts -> BOOLEAN]
    BY Zenon, <1>2, <1>8, <1>9 DEF TypeOK
  <2> QED BY Zenon, <1>2, <1>8, <2>1, <2>2 DEF TypeOK
<1>12. \A d : HeldBy(d)' = HeldBy(d) BY Zenon, <1>8 DEF HeldBy
<1>13. Elsewhere(c) BY Zenon, <1>0, <1>8, <1>10, <1>12 DEF Elsewhere
<1>14. c # x /\ c \in Contexts /\ \A d \in CPUS : run[d] # c
  BY Zenon, <1>0, <1>1, <1>2, <1>5 DEF OneCpu, Contexts
<1>15. OneCpu'
  <2>1. \A d \in CPUS : run'[d] = IF d = c THEN c ELSE run[d] BY Zenon, <1>10
  <2> QED BY Zenon, <1>2, <1>14, <2>1 DEF OneCpu
<1>16. Needs(c) = {"ptable"} /\ ~inirq[c] BY Zenon, <1>14 DEF IInv, Running, OffOk
<1>17. Follows(c, c)'
  <2>1. Path(c)' = Path(c) /\ ~inirq'[c] BY Zenon, <1>8, <1>10, <1>14, <1>16 DEF Path
  <2>2. (HeldBy(c) = Needs(c))' BY Zenon, <1>4, <1>12, <1>16, <2>1 DEF Needs
  <2>3. Depth(c)' = Depth(c) BY Zenon, <1>8, <1>12 DEF Depth
  <2> QED BY Zenon, <1>1, <1>3, <1>7, <1>8, <2>1, <2>2, <2>3 DEF Follows
<1>18. OffOk(x)'
  <2>1. Needs(x)' = {"ptable"} BY Zenon, <1>9, <1>10 DEF Needs, Path, Leads
  <2>2. x \notin CPUS BY Zenon, <1>5, CpuAssumption
  <2> QED BY Zenon, <1>10, <2>1, <2>2 DEF OffOk, Fresh
<1>19. \A y \in Contexts : ~Running(y)' => IF y = x THEN OffOk(y)' ELSE ~Running(y)
  BY Zenon, <1>0, <1>10, <1>18 DEF Running
<1>20. OnPath(x)' BY Zenon, <1>5, <1>9, <1>10 DEF OnPath, Good, Leads, TodoSteps
<1>21. ~panic' /\ run'[c] = c BY Zenon, <1>3, <1>8, <1>10
<1> QED BY Zenon, <1>0, <1>11, <1>13, <1>15, <1>17, <1>19, <1>20, <1>21, OneMoves

(* swtch: the thread that comes back, or starts in forkret, takes over ptable.lock
   from the scheduler and has its own flag again. *)
LEMMA SwtchStep == ASSUME IInv, Counts, NEW c \in CPUS, NEW t \in Threads, Swtch(c, t) PROVE IInv'
<1>0. PICK x : x = run[c] BY Zenon
<1>1. /\ x \in Contexts /\ OnPath(x) /\ Follows(c, x) /\ Leads(Path(x), PathSteps(x), HeldBy(c))
      /\ (x # c => x \in Threads) /\ c \notin Threads
  BY Zenon, <1>0, Here
<1>2. TypeOK /\ OneCpu BY Zenon DEF IInv
<1>3. /\ ~panic /\ spin[c] = NoLock /\ Path(x) # << >> /\ Head(Path(x)) = swtch /\ t \in Ready
      /\ run' = [run EXCEPT ![c] = t] /\ intena' = [intena EXCEPT ![c] = RestoredIntena(c, t)] /\ Advance(x)
      /\ UNCHANGED <<holder, ncli, IF_, spin, inirq, saved, panic>>
  BY Zenon, <1>0 DEF Swtch, At
<1>4. HeldBy(c) = {"ptable"} /\ Leads(Tail(Path(x)), PathSteps(x), {"ptable"}) BY Zenon, <1>1, <1>3, HeadOther
<1>5. x = c /\ ~inirq[x]
  <2>1. swtch \in PathSteps(x) BY Zenon, <1>1, <1>3, TailLeads
  <2> QED BY Zenon, <1>1, <2>1, PathStepsFacts
<1>6. ncli[c] = 1 /\ ncli[c] > 0
  <2>1. ncli[c] = Cardinality({"ptable"}) BY Zenon, <1>3, <1>4, DepthFacts
  <2>2. Cardinality({"ptable"}) = 1 BY Zenon DEF Counts
  <2> QED BY <2>1, <2>2
<1>7. ~IF_[c] BY Zenon, <1>1, <1>6 DEF Follows
<1>8. t \in Contexts /\ t # x /\ (\A d \in CPUS : run[d] # t) /\ OffOk(t)
  <2>1. t \in Contexts /\ \A d \in CPUS : run[d] # t BY Zenon, <1>3 DEF Ready, Contexts
  <2>2. ~Running(t) BY Zenon, <2>1 DEF Running
  <2> QED BY Zenon, <1>0, <2>1, <2>2 DEF IInv
<1>9. /\ Path(x)' = Tail(Path(x)) /\ OnPath(x)'
      /\ todo' \in [Contexts -> Seq(Steps)] /\ irq' \in [Contexts -> Seq(Steps)]
      /\ \A y \in Contexts \ {x} : todo'[y] = todo[y] /\ irq'[y] = irq[y]
  BY Zenon, <1>1, <1>2, <1>3, Advanced
<1>10. intena[c] \in BOOLEAN /\ saved[t] \in BOOLEAN /\ inirq[t] \in BOOLEAN BY Zenon, <1>2, <1>8 DEF TypeOK
<1>11. RestoredIntena(c, t) \in BOOLEAN BY Zenon, <1>10 DEF RestoredIntena
<1>12. /\ run'[c] = t /\ intena'[c] = RestoredIntena(c, t)
       /\ \A d \in CPUS \ {c} : run'[d] = run[d] /\ intena'[d] = intena[d]
  BY Zenon, <1>2, <1>3 DEF TypeOK
<1>13. TypeOK'
  <2>1. run' \in [CPUS -> Contexts] BY Zenon, <1>2, <1>3, <1>8 DEF TypeOK
  <2>2. intena' \in [CPUS -> BOOLEAN] BY Zenon, <1>2, <1>3, <1>11 DEF TypeOK
  <2> QED BY Zenon, <1>2, <1>3, <1>9, <2>1, <2>2 DEF TypeOK
<1>14. \A d : HeldBy(d)' = HeldBy(d) BY Zenon, <1>3 DEF HeldBy
<1>15. Elsewhere(c) BY Zenon, <1>0, <1>3, <1>9, <1>12, <1>14 DEF Elsewhere
<1>16. OneCpu'
  <2>1. \A d \in CPUS : run'[d] = IF d = c THEN t ELSE run[d] BY Zenon, <1>12
  <2>2. \A d \in CPUS : run[d] # t BY Zenon, <1>8
  <2> QED BY Zenon, <1>2, <2>1, <2>2 DEF OneCpu
<1>17. Follows(c, t)'
  <2>1. Path(t)' = Path(t) /\ Fresh(t)' = Fresh(t) BY Zenon, <1>3, <1>8, <1>9 DEF Path, Fresh
  <2>2. (HeldBy(c) = Needs(t))' BY Zenon, <1>4, <1>8, <1>14, <2>1 DEF Needs, OffOk
  <2>3. Depth(c)' = Depth(c) BY Zenon, <1>3, <1>14 DEF Depth
  <2>4. ncli[c] = Depth(c) BY Zenon, <1>1 DEF Follows
  <2>5. inirq[t] => ~RestoredIntena(c, t) BY Zenon, <1>8, <1>10 DEF OffOk, Fresh, RestoredIntena
  <2>6. ~inirq[t] => Fresh(t) \/ RestoredIntena(c, t) BY Zenon, <1>8, <1>10 DEF OffOk, Fresh, RestoredIntena
  <2> QED BY Zenon, <1>3, <1>6, <1>7, <1>12, <2>1, <2>2, <2>3, <2>4, <2>5, <2>6 DEF Follows
<1>18. OffOk(x)'
  <2>1. Needs(x)' = {"ptable"} BY Zenon, <1>4, <1>9 DEF Needs, Leads
  <2> QED BY Zenon, <1>1, <1>3, <1>5, <2>1 DEF OffOk
<1>19. \A y \in Contexts : ~Running(y)' => IF y = x THEN OffOk(y)' ELSE ~Running(y)
  BY Zenon, <1>0, <1>12, <1>18 DEF Running
<1>20. ~panic' /\ OnPath(x)' /\ run'[c] = t BY Zenon, <1>3, <1>9, <1>12
<1> QED BY Zenon, <1>0, <1>13, <1>15, <1>16, <1>17, <1>19, <1>20, OneMoves

-----------------------------------------------------------------------------
(* Theorems *)

(* The first threads are in forkret, and no cpu has started. *)
LEMMA InitOk == ASSUME Counts, Init PROVE IInv
<1>1. << >> \in Seq(Steps) OBVIOUS
<1>2. LockSteps \subseteq ThreadSteps /\ iret \in ThreadSteps BY Zenon DEF ThreadSteps, IrqSteps
<1>3. Leads(forkret, ThreadSteps, {"ptable"}) BY Zenon, <1>2, ForkretLeads
<1>4. forkret \in Seq(Steps)
  <2>1. rel("ptable") \in Steps /\ iret \in Steps BY Zenon DEF Steps, LockNames, Single
  <2> QED BY <2>1 DEF forkret
<1>5. TypeOK
  <2>1. 0 \in Nat OBVIOUS
  <2> QED BY Zenon, <1>1, <1>4, <2>1 DEF Init, TypeOK, Contexts
<1>6. OneCpu /\ ~panic BY Zenon DEF Init, OneCpu
<1>7. \A c \in CPUS : c \in Contexts /\ c \notin Threads /\ todo[c] = << >> /\ ~inirq[c] BY Zenon, CpuAssumption DEF Init, Contexts
<1>8. \A t \in Threads : t \in Contexts /\ t \notin CPUS /\ todo[t] = forkret /\ ~inirq[t] BY Zenon, CpuAssumption DEF Init, Contexts
<1>9. ASSUME NEW x \in Contexts PROVE OnPath(x)
  <2>1. CASE x \in CPUS
    <3>1. Good(<< >>, SchedulerSteps) BY Zenon, EmptyLeads DEF Good, Leads
    <3> QED BY Zenon, <1>7, <2>1, <3>1 DEF OnPath, TodoSteps
  <2>2. CASE x \in Threads
    <3>1. Good(forkret, ThreadSteps) BY Zenon, <1>3 DEF Good, Leads
    <3> QED BY Zenon, <1>8, <2>2, <3>1 DEF OnPath, TodoSteps
  <2> QED BY Zenon, <2>1, <2>2 DEF Contexts
<1>10. ASSUME NEW c \in CPUS PROVE Follows(c, run[c])
  <2>1. run[c] = c /\ ncli[c] = 0 /\ spin[c] = NoLock /\ ~IF_[c] BY Zenon DEF Init
  <2>2. HeldBy(c) = {} BY Zenon, CpuAssumption DEF Init, HeldBy
  <2>3. Owes(<< >>, 1) = {} BY Zenon, EmptyLeads DEF Leads
  <2>4. HeldBy(c) = Needs(c) BY Zenon, <1>7, <2>2, <2>3 DEF Needs, Path
  <2>5. ~(0 > 0) /\ 0 + 0 = 0 OBVIOUS
  <2>9. Cardinality({}) = 0 BY Zenon DEF Counts
  <2>6. ncli[c] = Depth(c) BY Zenon, <2>1, <2>2, <2>5, <2>9 DEF Depth
  <2> QED BY Zenon, <1>7, <2>1, <2>4, <2>5, <2>6 DEF Follows
<1>11. ASSUME NEW x \in Contexts, ~Running(x) PROVE OffOk(x)
  <2>1. x \in Threads BY Zenon, <1>11 DEF Init, Running, Contexts
  <2>2. Needs(x) = {"ptable"} BY Zenon, <1>3, <1>8, <2>1 DEF Needs, Path, Leads
  <2> QED BY Zenon, <1>8, <2>1, <2>2 DEF OffOk, Fresh
<1> QED BY Zenon, <1>5, <1>6, <1>9, <1>10, <1>11 DEF IInv

(* The library's facts about finite sets, which only the counting of locks needs. *)
FST == INSTANCE FiniteSetTheorems

(* Its finite sets and their sizes are the ones of the specification. *)
LEMMA SameSets == \A S : (IsFiniteSet(S) <=> FST!IsFiniteSet(S)) /\ Cardinality(S) = FST!Cardinality(S)
BY DEF IsFiniteSet, Cardinality, FST!IsFiniteSet, FST!Cardinality

(* Sets of locks are finite, and have the sizes that the steps rely on. *)
LEMMA CountsHold == Counts
<1>1. Cardinality({}) = 0 BY Zenon, FST!FS_EmptySet, SameSets
<1>2. Cardinality({"ptable"}) = 1 BY Zenon, FST!FS_Singleton, SameSets
<1>3. ASSUME NEW S \in SUBSET LockNames
      PROVE  /\ Cardinality(S) \in Nat
             /\ Cardinality(S) = 0 => S = {}
             /\ \A l \in S : Cardinality(S \ {l}) = Cardinality(S) - 1
             /\ \A l \in LockNames \ S : Cardinality(S \cup {l}) = Cardinality(S) + 1
  <2>1. IsFiniteSet(S) BY Zenon, CpuAssumption, FST!FS_Subset, SameSets
  <2>2. Cardinality(S) \in Nat BY Zenon, <2>1, FST!FS_CardinalityType, SameSets
  <2>3. Cardinality(S) = 0 => S = {} BY Zenon, <2>1, FST!FS_EmptySet, SameSets
  <2>4. \A l \in S : Cardinality(S \ {l}) = Cardinality(S) - 1 BY Zenon, <2>1, FST!FS_RemoveElement, SameSets
  <2>5. \A l \in LockNames \ S : Cardinality(S \cup {l}) = Cardinality(S) + 1
    BY Zenon, <2>1, FST!FS_AddElement, SameSets
  <2> QED BY Zenon, <2>2, <2>3, <2>4, <2>5
<1> QED BY Zenon, <1>1, <1>2, <1>3 DEF Counts

(* The locks of every cpu are those that the context it runs can be seen to hold
   from what is left of its path, and the interrupt flags follow them, in every
   state of any number of cpus and threads. *)
THEOREM Invariance == Spec => []IInv
<1>1. IInv /\ [Next]_vars => IInv'
  <2> SUFFICES ASSUME IInv, [Next]_vars PROVE IInv' BY Zenon
  <2>0. Counts BY Zenon, CountsHold
  <2>1. ASSUME NEW c \in CPUS, NEW l \in LockNames, AcquireStart(c, l) \/ Acquire(c, l) \/ Release(c, l) PROVE IInv'
    BY Zenon, <2>0, <2>1, AcquireStartStep, AcquireStep, ReleaseStep
  <2>2. ASSUME NEW c \in CPUS, NEW t \in Threads, Swtch(c, t) PROVE IInv' BY Zenon, <2>0, <2>2, SwtchStep
  <2>3. ASSUME NEW c \in CPUS, Sched(c) \/ Zombie(c) PROVE IInv' BY Zenon, <2>0, <2>3, SchedStep, ZombieStep
  <2>7. ASSUME NEW c \in CPUS, Closing(c) \/ Killed(c) PROVE IInv' BY Zenon, <2>0, <2>7, ClosingStep, KilledStep
  <2>4. ASSUME NEW c \in CPUS, Scan(c) \/ Enable(c) \/ Start(c) PROVE IInv'
    BY Zenon, <2>0, <2>4, ScanStep, EnableStep, StartStep
  <2>5. ASSUME NEW c \in CPUS, Interrupt(c) \/ Iret(c) PROVE IInv' BY Zenon, <2>0, <2>5, InterruptStep, IretStep
  <2>6. CASE UNCHANGED vars
    <3> USE <2>6
    <3>1. UNCHANGED <<holder, ncli, intena, IF_, spin, run, todo, inirq, irq, saved, panic>>
      BY Zenon DEF vars, cpuvars, ctxvars
    <3>2. TypeOK' /\ ~panic' /\ OneCpu' BY Zenon, <3>1 DEF IInv, TypeOK, OneCpu
    <3>3. \A x : OnPath(x)' <=> OnPath(x) BY Zenon, <3>1 DEF OnPath, TodoSteps, HandlerSteps
    <3>4. \A c : HeldBy(c)' = HeldBy(c) BY Zenon, <3>1 DEF HeldBy
    <3>5. \A c : Depth(c)' = Depth(c) BY Zenon, <3>1, <3>4 DEF Depth
    <3>6. \A x : Path(x)' = Path(x) /\ (Fresh(x)' <=> Fresh(x)) /\ (Running(x)' <=> Running(x))
      BY Zenon, <3>1 DEF Path, Fresh, Running
    <3>7. \A x : Needs(x)' = Needs(x) BY Zenon, <3>6 DEF Needs
    <3>8. ASSUME NEW c \in CPUS, NEW x, Follows(c, x) PROVE Follows(c, x)'
      BY Zenon, <3>1, <3>4, <3>5, <3>6, <3>7, <3>8 DEF Follows
    <3>9. \A c \in CPUS : Follows(c, run[c])' BY Zenon, <3>1, <3>8 DEF IInv
    <3>10. \A x : OffOk(x) => OffOk(x)' BY Zenon, <3>1, <3>6, <3>7 DEF OffOk
    <3> QED BY Zenon, <3>2, <3>3, <3>6, <3>9, <3>10 DEF IInv
  <2> QED BY Zenon, <2>1, <2>2, <2>3, <2>4, <2>5, <2>6, <2>7 DEF Next
<1>2. Init => IInv BY Zenon, CountsHold, InitOk
<1> QED BY <1>1, <1>2, PTL DEF Spec

(* No check in acquire, release, popcli or sched fails, with any number of cpus
   and threads: in particular a handler never waits for a lock that the code it
   interrupted holds. *)
THEOREM LocksNeverPanic == Spec => []NoLockPanic
<1>1. IInv => NoLockPanic BY Zenon DEF IInv, NoLockPanic
<1> QED BY Invariance, <1>1, PTL

(* A cpu that waits for one lock while it holds another nests them in the order
   of the code. *)
LEMMA WaitsInOrder ==
  ASSUME IInv, NEW d \in CPUS, NEW l \in LockNames, holder[l] = d, spin[d] # NoLock
  PROVE  <<l, spin[d]>> \in Order /\ spin[d] \in LockNames
<1>1. PICK x : x = run[d] BY Zenon
<1>2. Leads(Path(x), PathSteps(x), HeldBy(d)) /\ Follows(d, x) BY Zenon, <1>1, Here
<1>3. spin[d] \in LockNames BY Zenon DEF IInv, TypeOK
<1>4. Path(x) # << >> /\ Head(Path(x)) = acq(spin[d]) BY Zenon, <1>2 DEF Follows
<1>5. After(HeldBy(d), spin[d]) BY Zenon, <1>2, <1>3, <1>4, HeadAcq
<1> QED BY Zenon, <1>3, <1>5 DEF After, HeldBy

(* Cpus that wait for each other in a circle, however many they are, wait for
   ptable.lock and cons.lock: the order of the other locks rules out every other
   deadlock of the spinlocks. *)
THEOREM DeadlocksAreOfOneKind == Spec => []OnlyOneCircle
<1>1. IInv => OnlyOneCircle
  <2> SUFFICES ASSUME IInv, NEW S \in (SUBSET CPUS) \ {{}}, \A c \in S : spin[c] # NoLock,
                      {holder[spin[c]] : c \in S} = S
               PROVE  {spin[c] : c \in S} = {"ptable", "cons"}
    BY Zenon DEF OnlyOneCircle
  <2> DEFINE L == {spin[c] : c \in S}
  <2>1. \A c \in S : spin[c] \in LockNames BY Zenon DEF IInv, TypeOK
  <2>2. ASSUME NEW l \in L PROVE \E m \in L : <<l, m>> \in Order
    <3>1. PICK c \in S : l = spin[c] BY Zenon
    <3>2. holder[l] \in S BY Zenon, <3>1
    <3>3. <<l, spin[holder[l]]>> \in Order
      <4>1. PICK d : d = holder[l] BY Zenon
      <4>2. d \in CPUS /\ spin[d] # NoLock /\ l \in LockNames BY Zenon, <2>1, <3>1, <3>2, <4>1
      <4> QED BY Zenon, <4>1, <4>2, WaitsInOrder
    <3> QED BY Zenon, <3>2, <3>3
  <2>3. ASSUME NEW m \in L PROVE \E l \in L : <<l, m>> \in Order
    <3>1. PICK d \in S : m = spin[d] BY Zenon
    <3>2. PICK c \in S : d = holder[spin[c]] BY Zenon
    <3>3. <<spin[c], m>> \in Order
      <4>1. PICK l : l = spin[c] BY Zenon
      <4>2. l \in LockNames /\ holder[l] = d /\ spin[d] # NoLock BY Zenon, <2>1, <3>2, <4>1
      <4> QED BY Zenon, <3>1, <4>1, <4>2, WaitsInOrder
    <3> QED BY Zenon, <3>3
  <2>4. L # {}
    <3>1. PICK c : c \in S BY Zenon
    <3>2. spin[c] \in L BY Zenon, <3>1
    <3> QED BY Zenon, <3>2
  <2> HIDE DEF L
  <2>5. \A l, m : <<l, m>> \in Order =>
          /\ l # "kmem" /\ m \in {"ptable", "cons", "kmem"}
          /\ l = "ptable" => m \in {"cons", "kmem"}
          /\ l = "cons" => m = "ptable"
    <3>1. "ptable" \notin Waited /\ "kmem" \notin Waited BY CpuAssumption DEF Waited, Single
    <3> QED BY <3>1 DEF Order
  <2>6. \A l \in L : l \in {"ptable", "cons"} BY Zenon, <2>2, <2>3, <2>5
  <2>7. ASSUME "ptable" \in L PROVE "cons" \in L
    <3>1. PICK m \in L : <<"ptable", m>> \in Order BY Zenon, <2>2, <2>7
    <3>2. m \in {"cons", "kmem"} /\ m \in {"ptable", "cons"} BY Zenon, <2>5, <2>6, <3>1
    <3> QED BY <3>1, <3>2
  <2>8. ASSUME "cons" \in L PROVE "ptable" \in L
    <3>1. PICK m \in L : <<"cons", m>> \in Order BY Zenon, <2>2, <2>8
    <3> QED BY Zenon, <2>5, <3>1
  <2>9. L = {"ptable", "cons"} BY Zenon, <2>4, <2>6, <2>7, <2>8
  <2> QED BY Zenon, <2>9 DEF L
<1> QED BY Invariance, <1>1, PTL

(* pushcli and popcli keep the interrupts off exactly as long as a cpu holds or
   waits for a lock or runs a handler, across context switches between any
   number of cpus and threads. *)
THEOREM InterruptsFollowLocks == Spec => []InterruptDiscipline
<1>1. IInv => InterruptDiscipline
  <2> SUFFICES ASSUME IInv, NEW c \in CPUS, NEW x, x = run[c]
               PROVE  /\ ncli[c] = Cardinality({l \in LockNames : holder[l] = c}) + (IF spin[c] = NoLock THEN 0 ELSE 1)
                      /\ ncli[c] > 0 \/ inirq[x] => ~IF_[c]
                      /\ x \in Threads /\ ncli[c] = 0 /\ ~inirq[x] /\ todo[x] # <<iret>> => IF_[c]
    BY Zenon DEF InterruptDiscipline
  <2>1. Follows(c, x) /\ HeldBy(c) \subseteq LockNames /\ ncli[c] \in Nat BY Zenon, Here
  <2>2. HeldBy(c) = {l \in LockNames : holder[l] = c} BY Zenon DEF HeldBy
  <2>3. ncli[c] = 0 => ~(ncli[c] > 0) BY <2>1
  <2> QED BY Zenon, <2>1, <2>2, <2>3 DEF Follows, Depth
<1> QED BY Invariance, <1>1, PTL
=============================================================================
