------------------------------- MODULE Basics -------------------------------
(***************************************************************************)
(* Facts that several proofs use: what the operators on sequences return,  *)
(* and \div and % with a divisor that is not a numeral (pages, words and   *)
(* screen rows of any size).                                               *)
(***************************************************************************)
EXTENDS Integers, Sequences, TLAPS

(* The empty sequence is the only one of length 0.                            *)
LEMMA EmptySeqFacts ==
  ASSUME NEW S
  PROVE  /\ << >> \in Seq(S) /\ Len(<< >>) = 0
         /\ \A s \in Seq(S) : s # << >> => Len(s) \in Nat \ {0}
OBVIOUS

(* Sequences of the same length with the same elements are equal.             *)
LEMMA SameSeq ==
  ASSUME NEW S, NEW s \in Seq(S), NEW t \in Seq(S),
         Len(s) = Len(t), \A i \in 1 .. Len(s) : s[i] = t[i]
  PROVE  s = t
OBVIOUS

(* A sequence with one more element at its end.                               *)
LEMMA AppendFacts ==
  ASSUME NEW S, NEW s \in Seq(S), NEW x \in S
  PROVE  /\ Append(s, x) \in Seq(S) /\ Len(Append(s, x)) = Len(s) + 1
         /\ \A i \in 1 .. Len(s) : Append(s, x)[i] = s[i]
         /\ Append(s, x)[Len(s) + 1] = x
OBVIOUS

(* A sequence without its first element.                                      *)
LEMMA TailFacts ==
  ASSUME NEW S, NEW s \in Seq(S), s # << >>
  PROVE  /\ Head(s) \in S /\ Tail(s) \in Seq(S) /\ Len(Tail(s)) = Len(s) - 1
         /\ \A i \in 1 .. Len(Tail(s)) : Tail(s)[i] = s[i + 1]
OBVIOUS

(* Two sequences one after the other.                                         *)
LEMMA ConcatFacts ==
  ASSUME NEW S, NEW s \in Seq(S), NEW t \in Seq(S)
  PROVE  /\ s \o t \in Seq(S) /\ Len(s \o t) = Len(s) + Len(t)
         /\ \A i \in 1 .. Len(s) + Len(t) :
              (s \o t)[i] = IF i <= Len(s) THEN s[i] ELSE t[i - Len(s)]
OBVIOUS

(* A piece of a sequence.                                                     *)
LEMMA SubSeqFacts ==
  ASSUME NEW S, NEW s, NEW m \in Int, NEW n \in Int, \A i \in m .. n : s[i] \in S
  PROVE  /\ SubSeq(s, m, n) \in Seq(S) /\ Len(SubSeq(s, m, n)) = IF m <= n THEN n - m + 1 ELSE 0
         /\ \A i \in 1 .. n - m + 1 : SubSeq(s, m, n)[i] = s[m + i - 1]
OBVIOUS

(* Quotient and remainder give the number back.                               *)
LEMMA Euclid ==
  ASSUME NEW x \in Int, NEW w \in Nat \ {0}
  PROVE  w * (x \div w) + (x % w) = x
OBVIOUS

(* A number between two neighbouring multiples has the lower one as its floor. *)
LEMMA DivIsUnique ==
  ASSUME NEW x \in Int, NEW w \in Nat \ {0}, NEW q \in Int, w * q <= x, x < w * q + w
  PROVE  x \div w = q /\ x % w = x - w * q
OBVIOUS

(* A remainder is below the divisor and not above the number.                 *)
LEMMA ModRange ==
  ASSUME NEW x \in Nat, NEW w \in Nat \ {0}
  PROVE  x % w \in 0 .. w - 1 /\ x % w <= x
<1>1. x % w \in 0 .. w - 1 OBVIOUS
<1>2. x < w => x % w = x OBVIOUS
<1> QED BY <1>1, <1>2

(* Rounding down (a & ~3, PGROUNDDOWN) gives a multiple.                      *)
LEMMA RoundedIsMultiple ==
  ASSUME NEW x \in Int, NEW w \in Nat \ {0}
  PROVE  (x - (x % w)) % w = 0
OBVIOUS

(* The addresses of the last page but one below an aligned size.              *)
LEMMA SecondLastPage ==
  ASSUME NEW x \in Int, NEW w \in Nat \ {0}, NEW a \in Int,
         x % w = 0, (x - w) - w <= a, a < x - w
  PROVE  a \div w = x \div w - 2
<1> DEFINE s == x \div w
<1>1. s \in Int /\ s - 2 \in Int OBVIOUS
<1>2. w * s = x BY Euclid
<1> HIDE DEF s
<1>3. w * (s - 2) = (x - w) - w BY <1>1, <1>2
<1>4. a \div w = s - 2 BY <1>1, <1>3, DivIsUnique
<1> QED BY <1>4 DEF s

(* One page below a page boundary is a page boundary.                         *)
LEMMA PageBefore ==
  ASSUME NEW x \in Int, NEW w \in Nat \ {0}, x % w = 0
  PROVE  (x - w) % w = 0
<1> DEFINE s == x \div w
<1>1. s \in Int /\ s - 1 \in Int OBVIOUS
<1>2. w * s = x BY Euclid
<1> HIDE DEF s
<1> DEFINE q == s - 1
           y == x - w
<1>3. w * q = y BY <1>1, <1>2
<1>4. y \in Int /\ q \in Int BY <1>1
<1> HIDE DEF q, y
<1>5. w * q <= y /\ y < w * q + w BY <1>3, <1>4
<1>6. y % w = y - w * q BY Zenon, <1>4, <1>5, DivIsUnique
<1>7. y % w = 0 BY <1>3, <1>4, <1>6
<1> QED BY Zenon, <1>7 DEF y

(* Going on to the end of a page does not cross a page boundary above it.     *)
LEMMA PageEnd ==
  ASSUME NEW x \in Int, NEW w \in Nat \ {0}, NEW a \in Int, x % w = 0, a < x
  PROVE  a + (w - (a % w)) <= x
<1> DEFINE q == a \div w
           s == x \div w
<1>1. q \in Int /\ s \in Int /\ a % w \in 0 .. w - 1 OBVIOUS
<1>2. w * q + (a % w) = a /\ w * s = x BY Euclid
<1> HIDE DEF q, s
<1>3. w * q < w * s BY <1>1, <1>2
<1>4. q < s BY <1>1, <1>3
<1>5. w * (q + 1) <= w * s BY <1>1, <1>4
<1>6. w * (q + 1) = w * q + w BY <1>1
<1> QED BY <1>1, <1>2, <1>5, <1>6

(* The next row, from a row that is shown, starts at the last one at most.    *)
LEMMA RowEnd ==
  ASSUME NEW x \in Nat, NEW w \in Nat \ {0}, NEW s \in Nat, x < s * w
  PROVE  x + w - (x % w) <= s * w
<1> DEFINE q == x \div w
<1>1. q \in Int /\ x % w \in 0 .. w - 1 OBVIOUS
<1>2. w * q + (x % w) = x BY Euclid
<1> HIDE DEF q
<1>3. w * q < w * s BY <1>1, <1>2
<1>4. q < s BY <1>1, <1>3
<1>5. w * (q + 1) <= w * s BY <1>1, <1>4
<1>6. w * (q + 1) = w * q + w BY <1>1
<1> QED BY <1>1, <1>2, <1>5, <1>6

(* Indices less than a ring's size apart are different cells, also when the   *)
(* counter, a multiple of the size, wraps between them.                       *)
LEMMA CellsDiffer ==
  ASSUME NEW N \in Nat \ {0}, NEW W \in Nat, W % N = 0, NEW x \in Int, NEW y \in Int,
         NEW d \in 1 .. N - 1, y - x = d \/ y - x = d - W
  PROVE  x % N # y % N
<1> SUFFICES ASSUME x % N = y % N PROVE FALSE OBVIOUS
<1> DEFINE a == x \div N
           b == y \div N
           c == W \div N
           m == x % N
<1>1. a \in Int /\ b \in Int /\ c \in Int /\ m \in Int OBVIOUS
<1>2. N * a + m = x /\ N * b + m = y /\ N * c = W BY Euclid
<1> HIDE DEF a, b, c, m
<1>3. N * (b - a) = d \/ N * (b - a + c) = d
  <2>1. N * (b - a) = N * b - N * a /\ N * (b - a + c) = N * b - N * a + N * c BY <1>1
  <2> QED BY <1>1, <1>2, <2>1
<1>4. ASSUME NEW k \in Int, N * k = d PROVE FALSE
  <2>1. CASE k <= 0
    <3>1. N * k <= 0 BY <2>1
    <3> QED BY <3>1, <1>4
  <2>2. CASE k >= 1
    <3>1. N * k >= N BY <2>2
    <3> QED BY <3>1, <1>4
  <2> QED BY <2>1, <2>2
<1> QED BY <1>1, <1>3, <1>4

(* An index and the same index a wrap later name the same cell.               *)
LEMMA SameCell ==
  ASSUME NEW N \in Nat \ {0}, NEW W \in Nat, W % N = 0, NEW x \in Int
  PROVE  (x + W) % N = x % N
<1> DEFINE q == x \div N
           s == W \div N
           m == x % N
<1>1. q \in Int /\ s \in Int /\ m \in 0 .. N - 1 OBVIOUS
<1>2. N * q + m = x BY Euclid
<1>3. N * s = W
  <2>1. N * s + (W % N) = W BY Euclid
  <2> QED BY <2>1, <1>1
<1> HIDE DEF q, s, m
<1>4. q + s \in Int /\ N * (q + s) = N * q + N * s BY <1>1
<1>5. (x + W) - N * (q + s) = m BY <1>4, <1>1, <1>2, <1>3
<1>6. N * (q + s) \in Int BY <1>4
<1>7. N * (q + s) <= x + W /\ x + W < N * (q + s) + N BY <1>5, <1>6, <1>1
<1> DEFINE y == x + W
           p == q + s
<1>8. y \in Int /\ p \in Int /\ N * p <= y /\ y < N * p + N BY <1>4, <1>7
<1> HIDE DEF y, p
<1>9. y % N = y - N * p BY Zenon, <1>8, DivIsUnique
<1>10. y - N * p = m BY Zenon, <1>5 DEF y, p
<1>11. y % N = x % N BY Zenon, <1>9, <1>10 DEF m
<1> QED BY Zenon, <1>11 DEF y

(* Counting modulo w, from within one wrap on either side.                    *)
LEMMA WrapOnce ==
  ASSUME NEW z \in Int, NEW w \in Nat \ {0}
  PROVE  /\ 0 <= z /\ z < w => z % w = z
         /\ w <= z /\ z < w + w => z % w = z - w
         /\ z < 0 /\ z + w >= 0 => z % w = z + w
<1>1. \A q \in Int : w * q <= z /\ z < w * q + w => z % w = z - w * q BY DivIsUnique
<1> DEFINE m == z % w
<1>2. \A q \in Int : w * q <= z /\ z < w * q + w => m = z - w * q BY <1>1
<1> HIDE DEF m
<1>3. 0 <= z /\ z < w => m = z
  <2>1. w * 0 <= z /\ z < w * 0 + w => m = z - w * 0 BY <1>2
  <2> QED BY <2>1
<1>4. w <= z /\ z < w + w => m = z - w
  <2>1. 1 \in Int OBVIOUS
  <2>2. w * 1 <= z /\ z < w * 1 + w => m = z - w * 1 BY ONLY <1>2, <2>1, Zenon
  <2> QED BY <2>2
<1>5. z < 0 /\ z + w >= 0 => m = z + w
  <2>1. -1 \in Int OBVIOUS
  <2>2. w * (-1) <= z /\ z < w * (-1) + w => m = z - w * (-1) BY <1>2, <2>1
  <2> QED BY <2>2
<1> QED BY <1>3, <1>4, <1>5 DEF m
=============================================================================
