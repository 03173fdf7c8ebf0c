--------------------------- MODULE Hydration_proofs ---------------------------
(***************************************************************************)
(* The theorems about the hand-over of a tree: what Mirror promises of the *)
(* two threads, and that the diff of two lists of siblings, on which       *)
(* hydration is built, is right for lists of any length.                   *)
(*                                                                         *)
(* The diff is proved in three parts: what diffArrayLepus finds (MatchInv),*)
(* what diffArrayAction has done of it (ActInv), and what a native list    *)
(* that is told positions only makes of it (FilledTo).                     *)
(***************************************************************************)
EXTENDS DiffArray, SequenceTheorems, FiniteSetTheorems, TLAPS

\* The matches that keep their order.
kept == matches \ diffM
Precedes(s, x, y) == \E p, q \in DOMAIN s : p < q /\ s[p] = x /\ s[q] = y
Distinct(s) == \A p, q \in DOMAIN s : s[p] = s[q] => p = q

MatchTypes ==
  /\ before \in Seq(Nodes) /\ after \in Seq(Nodes) /\ phase \in {"match", "act", "done"}
  /\ next \in 1..(Len(after) + 1) /\ lastPlaced \in Nat
  /\ unmatched \subseteq DOMAIN before /\ diffI \subseteq 1..(next - 1)
  /\ matches \subseteq (DOMAIN before) \X (1..(next - 1)) /\ diffM \subseteq matches
\* Every old position is matched once or left over, every new one matched once or inserted.
MatchedOnce ==
  /\ \A m, p \in matches : m[1] = p[1] \/ m[2] = p[2] => m = p
  /\ \A b \in DOMAIN before : b \in unmatched <=> \A m \in matches : m[1] # b
  /\ \A n \in 1..(next - 1) : n \in diffI <=> \A m \in matches : m[2] # n
  /\ \A m \in matches : before[m[1]] = after[m[2]]
\* A match is moved if it would come behind one that keeps its place.
KeptInOrder ==
  /\ \A m, p \in kept : m[2] < p[2] => m[1] < p[1]
  /\ \A m \in kept : m[1] <= lastPlaced
  /\ lastPlaced = 1 \/ \E m \in kept : m[1] = lastPlaced
  /\ \A m \in diffM : \E p \in kept : p[2] < m[2] /\ m[1] < p[1]
MatchInv == MatchTypes /\ MatchedOnce /\ KeptInOrder /\ (phase # "match" => next = Len(after) + 1)

\* What the walk has passed in one list it has passed in the other.
WalkInStep ==
  /\ i \in 1..(Len(after) + 1) /\ j \in 1..(Len(before) + 1)
  /\ moveTemp = {<<m[2], m[1]>> : m \in {p \in diffM : p[1] < j}}
  /\ \A m \in kept : m[1] < j <=> m[2] < i
  /\ \A m \in diffM : m[2] < i => m[1] < j
ToInsert == {n \in diffI : i <= n}
ToMove == {m \in moveTemp : i <= m[1]}
RemainCounted == remain = Cardinality(ToInsert) + Cardinality(ToMove)
Returned == result = [n \in 1..(i - 1) |-> Wanted(n)]

Placed == {Wanted(n) : n \in 1..(i - 1)}
Waiting == {m[2] : m \in ToMove}
Ahead == j..Len(before)
ChildrenAre ==
  /\ children \in Seq(Int) /\ Distinct(children)
  /\ ToSet(children) = Placed \cup Waiting \cup Ahead
ChildrenInOrder ==
  /\ \A n, m \in 1..(i - 1) : n < m => Precedes(children, Wanted(n), Wanted(m))
  /\ \A x \in Placed \cup Waiting, b \in Ahead : Precedes(children, x, b)
  /\ \A b, c \in Ahead : b < c => Precedes(children, b, c)
ActInv == WalkInStep /\ RemainCounted /\ Returned /\ ChildrenAre /\ ChildrenInOrder

Finished == children = [n \in DOMAIN after |-> Wanted(n)] /\ result = children
Untouched ==
  /\ i = 1 /\ j = 1 /\ moveTemp = {} /\ remain = 0 /\ result = <<>>
  /\ children = [b \in DOMAIN before |-> b]

DiffInv ==
  /\ MatchInv
  /\ phase = "match" => Untouched
  /\ phase = "act" => ActInv
  /\ phase = "done" => Finished
SameInv ==
  before = after => 
   /\ matches = {<<n, n>> : n \in 1..(next - 1)} /\ unmatched = next..Len(before)
   /\ diffI = {} /\ diffM = {} /\ lastPlaced = (IF next = 1 THEN 1 ELSE next - 1)

-----------------------------------------------------------------------------
(* Sequences without repetitions and their order *)

LEMMA RemovedAt ==
  ASSUME NEW S, NEW q \in Seq(S), NEW k \in 1..Len(q)
  PROVE  /\ RemoveAt(q, k) \in Seq(S) /\ Len(RemoveAt(q, k)) = Len(q) - 1
         /\ \A n \in 1..(Len(q) - 1) : RemoveAt(q, k)[n] = IF n < k THEN q[n] ELSE q[n + 1]
<1>. DEFINE a == SubSeq(q, 1, k - 1)
            b == SubSeq(q, k + 1, Len(q))
<1>1. a \in Seq(S) /\ Len(a) = k - 1 /\ \A n \in 1..(k - 1) : a[n] = q[n]
  OBVIOUS
<1>2. b \in Seq(S) /\ Len(b) = Len(q) - k /\ \A n \in 1..(Len(q) - k) : b[n] = q[k + n]
  OBVIOUS
<1>3. RemoveAt(q, k) = a \o b
  BY DEF RemoveAt
<1>4. Len(q) \in Nat /\ k \in 1..Len(q)
  OBVIOUS
<1>. HIDE DEF a, b
<1>5. /\ a \o b \in Seq(S) /\ Len(a \o b) = Len(a) + Len(b)
      /\ \A n \in 1..(Len(a) + Len(b)) :
           (a \o b)[n] = IF n <= Len(a) THEN a[n] ELSE b[n - Len(a)]
  BY <1>1, <1>2, ConcatProperties
<1>. QED
  BY <1>1, <1>2, <1>3, <1>4, <1>5

LEMMA InsertedAt ==
  ASSUME NEW S, NEW q \in Seq(S), NEW k \in 1..(Len(q) + 1), NEW x \in S
  PROVE  /\ InsertAt(q, k, x) \in Seq(S) /\ Len(InsertAt(q, k, x)) = Len(q) + 1
         /\ \A n \in 1..(Len(q) + 1) :
              InsertAt(q, k, x)[n] = IF n < k THEN q[n] ELSE IF n = k THEN x ELSE q[n - 1]
<1>. DEFINE a == SubSeq(q, 1, k - 1)
            b == SubSeq(q, k, Len(q))
            c == a \o <<x>>
<1>1. a \in Seq(S) /\ Len(a) = k - 1 /\ \A n \in 1..(k - 1) : a[n] = q[n]
  OBVIOUS
<1>2. b \in Seq(S) /\ Len(b) = Len(q) + 1 - k /\ \A n \in 1..(Len(q) + 1 - k) : b[n] = q[k + n - 1]
  OBVIOUS
<1>3. InsertAt(q, k, x) = c \o b
  BY DEF InsertAt
<1>4. Len(q) \in Nat /\ k \in 1..(Len(q) + 1)
  OBVIOUS
<1>. HIDE DEF a, b
<1>6. c = Append(a, x)
  BY <1>1
<1>. HIDE DEF c
<1>7. c \in Seq(S) /\ Len(c) = k /\ \A n \in 1..k : c[n] = IF n < k THEN q[n] ELSE x
  BY <1>1, <1>4, <1>6
<1>8. /\ c \o b \in Seq(S) /\ Len(c \o b) = Len(c) + Len(b)
      /\ \A n \in 1..(Len(c) + Len(b)) :
           (c \o b)[n] = IF n <= Len(c) THEN c[n] ELSE b[n - Len(c)]
  BY <1>2, <1>7, ConcatProperties
<1>. QED
  BY <1>2, <1>3, <1>4, <1>7, <1>8

\* A sequence t without x, and u which has x at the place p.
LEMMA OneMore ==
  ASSUME NEW S, NEW t \in Seq(S), NEW x, x \notin ToSet(t), Distinct(t),
         NEW p \in 1..(Len(t) + 1), NEW u \in Seq(S), Len(u) = Len(t) + 1,
         \A n \in 1..(Len(t) + 1) :
           u[n] = IF n < p THEN t[n] ELSE IF n = p THEN x ELSE t[n - 1]
  PROVE  /\ Distinct(u) /\ ToSet(u) = ToSet(t) \cup {x}
         /\ \A a, b : a # x /\ b # x => (Precedes(u, a, b) <=> Precedes(t, a, b))
         /\ \A n \in 1..Len(t) : (n < p => Precedes(u, t[n], x)) /\ (p <= n => Precedes(u, x, t[n]))
<1>. DEFINE f == [n \in 1..Len(t) |-> IF n < p THEN n ELSE n + 1]
<1>1. DOMAIN t = 1..Len(t) /\ DOMAIN u = 1..Len(u) /\ Len(t) \in Nat
  OBVIOUS
<1>2. f \in [1..Len(t) -> 1..Len(u)]
  BY <1>1
<1>3. \A n \in 1..Len(t) : u[f[n]] = t[n]
  BY <1>1
<1>4. \A m \in 1..Len(u) : m # p => \E n \in 1..Len(t) : f[n] = m
  <2>1. ASSUME NEW m \in 1..Len(u), m # p PROVE \E n \in 1..Len(t) : f[n] = m
    <3>1. CASE m < p
      <4>1. m \in 1..Len(t) /\ f[m] = m
        BY <1>1, <3>1
      <4>. QED
        BY <4>1
    <3>2. CASE m > p
      <4>1. m - 1 \in 1..Len(t) /\ f[m - 1] = m
        BY <1>1, <3>2
      <4>. QED
        BY <4>1
    <3>. QED
      BY <1>1, <2>1, <3>1, <3>2
  <2>. QED
    BY <2>1
<1>5. \A n, m \in 1..Len(t) : n < m <=> f[n] < f[m]
  BY <1>1
<1>6. u[p] = x /\ p \in 1..Len(u)
  BY <1>1
<1>7. \A n \in 1..Len(t) : (n < p => f[n] < p) /\ (p <= n => p < f[n])
  BY <1>1
<1>. HIDE DEF f
<1>12. \A n \in 1..Len(t) : f[n] \in 1..Len(u)
  BY <1>2
<1>13. \A n \in 1..Len(t) : t[n] # x
  BY <1>1 DEF ToSet
<1>14. \A n, m \in 1..Len(t) : t[n] = t[m] => n = m
  BY <1>1 DEF Distinct
<1>15. ASSUME NEW n \in 1..Len(u), NEW m \in 1..Len(u), u[n] = u[m] PROVE n = m
  <2>1. \A k \in 1..Len(u) : k # p => u[k] # x /\ \E l \in 1..Len(t) : f[l] = k /\ t[l] = u[k]
    <3>1. ASSUME NEW k \in 1..Len(u), k # p
          PROVE  u[k] # x /\ \E l \in 1..Len(t) : f[l] = k /\ t[l] = u[k]
      <4>1. PICK l \in 1..Len(t) : f[l] = k
        BY <1>4, <3>1
      <4>2. t[l] = u[k] /\ t[l] # x
        BY <1>3, <1>13, <4>1
      <4>. QED
        BY <4>1, <4>2
    <3>. QED
      BY <3>1
  <2>2. CASE n = p \/ m = p
    BY <1>6, <1>15, <2>1, <2>2
  <2>3. CASE n # p /\ m # p
    <3>1. PICK k \in 1..Len(t) : f[k] = n /\ t[k] = u[n]
      BY <2>1, <2>3
    <3>2. PICK l \in 1..Len(t) : f[l] = m /\ t[l] = u[m]
      BY <2>1, <2>3
    <3>3. k = l
      BY <1>14, <1>15, <3>1, <3>2
    <3>. QED
      BY <3>1, <3>2, <3>3
  <2>. QED
    BY <2>2, <2>3
<1>16. Distinct(u)
  BY <1>1, <1>15 DEF Distinct
<1>17. ASSUME NEW y \in ToSet(u) PROVE y \in ToSet(t) \cup {x}
  <2>1. PICK m \in 1..Len(u) : u[m] = y
    BY <1>1 DEF ToSet
  <2>2. CASE m # p
    <3>1. PICK n \in 1..Len(t) : f[n] = m
      BY <1>4, <2>2
    <3>2. t[n] = y
      BY <1>3, <2>1, <3>1
    <3>. QED
      BY <1>1, <3>2 DEF ToSet
  <2>. QED
    BY <1>6, <2>1, <2>2
<1>18. ASSUME NEW y \in ToSet(t) \cup {x} PROVE y \in ToSet(u)
  BY <1>1, <1>3, <1>6, <1>12, <1>18 DEF ToSet
<1>19. ASSUME NEW a, NEW b, a # x, b # x, Precedes(u, a, b) PROVE Precedes(t, a, b)
  <2>1. PICK n, m \in 1..Len(u) : n < m /\ u[n] = a /\ u[m] = b
    BY <1>1, <1>19 DEF Precedes
  <2>2. PICK k \in 1..Len(t) : f[k] = n
    BY <1>4, <1>6, <1>19, <2>1
  <2>3. PICK l \in 1..Len(t) : f[l] = m
    BY <1>4, <1>6, <1>19, <2>1
  <2>4. k < l /\ t[k] = a /\ t[l] = b
    BY <1>3, <1>5, <2>1, <2>2, <2>3
  <2>. QED
    BY <1>1, <2>4 DEF Precedes
<1>20. ASSUME NEW a, NEW b, Precedes(t, a, b) PROVE Precedes(u, a, b)
  <2>1. PICK n, m \in 1..Len(t) : n < m /\ t[n] = a /\ t[m] = b
    BY <1>1, <1>20 DEF Precedes
  <2>2. f[n] \in 1..Len(u) /\ f[m] \in 1..Len(u) /\ f[n] < f[m] /\ u[f[n]] = a /\ u[f[m]] = b
    BY <1>3, <1>5, <1>12, <2>1
  <2>. QED
    BY <1>1, <2>2 DEF Precedes
<1>9. ASSUME NEW n \in 1..Len(t)
      PROVE  (n < p => Precedes(u, t[n], x)) /\ (p <= n => Precedes(u, x, t[n]))
  <2>1. f[n] \in DOMAIN u /\ u[f[n]] = t[n] /\ p \in DOMAIN u
    BY <1>1, <1>2, <1>3, <1>6
  <2>2. (n < p => f[n] < p) /\ (p <= n => p < f[n])
    BY <1>7
  <2>. QED
    BY <2>1, <2>2, <1>6 DEF Precedes
<1>. QED
  BY <1>9, <1>16, <1>17, <1>18, <1>19, <1>20

LEMMA WithoutFacts ==
  ASSUME NEW S, NEW s \in Seq(S), Distinct(s), NEW x
  PROVE  /\ Without(s, x) \in Seq(S) /\ Distinct(Without(s, x))
         /\ ToSet(Without(s, x)) = ToSet(s) \ {x}
         /\ \A a, b : a # x /\ b # x => (Precedes(Without(s, x), a, b) <=> Precedes(s, a, b))
<1>1. CASE x \notin ToSet(s)
  BY <1>1 DEF Without
<1>2. CASE x \in ToSet(s)
  <2>. DEFINE k == CHOOSE p \in DOMAIN s : s[p] = x
              t == RemoveAt(s, k)
  <2>1. k \in 1..Len(s) /\ s[k] = x /\ Len(s) \in Nat /\ DOMAIN s = 1..Len(s)
    BY <1>2 DEF ToSet
  <2>2. Without(s, x) = t
    BY <1>2 DEF Without
  <2>. HIDE DEF k
  <2>3. /\ t \in Seq(S) /\ Len(t) = Len(s) - 1
        /\ \A n \in 1..(Len(s) - 1) : t[n] = IF n < k THEN s[n] ELSE s[n + 1]
    BY <2>1, RemovedAt
  <2>. HIDE DEF t
  <2>4. Distinct(t) /\ x \notin ToSet(t)
    <3>1. DOMAIN t = 1..(Len(s) - 1)
      BY <2>1, <2>3
    <3>2. \A n \in 1..(Len(s) - 1) : \E m \in 1..Len(s) :
            m # k /\ t[n] = s[m] /\ m = IF n < k THEN n ELSE n + 1
      BY <2>1, <2>3
    <3>3. \A n, m \in 1..Len(s) : s[n] = s[m] => n = m
      BY <2>1 DEF Distinct
    <3>4. x \notin ToSet(t)
      BY <2>1, <3>1, <3>2, <3>3 DEF ToSet
    <3>5. ASSUME NEW n \in 1..(Len(s) - 1), NEW m \in 1..(Len(s) - 1), t[n] = t[m] PROVE n = m
      BY <2>1, <3>2, <3>3, <3>5
    <3>. QED
      BY <3>1, <3>4, <3>5 DEF Distinct
  <2>5. /\ k \in 1..(Len(t) + 1) /\ Len(s) = Len(t) + 1 /\ x \in S
        /\ \A n \in 1..(Len(t) + 1) : s[n] = IF n < k THEN t[n] ELSE IF n = k THEN x ELSE t[n - 1]
    BY <2>1, <2>3
  <2>6. /\ ToSet(s) = ToSet(t) \cup {x}
        /\ \A a, b : a # x /\ b # x => (Precedes(s, a, b) <=> Precedes(t, a, b))
    BY <2>3, <2>4, <2>5, OneMore
  <2>. QED
    BY <2>2, <2>3, <2>4, <2>6
<1>. QED
  BY <1>1, <1>2

LEMMA PlacedFacts ==
  ASSUME NEW S, NEW s \in Seq(S), Distinct(s), NEW x \in S, NEW y, y # x
  PROVE  LET r == InsertedBefore(s, x, y)
         IN  /\ r \in Seq(S) /\ Distinct(r) /\ ToSet(r) = ToSet(s) \cup {x}
             /\ \A a, b : a # x /\ b # x => (Precedes(r, a, b) <=> Precedes(s, a, b))
             /\ y \in ToSet(s) =>
                  /\ Precedes(r, x, y)
                  /\ \A a : a # x => /\ Precedes(s, a, y) => Precedes(r, a, x)
                                     /\ Precedes(s, y, a) => Precedes(r, x, a)
             /\ y \notin ToSet(s) => \A a \in ToSet(s) : a # x => Precedes(r, a, x)
<1>. DEFINE t == Without(s, x)
            r == InsertedBefore(s, x, y)
<1>1. /\ t \in Seq(S) /\ Distinct(t) /\ ToSet(t) = ToSet(s) \ {x}
      /\ \A a, b : a # x /\ b # x => (Precedes(t, a, b) <=> Precedes(s, a, b))
  BY WithoutFacts
<1>2. r = IF y \in ToSet(t) THEN InsertAt(t, CHOOSE p \in DOMAIN t : t[p] = y, x) ELSE Append(t, x)
  BY DEF InsertedBefore
<1>. HIDE DEF t, r
<1>3. DOMAIN t = 1..Len(t) /\ Len(t) \in Nat
  BY <1>1
<1>4. CASE y \in ToSet(s)
  <2>. DEFINE p == CHOOSE p \in DOMAIN t : t[p] = y
  <2>1. p \in 1..Len(t) /\ t[p] = y
    BY <1>1, <1>3, <1>4 DEF ToSet
  <2>2. r = InsertAt(t, p, x)
    BY <1>1, <1>2, <1>4
  <2>. HIDE DEF p
  <2>3. /\ r \in Seq(S) /\ Len(r) = Len(t) + 1 /\ p \in 1..(Len(t) + 1)
        /\ \A n \in 1..(Len(t) + 1) : r[n] = IF n < p THEN t[n] ELSE IF n = p THEN x ELSE t[n - 1]
    <3>1. p \in 1..(Len(t) + 1)
      BY <1>3, <2>1
    <3>. QED
      BY <1>1, <2>2, <3>1, InsertedAt, SMTT(30)
  <2>4. x \notin ToSet(t)
    BY <1>1
  <2>5. /\ Distinct(r) /\ ToSet(r) = ToSet(t) \cup {x}
        /\ \A a, b : a # x /\ b # x => (Precedes(r, a, b) <=> Precedes(t, a, b))
        /\ \A n \in 1..Len(t) : (n < p => Precedes(r, t[n], x)) /\ (p <= n => Precedes(r, x, t[n]))
    BY <1>1, <2>3, <2>4, OneMore
  <2>6. Precedes(r, x, y)
    BY <1>3, <2>1, <2>5
  <2>7. ASSUME NEW a, a # x, Precedes(s, a, y) PROVE Precedes(r, a, x)
    <3>1. PICK n, m \in 1..Len(t) : n < m /\ t[n] = a /\ t[m] = y
      <4>1. Precedes(t, a, y)
        BY <1>1, <2>7
      <4>. QED
        BY <1>3, <4>1 DEF Precedes
    <3>2. m = p
      BY <1>1, <1>3, <2>1, <3>1 DEF Distinct
    <3>. QED
      BY <2>5, <3>1, <3>2
  <2>8. ASSUME NEW a, a # x, Precedes(s, y, a) PROVE Precedes(r, x, a)
    <3>1. PICK n, m \in 1..Len(t) : n < m /\ t[n] = y /\ t[m] = a
      <4>1. Precedes(t, y, a)
        BY <1>1, <2>8
      <4>. QED
        BY <1>3, <4>1 DEF Precedes
    <3>2. n = p
      BY <1>1, <1>3, <2>1, <3>1 DEF Distinct
    <3>3. p <= m
      BY <2>1, <3>1, <3>2
    <3>. QED
      BY <2>5, <3>1, <3>3
  <2>. QED
    BY <1>1, <1>4, <2>3, <2>5, <2>6, <2>7, <2>8 DEF r
<1>5. CASE y \notin ToSet(s)
  <2>. DEFINE p == Len(t) + 1
  <2>1. r = Append(t, x)
    BY <1>1, <1>2, <1>5
  <2>2. /\ r \in Seq(S) /\ Len(r) = Len(t) + 1 /\ p \in 1..(Len(t) + 1)
        /\ \A n \in 1..(Len(t) + 1) : r[n] = IF n < p THEN t[n] ELSE IF n = p THEN x ELSE t[n - 1]
    BY <1>1, <1>3, <2>1
  <2>3. x \notin ToSet(t)
    BY <1>1
  <2>. HIDE DEF p
  <2>4. /\ Distinct(r) /\ ToSet(r) = ToSet(t) \cup {x}
        /\ \A a, b : a # x /\ b # x => (Precedes(r, a, b) <=> Precedes(t, a, b))
        /\ \A n \in 1..Len(t) : (n < p => Precedes(r, t[n], x)) /\ (p <= n => Precedes(r, x, t[n]))
    BY <1>1, <2>2, <2>3, OneMore
  <2>5. ASSUME NEW a \in ToSet(s), a # x PROVE Precedes(r, a, x)
    <3>1. PICK n \in 1..Len(t) : t[n] = a
      BY <1>1, <1>3, <2>5 DEF ToSet
    <3>2. n < p
      BY <1>3 DEF p
    <3>. QED
      BY <2>4, <3>1, <3>2
  <2>. QED
    BY <1>1, <1>5, <2>2, <2>4, <2>5 DEF r
<1>. QED
  BY <1>4, <1>5

\* A non-empty set of natural numbers has a least element.
LEMMA LeastNumber ==
  ASSUME NEW T, T \subseteq Nat, T # {}
  PROVE  \E n \in T : \A m \in T : n <= m
  <1> DEFINE U == {1..n : n \in T}
  <1>1. U \subseteq FiniteSubsetsOf(Nat) /\ U # {}
    <2>1. \A n \in T : 1..n \in SUBSET Nat /\ IsFiniteSet(1..n)
      BY FS_Interval
    <2>. QED  BY <2>1 DEF FiniteSubsetsOf
  <1>2. PICK x \in U : \A y \in U : ~ (<<y, x>> \in StrictSubsetOrdering(Nat))
    <2> HIDE DEF U
    <2>. QED  BY <1>1, WFMin, FS_StrictSubsetOrderingWellFounded
  <1>3. PICK n \in T : x = 1..n
    BY <1>2
  <1>4. ASSUME NEW m \in T, m < n PROVE FALSE
    <2>1. 1..m \in U /\ 1..m \subseteq 1..n /\ 1..m # 1..n
      <3>1. n \in 1..n /\ n \notin 1..m
        BY <1>4
      <3>. QED  BY <3>1, <1>4
    <2>2. 1..m \in SUBSET Nat /\ 1..n \in SUBSET Nat
      OBVIOUS
    <2>. QED  BY <1>2, <1>3, <2>1, <2>2 DEF StrictSubsetOrdering
  <1>. QED  BY <1>4

\* Two sequences of the same elements in the same order are the same.
LEMMA SameOrder ==
  ASSUME NEW S, NEW s \in Seq(S), NEW t \in Seq(S), Distinct(s), Distinct(t),
         ToSet(s) = ToSet(t), \A n, m \in 1..Len(t) : n < m => Precedes(s, t[n], t[m])
  PROVE  s = t
<1>1. DOMAIN s = 1..Len(s) /\ DOMAIN t = 1..Len(t) /\ Len(s) \in Nat /\ Len(t) \in Nat
  OBVIOUS
<1>2. /\ \A n, m \in 1..Len(s) : s[n] = s[m] => n = m
      /\ \A n, m \in 1..Len(t) : t[n] = t[m] => n = m
  BY <1>1 DEF Distinct
<1>3. /\ \A n \in 1..Len(s) : \E m \in 1..Len(t) : s[n] = t[m]
      /\ \A m \in 1..Len(t) : \E n \in 1..Len(s) : s[n] = t[m]
  BY <1>1 DEF ToSet
<1>4. ASSUME NEW n \in 1..Len(t), NEW m \in 1..Len(t), n < m,
             NEW p \in 1..Len(s), NEW q \in 1..Len(s), s[p] = t[n], s[q] = t[m]
      PROVE  p < q
  <2>1. PICK k, l \in 1..Len(s) : k < l /\ s[k] = t[n] /\ s[l] = t[m]
    BY <1>1, <1>4 DEF Precedes
  <2>2. k = p /\ l = q
    BY <1>2, <1>4, <2>1
  <2>. QED
    BY <2>1, <2>2
<1>. DEFINE Differ == {p \in Nat \ {0} : /\ p <= Len(s) \/ p <= Len(t)
                                        /\ ~(p <= Len(s) /\ p <= Len(t) /\ s[p] = t[p])}
<1>5. ASSUME Differ # {} PROVE FALSE
  <2>1. PICK p \in Differ : \A k \in Differ : p <= k
    <3>1. Differ \subseteq Nat
      OBVIOUS
    <3>. HIDE DEF Differ
    <3>. QED
      BY <1>5, <3>1, LeastNumber
  <2>2. p \in Nat \ {0}
    OBVIOUS
  <2>3. \A k \in 1..(p - 1) : k \in 1..Len(s) /\ k \in 1..Len(t) /\ s[k] = t[k]
    BY <1>1, <2>1, <2>2
  <2>4. CASE p <= Len(t)
    <3>1. p \in 1..Len(t)
      BY <1>1, <2>2, <2>4
    <3>2. PICK q \in 1..Len(s) : s[q] = t[p]
      BY <1>3, <3>1
    <3>3. q \notin 1..(p - 1)
      BY <1>2, <2>2, <2>3, <3>1, <3>2
    <3>4. q # p
      BY <1>1, <2>1, <2>4, <3>2
    <3>5. p < q /\ p \in 1..Len(s)
      BY <1>1, <2>2, <3>2, <3>3, <3>4
    <3>6. PICK m \in 1..Len(t) : s[p] = t[m]
      BY <1>3, <3>5
    <3>7. m \notin 1..(p - 1)
      BY <1>2, <2>2, <2>3, <3>5, <3>6
    <3>8. p < m
      BY <1>1, <1>2, <2>2, <3>1, <3>2, <3>4, <3>5, <3>6, <3>7
    <3>. QED
      BY <1>1, <1>4, <3>1, <3>2, <3>5, <3>6, <3>8
  <2>5. CASE p > Len(t)
    <3>1. p \in 1..Len(s)
      BY <1>1, <2>1, <2>2, <2>5
    <3>2. PICK m \in 1..Len(t) : s[p] = t[m]
      BY <1>3, <3>1
    <3>3. m \in 1..(p - 1)
      BY <1>1, <2>2, <2>5, <3>2
    <3>. QED
      BY <1>2, <2>2, <2>3, <3>1, <3>2, <3>3
  <2>. QED
    BY <1>1, <2>2, <2>4, <2>5
<1>6. \A p \in 1..Len(s) : p \in 1..Len(t) /\ s[p] = t[p]
  BY <1>1, <1>5
<1>7. \A p \in 1..Len(t) : p \in 1..Len(s)
  BY <1>1, <1>5
<1>8. Len(s) = Len(t)
  <2>. HIDE DEF Differ
  <2>1. Len(s) <= Len(t)
    <3>1. Len(s) = 0 \/ Len(s) \in 1..Len(s)
      BY <1>1
    <3>. QED
      BY <1>1, <1>6, <3>1
  <2>2. Len(t) <= Len(s)
    <3>1. Len(t) = 0 \/ Len(t) \in 1..Len(t)
      BY <1>1
    <3>. QED
      BY <1>1, <1>7, <3>1
  <2>. QED
    <3>1. \A a, b \in Nat : a <= b /\ b <= a => a = b
      OBVIOUS
    <3>2. Len(s) \in Nat /\ Len(t) \in Nat
      BY <1>1
    <3>. QED
      BY <2>1, <2>2, <3>1, <3>2
<1>. QED
  BY <1>1, <1>6, <1>8

-----------------------------------------------------------------------------
(* diffArrayLepus *)

LEMMA InitMatch ==
  ASSUME InputsAssumption, Init
  PROVE  MatchInv /\ Untouched /\ phase = "match" /\ SameInv
<1>1. PICK p \in Inputs : before = p[1] /\ after = p[2]
  BY DEF Init
<1>2. before \in Seq(Nodes) /\ after \in Seq(Nodes)
  BY <1>1 DEF InputsAssumption
<1>3. /\ phase = "match" /\ next = 1 /\ lastPlaced = 1 /\ unmatched = DOMAIN before
      /\ matches = {} /\ diffI = {} /\ diffM = {} /\ Untouched
  BY DEF Init, Untouched
<1>4. Len(before) \in Nat /\ DOMAIN before = 1..Len(before) /\ Len(after) \in Nat
  BY <1>2
<1>5. MatchTypes
  BY <1>2, <1>3, <1>4 DEF MatchTypes
<1>6. MatchedOnce /\ KeptInOrder
  BY <1>2, <1>3, <1>4 DEF MatchedOnce, KeptInOrder, kept
<1>7. SameInv
  BY <1>3, <1>4 DEF SameInv
<1>. QED
  BY <1>3, <1>5, <1>6, <1>7 DEF MatchInv

\* What is tried has the key and is the first that has it.
LEMMA ReuseMatch ==
  ASSUME MatchInv, Reuse
  PROVE  MatchInv'
<1>0. MatchTypes /\ MatchedOnce /\ KeptInOrder
  BY DEF MatchInv
<1>1. PICK b \in Match :
        /\ unmatched' = unmatched \ {b} /\ matches' = matches \cup {<<b, next>>}
        /\ IF MustMove(b) THEN diffM' = diffM \cup {<<b, next>>} /\ UNCHANGED lastPlaced
           ELSE lastPlaced' = b /\ UNCHANGED diffM
  BY DEF Reuse
<1>2. /\ phase = "match" /\ phase' = "match" /\ next <= Len(after) /\ next' = next + 1
      /\ before' = before /\ after' = after /\ diffI' = diffI
  BY DEF Reuse, inputs
<1>3. /\ before \in Seq(Nodes) /\ after \in Seq(Nodes) /\ DOMAIN before = 1..Len(before)
      /\ Len(before) \in Nat /\ Len(after) \in Nat /\ next \in 1..(Len(after) + 1)
      /\ lastPlaced \in Nat /\ unmatched \subseteq DOMAIN before /\ diffI \subseteq 1..(next - 1)
      /\ matches \subseteq (DOMAIN before) \X (1..(next - 1)) /\ diffM \subseteq matches
  BY <1>0 DEF MatchTypes
<1>4. b \in unmatched /\ before[b].key = after[next].key /\ before[b].type = after[next].type
  BY DEF Match, SameType, Candidate, Earliest
<1>5. b \in 1..Len(before) /\ next \in 1..Len(after)
  BY <1>2, <1>3, <1>4
<1>6. before[b] = after[next]
  <2>1. before[b] \in Nodes /\ after[next] \in Nodes
    BY <1>3, <1>5
  <2>. QED
    BY <2>1, <1>4 DEF Nodes
<1>7. \A m \in matches : /\ m[1] \in 1..Len(before) /\ m[2] \in 1..(next - 1)
                          /\ m[1] # b /\ m = <<m[1], m[2]>>
  <2>1. \A m \in matches : m[1] # b
    BY <1>0, <1>3, <1>4 DEF MatchedOnce
  <2>. QED
    BY <1>3, <2>1
<1>8. MatchTypes'
  <2>1. \A m \in matches' : m \in (DOMAIN before) \X (1..next)
    BY <1>1, <1>3, <1>5, <1>7
  <2>2. diffM' \subseteq matches'
    BY <1>1, <1>3
  <2>3. lastPlaced' \in Nat
    BY <1>1, <1>3, <1>5
  <2>4. next' \in 1..(Len(after) + 1) /\ next' - 1 = next
    BY <1>2, <1>3
  <2>5. unmatched' \subseteq DOMAIN before /\ diffI' \subseteq 1..next
    BY <1>1, <1>2, <1>3
  <2>. QED
    BY <1>2, <1>3, <2>1, <2>2, <2>3, <2>4, <2>5 DEF MatchTypes
<1>9. MatchedOnce'
  <2>0. next' - 1 = next
    BY <1>2, <1>3
  <2>1. ASSUME NEW m \in matches', NEW p \in matches', m[1] = p[1] \/ m[2] = p[2] PROVE m = p
    <3>1. \A x \in matches' : x \in matches \/ x = <<b, next>>
      BY <1>1
    <3>2. \A x \in matches : x[1] # b /\ x[2] # next
      BY <1>3, <1>7
    <3>. QED
      BY <1>0, <2>1, <3>1, <3>2 DEF MatchedOnce
  <2>2. ASSUME NEW c \in DOMAIN before PROVE c \in unmatched' <=> \A m \in matches' : m[1] # c
    <3>1. c \in unmatched <=> \A m \in matches : m[1] # c
      BY <1>0 DEF MatchedOnce
    <3>2. <<b, next>> \in matches' /\ <<b, next>>[1] = b
      BY <1>1
    <3>. QED
      BY <1>1, <3>1, <3>2
  <2>3. ASSUME NEW n \in 1..next PROVE n \in diffI <=> \A m \in matches' : m[2] # n
    <3>1. CASE n = next
      <4>1. <<b, next>> \in matches' /\ <<b, next>>[2] = next /\ next \notin diffI
        BY <1>1, <1>3
      <4>. QED
        BY <3>1, <4>1
    <3>2. CASE n # next
      <4>1. n \in 1..(next - 1)
        BY <1>3, <3>2
      <4>2. n \in diffI <=> \A m \in matches : m[2] # n
        BY <1>0, <4>1 DEF MatchedOnce
      <4>3. <<b, next>>[2] # n
        BY <3>2
      <4>. QED
        BY <1>1, <4>2, <4>3
    <3>. QED
      BY <3>1, <3>2
  <2>4. ASSUME NEW m \in matches' PROVE before[m[1]] = after[m[2]]
    <3>1. CASE m \in matches
      BY <1>0, <3>1 DEF MatchedOnce
    <3>2. CASE m = <<b, next>>
      BY <1>6, <3>2
    <3>. QED
      BY <1>1, <3>1, <3>2
  <2>. QED
    BY <1>2, <2>0, <2>1, <2>2, <2>3, <2>4 DEF MatchedOnce
<1>10. KeptInOrder'
  <2>1. <<b, next>> \notin matches /\ <<b, next>> \notin diffM
    BY <1>3, <1>7
  <2>2. CASE b < lastPlaced
    <3>1. /\ diffM' = diffM \cup {<<b, next>>} /\ lastPlaced' = lastPlaced
          /\ kept' = kept
      BY <1>1, <2>1, <2>2 DEF MustMove, kept
    <3>2. PICK p \in kept : p[1] = lastPlaced
      BY <1>0, <1>3, <1>5, <2>2 DEF KeptInOrder
    <3>3. p[2] < next
      BY <1>3, <1>7 DEF kept
    <3>4. ASSUME NEW m \in diffM' PROVE \E q \in kept : q[2] < m[2] /\ m[1] < q[1]
      <4>1. CASE m \in diffM
        BY <1>0, <4>1 DEF KeptInOrder
      <4>2. CASE m = <<b, next>>
        BY <2>2, <3>2, <3>3, <4>2
      <4>. QED
        BY <3>1, <4>1, <4>2
    <3>. QED
      BY <1>0, <3>1, <3>4 DEF KeptInOrder
  <2>3. CASE ~(b < lastPlaced)
    <3>1. diffM' = diffM /\ lastPlaced' = b /\ kept' = kept \cup {<<b, next>>}
      BY <1>1, <2>1, <2>3 DEF MustMove, kept
    <3>2. \A m \in kept : /\ m[1] < b /\ m[1] <= lastPlaced /\ m[2] < next
                          /\ m[1] \in Nat /\ m[2] \in Nat
      <4>1. ASSUME NEW m \in kept
            PROVE  m[1] < b /\ m[1] <= lastPlaced /\ m[2] < next /\ m[1] \in Nat /\ m[2] \in Nat
        <5>1. m \in matches
          BY DEF kept
        <5>2. m[1] \in 1..Len(before) /\ m[2] \in 1..(next - 1) /\ m[1] # b
          BY <1>7, <5>1
        <5>3. m[1] <= lastPlaced
          BY <1>0 DEF KeptInOrder
        <5>. QED
          BY <1>3, <1>5, <2>3, <5>2, <5>3
      <4>. QED
        BY <4>1
    <3>3. \A m \in kept' : m \in kept \/ m = <<b, next>>
      BY <3>1
    <3>4. ASSUME NEW m \in kept', NEW p \in kept', m[2] < p[2] PROVE m[1] < p[1]
      <4>1. CASE m \in kept /\ p \in kept
        BY <1>0, <3>4, <4>1 DEF KeptInOrder
      <4>2. CASE m \in kept /\ p = <<b, next>>
        BY <3>2, <4>2
      <4>3. CASE m = <<b, next>> /\ p \in kept
        BY <3>2, <3>4, <4>3, <1>5
      <4>4. CASE m = <<b, next>> /\ p = <<b, next>>
        BY <3>4, <4>4, <1>5
      <4>. QED
        BY <3>3, <4>1, <4>2, <4>3, <4>4
    <3>5. \A m \in kept' : m[1] <= lastPlaced'
      BY <1>5, <3>1, <3>2, <3>3
    <3>6. \E m \in kept' : m[1] = lastPlaced'
      <4>1. <<b, next>> \in kept' /\ <<b, next>>[1] = lastPlaced'
        BY <3>1
      <4>. QED
        BY <4>1
    <3>7. \A m \in diffM' : \E p \in kept' : p[2] < m[2] /\ m[1] < p[1]
      BY <1>0, <3>1 DEF KeptInOrder
    <3>. QED
      BY <3>4, <3>5, <3>6, <3>7 DEF KeptInOrder
  <2>. QED
    BY <2>2, <2>3
<1>. QED
  BY <1>2, <1>8, <1>9, <1>10 DEF MatchInv

LEMMA CreateNewMatch ==
  ASSUME MatchInv, CreateNew
  PROVE  MatchInv'
<1>0. MatchTypes /\ MatchedOnce /\ KeptInOrder
  BY DEF MatchInv
<1>2. /\ phase = "match" /\ phase' = "match" /\ next <= Len(after) /\ next' = next + 1
      /\ before' = before /\ after' = after /\ diffI' = diffI \cup {next}
      /\ matches' = matches /\ diffM' = diffM /\ unmatched' = unmatched /\ lastPlaced' = lastPlaced
  BY DEF CreateNew, inputs
<1>3. /\ before \in Seq(Nodes) /\ after \in Seq(Nodes) /\ DOMAIN before = 1..Len(before)
      /\ Len(before) \in Nat /\ Len(after) \in Nat /\ next \in 1..(Len(after) + 1)
      /\ lastPlaced \in Nat /\ unmatched \subseteq DOMAIN before /\ diffI \subseteq 1..(next - 1)
      /\ matches \subseteq (DOMAIN before) \X (1..(next - 1)) /\ diffM \subseteq matches
  BY <1>0 DEF MatchTypes
<1>4. next' - 1 = next /\ next' \in 1..(Len(after) + 1)
  BY <1>2, <1>3
<1>5. \A m \in matches : m \in (DOMAIN before) \X (1..next) /\ m[2] # next
  BY <1>3
<1>6. MatchTypes'
  <2>1. diffI' \subseteq 1..next
    BY <1>2, <1>3
  <2>. QED
    BY <1>2, <1>3, <1>4, <1>5, <2>1 DEF MatchTypes
<1>7. MatchedOnce'
  <2>1. ASSUME NEW n \in 1..next PROVE n \in diffI' <=> \A m \in matches : m[2] # n
    <3>1. CASE n = next
      BY <1>2, <1>5, <3>1
    <3>2. CASE n # next
      <4>1. n \in 1..(next - 1)
        BY <1>3, <3>2
      <4>. QED
        BY <1>0, <1>2, <3>2, <4>1 DEF MatchedOnce
    <3>. QED
      BY <3>1, <3>2
  <2>. QED
    BY <1>0, <1>2, <1>4, <2>1 DEF MatchedOnce
<1>8. KeptInOrder'
  BY <1>0, <1>2 DEF KeptInOrder, kept
<1>. QED
  BY <1>2, <1>6, <1>7, <1>8 DEF MatchInv

-----------------------------------------------------------------------------
(* diffArrayAction *)

LEMMA MatchFacts ==
  ASSUME MatchInv
  PROVE  /\ before \in Seq(Nodes) /\ after \in Seq(Nodes) /\ DOMAIN before = 1..Len(before)
         /\ DOMAIN after = 1..Len(after)
         /\ Len(before) \in Nat /\ Len(after) \in Nat /\ next \in 1..(Len(after) + 1)
         /\ lastPlaced \in Nat /\ unmatched \subseteq 1..Len(before)
         /\ diffI \subseteq 1..(next - 1)
         /\ matches \subseteq (1..Len(before)) \X (1..(next - 1)) /\ diffM \subseteq matches
         /\ kept \subseteq matches /\ \A m \in matches : m \in kept <=> m \notin diffM
         /\ \A m \in matches : /\ m = <<m[1], m[2]>> /\ m[1] \in 1..Len(before)
                               /\ m[2] \in 1..(next - 1)
  BY DEF MatchInv, MatchTypes, kept

\* The new list consists of the old elements that are matched and the new ones.
LEMMA WantedIs ==
  ASSUME MatchInv, next = Len(after) + 1
  PROVE  /\ \A m \in matches : Wanted(m[2]) = m[1]
         /\ \A n \in diffI : Wanted(n) = -n
         /\ \A n \in 1..Len(after) : n \notin diffI => <<Wanted(n), n>> \in matches
         /\ \A n \in 1..Len(after) : Wanted(n) \in Int /\ Wanted(n) # 0
         /\ \A n, k \in 1..Len(after) : Wanted(n) = Wanted(k) => n = k
<1>1. MatchedOnce /\ next - 1 = Len(after)
  BY MatchFacts DEF MatchInv
<1>2. ASSUME NEW m \in matches PROVE Wanted(m[2]) = m[1]
  <2>. DEFINE c == CHOOSE p \in matches : p[2] = m[2]
  <2>1. c \in matches /\ c[2] = m[2]
    OBVIOUS
  <2>2. Wanted(m[2]) = c[1]
    BY DEF Wanted
  <2>. HIDE DEF c
  <2>3. c = m
    BY <1>1, <2>1 DEF MatchedOnce
  <2>. QED
    BY <2>2, <2>3
<1>3. ASSUME NEW n \in diffI PROVE Wanted(n) = -n
  <2>1. n \in 1..(next - 1)
    BY MatchFacts
  <2>2. \A m \in matches : m[2] # n
    BY <1>1, <2>1 DEF MatchedOnce
  <2>. QED
    BY <2>2 DEF Wanted
<1>4. ASSUME NEW n \in 1..Len(after), n \notin diffI PROVE <<Wanted(n), n>> \in matches
  <2>1. PICK m \in matches : m[2] = n
    BY <1>1, <1>4 DEF MatchedOnce
  <2>2. m = <<m[1], m[2]>> /\ Wanted(n) = m[1]
    BY <1>2, <2>1, MatchFacts
  <2>. QED
    BY <2>1, <2>2
<1>5. ASSUME NEW n \in 1..Len(after)
      PROVE  /\ n \in diffI => Wanted(n) = -n
             /\ n \notin diffI => Wanted(n) \in 1..Len(before)
             /\ Wanted(n) \in Int /\ Wanted(n) # 0
  <2>1. CASE n \in diffI
    BY <1>3, <2>1
  <2>2. CASE n \notin diffI
    <3>1. <<Wanted(n), n>> \in (1..Len(before)) \X (1..(next - 1))
      BY <1>4, <2>2, MatchFacts
    <3>2. Wanted(n) \in 1..Len(before)
      BY <3>1
    <3>. QED
      BY <2>2, <3>2
  <2>. QED
    BY <2>1, <2>2
<1>6. ASSUME NEW n \in 1..Len(after), NEW k \in 1..Len(after), Wanted(n) = Wanted(k) PROVE n = k
  <2>1. CASE n \in diffI \/ k \in diffI
    BY <1>5, <1>6, <2>1, MatchFacts
  <2>2. CASE n \notin diffI /\ k \notin diffI
    <3>1. <<Wanted(n), n>> \in matches /\ <<Wanted(k), k>> \in matches
      BY <1>4, <2>2
    <3>2. <<Wanted(n), n>> = <<Wanted(k), k>>
      BY <1>1, <1>6, <3>1 DEF MatchedOnce
    <3>. QED
      BY <3>2
  <2>. QED
    BY <2>1, <2>2
<1>. QED
  BY <1>2, <1>3, <1>4, <1>5, <1>6

\* A list of elements that has all of the new list in its order is the new list.
NewList == [n \in DOMAIN after |-> Wanted(n)]

LEMMA IsNewList ==
  ASSUME MatchInv, next = Len(after) + 1, NEW s \in Seq(Int), Distinct(s),
         ToSet(s) = {Wanted(n) : n \in 1..Len(after)},
         \A n, m \in 1..Len(after) : n < m => Precedes(s, Wanted(n), Wanted(m))
  PROVE  s = NewList
<1>1. DOMAIN after = 1..Len(after) /\ Len(after) \in Nat
  BY MatchFacts
<1>2. NewList \in Seq(Int) /\ Len(NewList) = Len(after) /\ DOMAIN NewList = 1..Len(after)
      /\ \A n \in 1..Len(after) : NewList[n] = Wanted(n)
  BY <1>1, WantedIs DEF NewList
<1>3. Distinct(NewList)
  BY <1>2, WantedIs DEF Distinct
<1>4. ToSet(NewList) = ToSet(s)
  BY <1>2 DEF ToSet
<1>5. \A n, m \in 1..Len(NewList) : n < m => Precedes(s, NewList[n], NewList[m])
  BY <1>2
<1>. QED
  BY <1>2, <1>3, <1>4, <1>5, SameOrder

LEMMA BeginFinished ==
  ASSUME MatchInv, Untouched, next = Len(after) + 1, isEmptyDiffResult
  PROVE  children = NewList
<1>1. children \in Seq(Int) /\ DOMAIN children = 1..Len(before)
      /\ \A b \in 1..Len(before) : children[b] = b
  BY MatchFacts DEF Untouched
<1>2. diffI = {} /\ diffM = {} /\ unmatched = {}
  BY DEF isEmptyDiffResult, diffR
<1>3. MatchedOnce /\ KeptInOrder /\ kept = matches
  BY <1>2 DEF MatchInv, kept
<1>4. \A n \in 1..Len(after) : <<Wanted(n), n>> \in matches /\ Wanted(n) \in 1..Len(before)
  <2>1. \A n \in 1..Len(after) : <<Wanted(n), n>> \in matches
    BY <1>2, WantedIs
  <2>. QED
    BY <2>1, MatchFacts
<1>5. \A b \in 1..Len(before) : \E n \in 1..Len(after) : Wanted(n) = b
  <2>1. ASSUME NEW b \in 1..Len(before) PROVE \E n \in 1..Len(after) : Wanted(n) = b
    <3>1. PICK m \in matches : m[1] = b
      BY <1>2, <1>3, MatchFacts DEF MatchedOnce
    <3>2. m[2] \in 1..Len(after) /\ Wanted(m[2]) = b
      BY <3>1, MatchFacts, WantedIs
    <3>. QED
      BY <3>2
  <2>. QED
    BY <2>1
<1>6. Distinct(children)
  BY <1>1 DEF Distinct
<1>7. ToSet(children) = {Wanted(n) : n \in 1..Len(after)}
  <2>1. ToSet(children) = 1..Len(before)
    BY <1>1 DEF ToSet
  <2>. QED
    BY <1>4, <1>5, <2>1
<1>8. ASSUME NEW n \in 1..Len(after), NEW m \in 1..Len(after), n < m
      PROVE  Precedes(children, Wanted(n), Wanted(m))
  <2>1. <<Wanted(n), n>>[2] < <<Wanted(m), m>>[2]
    BY <1>8
  <2>2. Wanted(n) < Wanted(m)
    BY <1>3, <1>4, <2>1 DEF KeptInOrder
  <2>. QED
    BY <1>1, <1>4, <2>2 DEF Precedes
<1>. QED
  BY <1>1, <1>6, <1>7, <1>8, IsNewList

LEMMA BeginActing ==
  ASSUME MatchInv, Untouched, BeginAction, ~isEmptyDiffResult
  PROVE  ActInv'
<1>1. /\ next = Len(after) + 1 /\ remain' = Cardinality(diffI) /\ result' = result
      /\ UNCHANGED <<inputs, diffVars, i, j, moveTemp, children>>
  BY DEF BeginAction, InitialRemain
<1>2. /\ before' = before /\ after' = after /\ matches' = matches /\ diffI' = diffI
      /\ diffM' = diffM /\ i' = 1 /\ j' = 1 /\ moveTemp' = {} /\ result' = <<>>
      /\ children' = [b \in DOMAIN before |-> b] /\ kept' = kept
  BY <1>1 DEF inputs, diffVars, Untouched, kept
<1>3. WalkInStep'
  <2>1. \A m \in matches : ~(m[1] < 1) /\ ~(m[2] < 1)
    BY MatchFacts
  <2>2. 1 \in 1..(Len(after) + 1) /\ 1 \in 1..(Len(before) + 1)
    BY MatchFacts
  <2>. QED
    BY <1>2, <2>1, <2>2, MatchFacts DEF WalkInStep
<1>4. RemainCounted'
  <2>1. ToInsert' = diffI
    BY <1>1, <1>2, MatchFacts DEF ToInsert
  <2>2. ToMove' = {}
    BY <1>2 DEF ToMove
  <2>3. Cardinality(diffI) \in Nat /\ Cardinality({}) = 0
    <3>1. IsFiniteSet(1..(next - 1))
      <4>1. next - 1 \in Int
        BY MatchFacts
      <4>. QED
        BY <4>1, FS_Interval
    <3>. QED
      BY <3>1, MatchFacts, FS_Subset, FS_CardinalityType, FS_EmptySet
  <2>. QED
    BY <1>1, <2>1, <2>2, <2>3 DEF RemainCounted
<1>5. Returned'
  <2>1. 1..0 = {}
    OBVIOUS
  <2>. QED
    BY <1>2, <2>1 DEF Returned
<1>6. Placed' = {} /\ Waiting' = {} /\ Ahead' = 1..Len(before)
  BY <1>2 DEF Placed, Waiting, ToMove, Ahead
<1>7. /\ children' \in Seq(Int) /\ DOMAIN children' = 1..Len(before)
      /\ \A b \in 1..Len(before) : children'[b] = b
  BY <1>2, MatchFacts
<1>8. ChildrenAre'
  <2>1. Distinct(children')
    BY <1>7 DEF Distinct
  <2>2. ToSet(children') = 1..Len(before)
    BY <1>7 DEF ToSet
  <2>. QED
    BY <1>6, <1>7, <2>1, <2>2 DEF ChildrenAre
<1>9. ChildrenInOrder'
  <2>1. \A b, c \in 1..Len(before) : b < c => Precedes(children', b, c)
    BY <1>7 DEF Precedes
  <2>. QED
    BY <1>2, <1>6, <2>1 DEF ChildrenInOrder
<1>. QED
  BY <1>3, <1>4, <1>5, <1>8, <1>9 DEF ActInv

\* The walk leaves the diff alone.
LEMMA WalkFrame ==
  ASSUME MatchInv, next = Len(after) + 1, UNCHANGED <<inputs, diffVars>>
  PROVE  /\ before' = before /\ after' = after /\ matches' = matches /\ diffI' = diffI
         /\ diffM' = diffM /\ unmatched' = unmatched /\ next' = next /\ kept' = kept
         /\ \A n : Wanted(n)' = Wanted(n)
         /\ phase' \in {"act", "done"} => MatchInv'
<1>1. /\ before' = before /\ after' = after /\ matches' = matches /\ diffI' = diffI
      /\ diffM' = diffM /\ unmatched' = unmatched /\ next' = next /\ lastPlaced' = lastPlaced
  BY DEF inputs, diffVars
<1>2. kept' = kept /\ \A n : Wanted(n)' = Wanted(n)
  BY <1>1 DEF kept, Wanted
<1>3. MatchTypes /\ MatchedOnce /\ KeptInOrder
  BY DEF MatchInv
<1>4. ASSUME phase' \in {"act", "done"} PROVE MatchInv'
  <2>1. MatchTypes'
    BY <1>1, <1>3, <1>4 DEF MatchTypes
  <2>2. MatchedOnce'
    BY <1>1, <1>3 DEF MatchedOnce
  <2>3. KeptInOrder'
    BY <1>1, <1>2, <1>3 DEF KeptInOrder
  <2>. QED
    BY <1>1, <2>1, <2>2, <2>3 DEF MatchInv
<1>. QED
  BY <1>1, <1>2, <1>4

LEMMA WalkFacts ==
  ASSUME MatchInv, next = Len(after) + 1, ActInv
  PROVE  /\ i \in 1..(Len(after) + 1) /\ j \in 1..(Len(before) + 1)
         /\ \A m \in matches : m[2] \in 1..Len(after)
         /\ \A m \in kept : m[1] < j <=> m[2] < i
         /\ \A m \in diffM : m[2] < i => m[1] < j
         /\ \A b, n : <<n, b>> \in moveTemp <=> <<b, n>> \in diffM /\ b < j
         /\ \A t \in moveTemp : /\ t = <<t[1], t[2]>>
                                /\ t[1] \in 1..Len(after) /\ t[2] \in 1..Len(before)
         /\ ToInsert \subseteq 1..Len(after) /\ ToMove \subseteq (1..Len(after)) \X (1..Len(before))
         /\ IsFiniteSet(ToInsert) /\ IsFiniteSet(ToMove)
         /\ Cardinality(ToInsert) \in Nat /\ Cardinality(ToMove) \in Nat
<1>1. /\ i \in 1..(Len(after) + 1) /\ j \in 1..(Len(before) + 1)
      /\ moveTemp = {<<m[2], m[1]>> : m \in {p \in diffM : p[1] < j}}
      /\ \A m \in kept : m[1] < j <=> m[2] < i
      /\ \A m \in diffM : m[2] < i => m[1] < j
  BY DEF ActInv, WalkInStep
<1>2. \A m \in matches : m = <<m[1], m[2]>> /\ m[1] \in 1..Len(before) /\ m[2] \in 1..Len(after)
  BY MatchFacts
<1>3. diffM \subseteq matches
  BY MatchFacts
<1>4. ASSUME NEW b, NEW n PROVE <<n, b>> \in moveTemp <=> <<b, n>> \in diffM /\ b < j
  <2>1. ASSUME <<n, b>> \in moveTemp PROVE <<b, n>> \in diffM /\ b < j
    <3>1. PICK m \in diffM : m[1] < j /\ <<n, b>> = <<m[2], m[1]>>
      BY <1>1, <2>1
    <3>2. m = <<b, n>>
      BY <1>2, <1>3, <3>1
    <3>. QED
      BY <3>1, <3>2
  <2>2. ASSUME <<b, n>> \in diffM /\ b < j PROVE <<n, b>> \in moveTemp
    <3>1. <<b, n>>[1] = b /\ <<b, n>>[2] = n
      OBVIOUS
    <3>. QED
      BY <1>1, <2>2, <3>1
  <2>. QED
    BY <2>1, <2>2
<1>5. \A t \in moveTemp : t = <<t[1], t[2]>> /\ t[1] \in 1..Len(after) /\ t[2] \in 1..Len(before)
  <2>1. ASSUME NEW t \in moveTemp
        PROVE  t = <<t[1], t[2]>> /\ t[1] \in 1..Len(after) /\ t[2] \in 1..Len(before)
    <3>1. PICK m \in diffM : t = <<m[2], m[1]>>
      BY <1>1
    <3>. QED
      BY <1>2, <1>3, <3>1
  <2>. QED
    BY <2>1
<1>6. Len(after) \in Nat /\ Len(before) \in Nat
  BY MatchFacts
<1>7. ToInsert \subseteq 1..Len(after)
  BY MatchFacts DEF ToInsert
<1>8. ToMove \subseteq (1..Len(after)) \X (1..Len(before))
  BY <1>5 DEF ToMove
<1>f. IsFiniteSet(1..Len(after)) /\ IsFiniteSet(1..Len(before))
  <2>1. 1 \in Int /\ Len(after) \in Int /\ Len(before) \in Int
    BY <1>6
  <2>. QED
    BY <2>1, FS_Interval
<1>9. IsFiniteSet(ToInsert)
  BY <1>7, <1>f, FS_Subset
<1>10. IsFiniteSet(ToMove)
  <2>1. IsFiniteSet((1..Len(after)) \X (1..Len(before)))
    BY <1>f, FS_Product
  <2>. QED
    BY <1>8, <2>1, FS_Subset
<1>11. Cardinality(ToInsert) \in Nat /\ Cardinality(ToMove) \in Nat
  BY <1>9, <1>10, FS_CardinalityType
<1>12. \A m \in matches : m[2] \in 1..Len(after)
  BY <1>2
<1>. QED
  BY <1>1, <1>4, <1>5, <1>7, <1>8, <1>9, <1>10, <1>11, <1>12

\* When an element is placed there is one to be placed, and if it is neither moved nor new
\* it is the next one of the old list.
LEMMA PlacingFacts ==
  ASSUME MatchInv, next = Len(after) + 1, ActInv, Placing
  PROVE  /\ i \in 1..Len(after)
         /\ \A b \in Reused : <<b, i>> \in diffM /\ b < j /\ <<i, b>> \in moveTemp
         /\ (Reused = {} /\ i \notin diffI) => (Old /\ <<j, i>> \in kept)
<1>1. MatchedOnce /\ KeptInOrder
  BY DEF MatchInv
<1>2. /\ Len(before) \in Nat /\ Len(after) \in Nat
      /\ i \in 1..(Len(after) + 1) /\ j \in 1..(Len(before) + 1)
  BY MatchFacts, WalkFacts
<1>3. ASSUME Old PROVE \E n \in 1..Len(after) : <<j, n>> \in kept /\ i <= n
  <2>1. j \in 1..Len(before) /\ j \notin unmatched /\ \A m \in diffM : m[1] # j
    BY <1>2, <1>3 DEF Old, Placing, Deleted, Saved, diffR
  <2>2. PICK m \in matches : m[1] = j
    BY <1>1, <2>1, MatchFacts DEF MatchedOnce
  <2>3. m \in kept /\ m = <<j, m[2]>> /\ m[2] \in 1..Len(after)
    BY <2>1, <2>2, MatchFacts, WalkFacts
  <2>4. i <= m[2]
    BY <1>2, <2>2, <2>3, WalkFacts
  <2>. QED
    BY <2>3, <2>4
<1>4. ASSUME ~Old PROVE i \in 1..Len(after)
  <2>1. remain > 0
    BY <1>4 DEF Placing, Looping
  <2>2. ToInsert # {} \/ ToMove # {}
    <3>1. remain = Cardinality(ToInsert) + Cardinality(ToMove)
      BY DEF ActInv, RemainCounted
    <3>2. Cardinality({}) = 0
      BY FS_EmptySet
    <3>3. ASSUME ToInsert = {}, ToMove = {} PROVE FALSE
      BY <2>1, <3>1, <3>2, <3>3
    <3>. QED
      BY <3>3
  <2>3. CASE ToInsert # {}
    BY <1>2, <2>3, WalkFacts DEF ToInsert
  <2>4. CASE ToMove # {}
    <3>1. PICK t \in ToMove : TRUE
      BY <2>4
    <3>2. i <= t[1] /\ t[1] \in 1..Len(after)
      BY <3>1, WalkFacts DEF ToMove
    <3>. QED
      BY <1>2, <3>2
  <2>. QED
    BY <2>2, <2>3, <2>4
<1>5. i \in 1..Len(after)
  <2>1. CASE Old
    <3>1. PICK n \in 1..Len(after) : i <= n
      BY <1>3, <2>1
    <3>. QED
      BY <1>2, <3>1
  <2>. QED
    BY <1>4, <2>1
<1>6. ASSUME NEW b \in Reused PROVE <<b, i>> \in diffM /\ b < j /\ <<i, b>> \in moveTemp
  <2>1. PICK t \in moveTemp : t[1] = i /\ b = t[2]
    BY DEF Reused
  <2>2. t = <<i, b>>
    BY <2>1, WalkFacts
  <2>. QED
    BY <2>1, <2>2, WalkFacts
<1>7. ASSUME Reused = {}, i \notin diffI PROVE Old /\ <<j, i>> \in kept
  <2>. DEFINE b == Wanted(i)
  <2>1. <<b, i>> \in matches
    BY <1>5, <1>7, WantedIs
  <2>. HIDE DEF b
  <2>2. b \in 1..Len(before)
    BY <2>1, MatchFacts
  <2>3. ~(<<b, i>> \in diffM /\ b < j)
    <3>1. ASSUME <<i, b>> \in moveTemp PROVE b \in Reused
      <4>1. <<i, b>>[1] = i /\ <<i, b>>[2] = b
        OBVIOUS
      <4>. QED
        BY <3>1, <4>1 DEF Reused
    <3>. QED
      BY <1>7, <3>1, WalkFacts
  <2>4. ~(<<b, i>> \in kept /\ b < j)
    <3>1. <<b, i>>[1] = b /\ <<b, i>>[2] = i
      OBVIOUS
    <3>. QED
      BY <1>2, <3>1, WalkFacts
  <2>5. j <= b /\ Old
    BY <1>2, <2>1, <2>2, <2>3, <2>4, MatchFacts DEF Old
  <2>6. PICK n \in 1..Len(after) : <<j, n>> \in kept /\ i <= n
    BY <1>3, <2>5
  <2>7. <<b, i>> \in kept
    <3>1. ASSUME <<b, i>> \in diffM PROVE FALSE
      <4>1. PICK p \in kept : p[2] < i /\ b < p[1]
        <5>1. \E p \in kept : p[2] < <<b, i>>[2] /\ <<b, i>>[1] < p[1]
          BY <1>1, <3>1 DEF KeptInOrder
        <5>. QED
          BY <5>1
      <4>2. p[1] < j /\ p[1] \in Nat
        BY <4>1, WalkFacts, MatchFacts
      <4>. QED
        BY <1>2, <2>2, <2>5, <4>1, <4>2
    <3>. QED
      BY <2>1, <3>1, MatchFacts
  <2>8. b = j
    <3>1. ASSUME b # j PROVE FALSE
      <4>1. j < b
        BY <1>2, <2>2, <2>5, <3>1
      <4>2. i # n
        <5>1. ASSUME i = n PROVE FALSE
          <6>1. <<b, i>> \in matches /\ <<j, n>> \in matches /\ <<b, i>>[2] = <<j, n>>[2]
            BY <2>1, <2>6, <5>1, MatchFacts
          <6>2. <<b, i>> = <<j, n>>
            BY <1>1, <6>1 DEF MatchedOnce
          <6>. QED
            BY <3>1, <6>2
        <5>. QED
          BY <5>1
      <4>3. <<b, i>>[2] < <<j, n>>[2]
        BY <1>2, <2>6, <4>2
      <4>4. <<b, i>>[1] < <<j, n>>[1]
        BY <1>1, <2>6, <2>7, <4>3 DEF KeptInOrder
      <4>. QED
        BY <1>2, <2>2, <4>1, <4>4
    <3>. QED
      BY <3>1
  <2>. QED
    BY <2>5, <2>7, <2>8
<1>. QED
  BY <1>5, <1>6, <1>7

\* What the sets of a state are in the next one when nothing is inserted.
LEMMA DeleteStep ==
  ASSUME MatchInv, next = Len(after) + 1, ActInv, Delete
  PROVE  ActInv'
<1>1. /\ j' = j + 1 /\ i' = i /\ moveTemp' = moveTemp /\ remain' = remain /\ result' = result
      /\ children' = Without(children, j) /\ UNCHANGED <<inputs, diffVars>> /\ j \in unmatched
      /\ j <= Len(before)
  BY DEF Delete, Deleted, diffR, Old
<1>2. /\ before' = before /\ after' = after /\ matches' = matches /\ diffI' = diffI
      /\ diffM' = diffM /\ kept' = kept /\ \A n : Wanted(n)' = Wanted(n)
  BY <1>1, WalkFrame
<1>3. Len(before) \in Nat /\ i \in 1..(Len(after) + 1) /\ j \in 1..Len(before) /\ Len(after) \in Nat
  BY <1>1, MatchFacts, WalkFacts
<1>4. \A m \in matches : m[1] # j
  BY <1>1, <1>3, MatchFacts DEF MatchInv, MatchedOnce
<1>5. \A m \in matches : m[1] < j + 1 <=> m[1] < j
  <2>1. \A m \in matches : m[1] \in 1..Len(before)
    BY MatchFacts
  <2>. QED
    BY <1>3, <1>4, <2>1
<1>6. WalkInStep'
  <2>1. {p \in diffM : p[1] < j + 1} = {p \in diffM : p[1] < j}
    BY <1>5, MatchFacts
  <2>2. j + 1 \in 1..(Len(before) + 1)
    BY <1>3
  <2>. QED
    BY <1>1, <1>2, <1>5, <2>1, <2>2, MatchFacts DEF ActInv, WalkInStep
<1>7. ToInsert' = ToInsert /\ ToMove' = ToMove
  BY <1>1, <1>2 DEF ToInsert, ToMove
<1>8. RemainCounted' /\ Returned'
  BY <1>1, <1>2, <1>7 DEF ActInv, RemainCounted, Returned
<1>9. Placed' = Placed /\ Waiting' = Waiting /\ Ahead' = Ahead \ {j} /\ j \in Ahead
  BY <1>1, <1>2, <1>3, <1>7 DEF Placed, Waiting, Ahead
<1>10. ChildrenAre /\ ChildrenInOrder
  BY DEF ActInv
<1>11. j \notin Placed /\ j \notin Waiting
  <2>1. ASSUME NEW n \in 1..(i - 1) PROVE Wanted(n) # j
    <3>1. n \in 1..Len(after)
      BY <1>3
    <3>2. CASE n \in diffI
      BY <1>3, <3>1, <3>2, WantedIs
    <3>3. CASE n \notin diffI
      <4>1. <<Wanted(n), n>> \in matches
        BY <3>1, <3>3, WantedIs
      <4>. QED
        BY <1>4, <4>1
    <3>. QED
      BY <3>2, <3>3
  <2>2. ASSUME NEW t \in ToMove PROVE t[2] # j
    <3>1. t \in moveTemp /\ t = <<t[1], t[2]>>
      BY WalkFacts DEF ToMove
    <3>2. <<t[2], t[1]>> \in matches
      BY <3>1, WalkFacts, MatchFacts
    <3>. QED
      BY <1>4, <3>2
  <2>. QED
    BY <2>1, <2>2 DEF Placed, Waiting
<1>12. /\ children' \in Seq(Int) /\ Distinct(children') /\ ToSet(children') = ToSet(children) \ {j}
       /\ \A a, b : a # j /\ b # j => (Precedes(children', a, b) <=> Precedes(children, a, b))
  BY <1>1, <1>10, WithoutFacts DEF ChildrenAre
<1>13. ChildrenAre'
  BY <1>9, <1>10, <1>11, <1>12 DEF ChildrenAre
<1>14. ChildrenInOrder'
  <2>1. \A n \in 1..(i - 1) : Wanted(n) \in Placed
    BY DEF Placed
  <2>2. ASSUME NEW n \in 1..(i - 1), NEW m \in 1..(i - 1), n < m
        PROVE  Precedes(children', Wanted(n), Wanted(m))
    <3>1. Precedes(children, Wanted(n), Wanted(m)) /\ Wanted(n) # j /\ Wanted(m) # j
      BY <1>10, <1>11, <2>1, <2>2 DEF ChildrenInOrder
    <3>. QED
      BY <1>12, <3>1
  <2>3. ASSUME NEW x \in Placed \cup Waiting, NEW b \in Ahead \ {j} PROVE Precedes(children', x, b)
    <3>1. Precedes(children, x, b) /\ x # j /\ b # j
      BY <1>10, <1>11 DEF ChildrenInOrder
    <3>. QED
      BY <1>12, <3>1
  <2>4. ASSUME NEW b \in Ahead \ {j}, NEW c \in Ahead \ {j}, b < c PROVE Precedes(children', b, c)
    <3>1. Precedes(children, b, c) /\ b # j /\ c # j
      BY <1>10, <2>4 DEF ChildrenInOrder
    <3>. QED
      BY <1>12, <3>1
  <2>. QED
    BY <1>1, <1>2, <1>9, <2>2, <2>3, <2>4 DEF ChildrenInOrder
<1>. QED
  BY <1>6, <1>8, <1>13, <1>14 DEF ActInv

LEMMA SaveNodeStep ==
  ASSUME MatchInv, next = Len(after) + 1, ActInv, SaveNode
  PROVE  ActInv'
<1>1. /\ j' = j + 1 /\ i' = i /\ remain' = remain + 1 /\ result' = result
      /\ moveTemp' = moveTemp \cup {<<m[2], j>> : m \in {p \in diffM : p[1] = j}}
      /\ children' = children /\ UNCHANGED <<inputs, diffVars>>
      /\ j <= Len(before) /\ \E m \in diffM : m[1] = j
  BY DEF SaveNode, Saved, Old
<1>2. /\ before' = before /\ after' = after /\ matches' = matches /\ diffI' = diffI
      /\ diffM' = diffM /\ kept' = kept /\ \A n : Wanted(n)' = Wanted(n)
  BY <1>1, WalkFrame
<1>3. Len(before) \in Nat /\ i \in 1..(Len(after) + 1) /\ j \in 1..Len(before) /\ Len(after) \in Nat
  BY <1>1, MatchFacts, WalkFacts
<1>4. PICK n \in 1..Len(after) : <<j, n>> \in diffM
  <2>1. PICK m \in diffM : m[1] = j
    BY <1>1
  <2>2. m = <<j, m[2]>> /\ m[2] \in 1..Len(after)
    BY <2>1, MatchFacts, WalkFacts
  <2>. QED
    BY <2>1, <2>2
<1>5. \A m \in matches : m[1] = j => m = <<j, n>>
  <2>1. <<j, n>> \in matches /\ <<j, n>>[1] = j
    BY <1>4, MatchFacts
  <2>. QED
    BY <2>1 DEF MatchInv, MatchedOnce
<1>6. moveTemp' = moveTemp \cup {<<n, j>>}
  <2>1. {p \in diffM : p[1] = j} = {<<j, n>>}
    <3>1. <<j, n>>[1] = j
      OBVIOUS
    <3>. QED
      BY <1>4, <1>5, <3>1, MatchFacts
  <2>2. <<j, n>>[2] = n
    OBVIOUS
  <2>. QED
    BY <1>1, <2>1, <2>2
<1>7. i <= n
  <2>1. ~(<<j, n>>[2] < i)
    <3>1. ~(<<j, n>>[1] < j)
      BY <1>3
    <3>. QED
      BY <1>4, <3>1, WalkFacts
  <2>. QED
    BY <1>3, <2>1
<1>8. \A m \in matches : m[1] < j + 1 <=> m[1] < j \/ m = <<j, n>>
  <2>1. ASSUME NEW m \in matches PROVE m[1] < j + 1 <=> m[1] < j \/ m = <<j, n>>
    <3>1. m[1] \in 1..Len(before) /\ <<j, n>>[1] = j
      BY MatchFacts
    <3>. QED
      BY <1>3, <1>5, <3>1
  <2>. QED
    BY <2>1
<1>9. WalkInStep'
  <2>1. moveTemp' = {<<m[2], m[1]>> : m \in {p \in diffM : p[1] < j + 1}}
    <3>1. {p \in diffM : p[1] < j + 1} = {p \in diffM : p[1] < j} \cup {<<j, n>>}
      BY <1>4, <1>8, MatchFacts
    <3>2. moveTemp = {<<m[2], m[1]>> : m \in {p \in diffM : p[1] < j}}
      BY DEF ActInv, WalkInStep
    <3>3. <<j, n>>[2] = n /\ <<j, n>>[1] = j
      OBVIOUS
    <3>. QED
      BY <1>6, <3>1, <3>2, <3>3
  <2>2. j + 1 \in 1..(Len(before) + 1)
    BY <1>3
  <2>3. \A m \in kept : m[1] < j + 1 <=> m[2] < i
    <3>1. <<j, n>> \notin kept
      BY <1>4, MatchFacts
    <3>. QED
      BY <1>8, <3>1, MatchFacts, WalkFacts
  <2>4. \A m \in diffM : m[2] < i => m[1] < j + 1
    BY <1>8, MatchFacts, WalkFacts
  <2>. QED
    BY <1>1, <1>2, <1>3, <2>1, <2>2, <2>3, <2>4 DEF WalkInStep
<1>10. ToInsert' = ToInsert /\ ToMove' = ToMove \cup {<<n, j>>} /\ <<n, j>> \notin ToMove
  <2>1. <<n, j>>[1] = n
    OBVIOUS
  <2>2. ToMove' = ToMove \cup {<<n, j>>}
    BY <1>1, <1>2, <1>6, <1>7, <2>1 DEF ToMove
  <2>3. <<n, j>> \notin moveTemp
    <3>1. ~(j < j)
      BY <1>3
    <3>. QED
      BY <3>1, WalkFacts
  <2>. QED
    BY <1>1, <1>2, <2>2, <2>3 DEF ToInsert, ToMove
<1>11. RemainCounted' /\ Returned'
  <2>1. Cardinality(ToMove') = Cardinality(ToMove) + 1
    BY <1>10, WalkFacts, FS_AddElement
  <2>2. RemainCounted'
    BY <1>1, <1>10, <2>1, WalkFacts DEF ActInv, RemainCounted
  <2>. QED
    BY <1>1, <1>2, <2>2 DEF ActInv, Returned
<1>12. Placed' = Placed /\ Waiting' = Waiting \cup {j} /\ Ahead' = Ahead \ {j} /\ j \in Ahead
  <2>1. <<n, j>>[2] = j
    OBVIOUS
  <2>2. Waiting' = Waiting \cup {j}
    BY <1>10, <2>1 DEF Waiting
  <2>. QED
    BY <1>1, <1>2, <1>3, <2>2 DEF Placed, Ahead
<1>13. ChildrenAre /\ ChildrenInOrder
  BY DEF ActInv
<1>14. ChildrenAre'
  BY <1>1, <1>12, <1>13 DEF ChildrenAre
<1>15. ChildrenInOrder'
  <2>1. \A b \in Ahead \ {j} : Precedes(children, j, b)
    <3>1. \A b \in Ahead \ {j} : j < b /\ b \in Ahead
      BY <1>3 DEF Ahead
    <3>. QED
      BY <1>12, <1>13, <3>1 DEF ChildrenInOrder
  <2>. QED
    BY <1>1, <1>2, <1>12, <1>13, <2>1 DEF ChildrenInOrder
<1>. QED
  BY <1>9, <1>11, <1>14, <1>15 DEF ActInv

\* An element is put before the next one of the old list.
LEMMA Placement ==
  ASSUME MatchInv, next = Len(after) + 1, ActInv, i \in 1..Len(after),
         i' = i + 1, j' = j, UNCHANGED <<inputs, diffVars>>,
         NEW w, w = Wanted(i), w \notin Ahead, Waiting' = Waiting \ {w},
         children' = InsertedBefore(children, w, Target)
  PROVE  ChildrenAre' /\ ChildrenInOrder'
<1>1. ChildrenAre /\ ChildrenInOrder
  BY DEF ActInv
<1>2. /\ before' = before /\ after' = after /\ \A n : Wanted(n)' = Wanted(n)
  BY WalkFrame
<1>3. /\ Len(before) \in Nat /\ i \in 1..Len(after) /\ j \in 1..(Len(before) + 1)
      /\ Len(after) \in Nat /\ w \in Int /\ w # 0
  BY MatchFacts, WalkFacts, WantedIs
<1>4. \A n \in 1..(i - 1) : n \in 1..Len(after) /\ Wanted(n) \in Placed /\ Wanted(n) # w
  <2>1. \A n \in 1..(i - 1) : n \in 1..Len(after) /\ n # i
    BY <1>3
  <2>. QED
    BY <1>3, <2>1, WantedIs DEF Placed
<1>5. Placed' = Placed \cup {w} /\ Ahead' = Ahead
  <2>1. \A n : n \in 1..((i + 1) - 1) <=> n \in 1..(i - 1) \/ n = i
    BY <1>3
  <2>2. Placed' = {Wanted(n) : n \in 1..((i + 1) - 1)}
    BY <1>2 DEF Placed
  <2>3. Placed' = Placed \cup {w}
    BY <2>1, <2>2 DEF Placed
  <2>. QED
    BY <1>2, <2>3 DEF Ahead
<1>6. w # Target
  <2>1. j <= Len(before) => j \in Ahead
    BY <1>3 DEF Ahead
  <2>. QED
    BY <1>3, <2>1 DEF Target, Old, Undefined
<1>7. /\ children' \in Seq(Int) /\ Distinct(children')
      /\ ToSet(children') = ToSet(children) \cup {w}
      /\ \A a, b : a # w /\ b # w => (Precedes(children', a, b) <=> Precedes(children, a, b))
      /\ Target \in ToSet(children) =>
           /\ Precedes(children', w, Target)
           /\ \A a : a # w => /\ Precedes(children, a, Target) => Precedes(children', a, w)
                              /\ Precedes(children, Target, a) => Precedes(children', w, a)
      /\ Target \notin ToSet(children) =>
           \A a \in ToSet(children) : a # w => Precedes(children', a, w)
  <2>1. children \in Seq(Int) /\ Distinct(children)
    BY <1>1 DEF ChildrenAre
  <2>. QED
    BY <1>3, <1>6, <2>1, PlacedFacts, SMTT(30)
<1>8. ChildrenAre'
  BY <1>1, <1>5, <1>7 DEF ChildrenAre
<1>9. ASSUME Old
      PROVE  /\ \A n \in 1..(i - 1) : Precedes(children', Wanted(n), w)
             /\ \A b \in Ahead : Precedes(children', w, b)
  <2>1. Target = j /\ j \in Ahead /\ j \in ToSet(children)
    BY <1>1, <1>3, <1>9 DEF Target, Old, Ahead, ChildrenAre
  <2>2. ASSUME NEW n \in 1..(i - 1) PROVE Precedes(children', Wanted(n), w)
    <3>1. Precedes(children, Wanted(n), j)
      BY <1>1, <1>4, <2>1 DEF ChildrenInOrder
    <3>. QED
      BY <1>4, <1>7, <2>1, <3>1
  <2>3. ASSUME NEW b \in Ahead PROVE Precedes(children', w, b)
    <3>1. b = j \/ j < b
      BY <1>3 DEF Ahead
    <3>2. CASE b = j
      BY <1>7, <2>1, <3>2
    <3>3. CASE j < b
      <4>1. Precedes(children, j, b) /\ b # w
        BY <1>1, <2>1, <3>3 DEF ChildrenInOrder
      <4>. QED
        BY <1>7, <2>1, <4>1
    <3>. QED
      BY <3>1, <3>2, <3>3
  <2>. QED
    BY <2>2, <2>3
<1>10. ASSUME ~Old
       PROVE /\ \A n \in 1..(i - 1) : Precedes(children', Wanted(n), w)
             /\ \A b \in Ahead : Precedes(children', w, b)
  <2>1. Ahead = {} /\ Target = 0
    BY <1>3, <1>10 DEF Ahead, Target, Old, Undefined
  <2>2. \A x \in Waiting : x # 0
    BY WalkFacts DEF Waiting
  <2>3. \A x \in Placed : x # 0
    <3>1. \A n \in 1..(i - 1) : Wanted(n) # 0
      BY <1>4, WantedIs
    <3>. QED
      BY <3>1 DEF Placed
  <2>4. Target \notin ToSet(children)
    BY <1>1, <2>1, <2>2, <2>3 DEF ChildrenAre
  <2>5. ASSUME NEW n \in 1..(i - 1) PROVE Precedes(children', Wanted(n), w)
    <3>1. Wanted(n) \in ToSet(children)
      BY <1>1, <1>4 DEF ChildrenAre
    <3>. QED
      BY <1>4, <1>7, <2>4, <3>1
  <2>. QED
    BY <2>1, <2>5
<1>11. /\ \A n \in 1..(i - 1) : Precedes(children', Wanted(n), w)
       /\ \A b \in Ahead : Precedes(children', w, b)
  BY <1>9, <1>10
<1>12. ChildrenInOrder'
  <2>1. ASSUME NEW n \in 1..i, NEW m \in 1..i, n < m PROVE Precedes(children', Wanted(n), Wanted(m))
    <3>1. n \in 1..(i - 1)
      BY <1>3, <2>1
    <3>2. CASE m = i
      BY <1>11, <3>1, <3>2
    <3>3. CASE m # i
      <4>1. m \in 1..(i - 1)
        BY <1>3, <3>3
      <4>2. Precedes(children, Wanted(n), Wanted(m))
        BY <1>1, <2>1, <3>1, <4>1 DEF ChildrenInOrder
      <4>. QED
        BY <1>4, <1>7, <3>1, <4>1, <4>2
    <3>. QED
      BY <3>2, <3>3
  <2>2. ASSUME NEW x \in Placed' \cup Waiting', NEW b \in Ahead PROVE Precedes(children', x, b)
    <3>1. CASE x = w
      BY <1>11, <3>1
    <3>2. CASE x # w
      <4>1. Precedes(children, x, b) /\ b # w
        BY <1>1, <1>5, <3>2 DEF ChildrenInOrder
      <4>. QED
        BY <1>7, <3>2, <4>1
    <3>. QED
      BY <3>1, <3>2
  <2>3. ASSUME NEW b \in Ahead, NEW c \in Ahead, b < c PROVE Precedes(children', b, c)
    <3>1. Precedes(children, b, c) /\ b # w /\ c # w
      BY <1>1, <2>3 DEF ChildrenInOrder
    <3>. QED
      BY <1>7, <3>1
  <2>4. (i + 1) - 1 = i
    BY <1>3
  <2>. QED
    BY <1>2, <1>5, <2>1, <2>2, <2>3, <2>4 DEF ChildrenInOrder
<1>. QED
  BY <1>8, <1>12

\* The list to return grows with the element.
LEMMA Growth ==
  ASSUME MatchInv, next = Len(after) + 1, Returned, i \in 1..Len(after), i' = i + 1,
         UNCHANGED <<inputs, diffVars>>, result' = Append(result, Wanted(i))
  PROVE  Returned'
<1>1. \A n : Wanted(n)' = Wanted(n)
  BY WalkFrame
<1>2. i \in Nat /\ (i + 1) - 1 = i /\ \A n \in 1..i : n \in 1..Len(after)
  BY MatchFacts
<1>3. \A n \in 1..i : Wanted(n) \in Int
  BY <1>2, WantedIs
<1>4. result = [n \in 1..(i - 1) |-> Wanted(n)]
  BY DEF Returned
<1>5. result \in Seq(Int) /\ Len(result) = i - 1
  BY <1>2, <1>3, <1>4
<1>6. result' = [n \in 1..i |-> Wanted(n)]
  BY <1>2, <1>3, <1>4, <1>5
<1>. QED
  BY <1>1, <1>2, <1>6 DEF Returned

LEMMA PlaceMovedStep ==
  ASSUME MatchInv, next = Len(after) + 1, ActInv, PlaceMoved
  PROVE  ActInv'
<1>1. /\ j' = j /\ i' = i + 1 /\ moveTemp' = moveTemp /\ remain' = remain - 1
      /\ UNCHANGED <<inputs, diffVars>> /\ Placing
  BY DEF PlaceMoved
<1>2. PICK b \in Reused : /\ children' = InsertedBefore(children, b, Target)
                          /\ result' = Append(result, b)
  BY DEF PlaceMoved
<1>3. /\ before' = before /\ after' = after /\ matches' = matches /\ diffI' = diffI
      /\ diffM' = diffM /\ kept' = kept /\ \A n : Wanted(n)' = Wanted(n)
  BY <1>1, WalkFrame
<1>4. i \in 1..Len(after) /\ <<b, i>> \in diffM /\ b < j /\ <<i, b>> \in moveTemp
  BY <1>1, PlacingFacts
<1>5. Len(before) \in Nat /\ j \in 1..(Len(before) + 1) /\ Len(after) \in Nat
      /\ b \in 1..Len(before) /\ <<b, i>> \in matches
  <2>1. <<b, i>> \in matches
    BY <1>4, MatchFacts
  <2>. QED
    BY <2>1, MatchFacts, WalkFacts
<1>6. b = Wanted(i)
  <2>1. <<b, i>>[1] = b /\ <<b, i>>[2] = i
    OBVIOUS
  <2>. QED
    BY <1>5, <2>1, WantedIs
<1>7. \A m \in matches : (m[2] = i \/ m[1] = b) => m = <<b, i>>
  <2>1. <<b, i>>[1] = b /\ <<b, i>>[2] = i
    OBVIOUS
  <2>. QED
    BY <1>5, <2>1 DEF MatchInv, MatchedOnce
<1>8. \A m \in matches : m[2] < i + 1 <=> m[2] < i \/ m = <<b, i>>
  <2>1. ASSUME NEW m \in matches PROVE m[2] < i + 1 <=> m[2] < i \/ m = <<b, i>>
    <3>1. m[2] \in 1..Len(after) /\ <<b, i>>[2] = i
      BY WalkFacts
    <3>. QED
      BY <1>4, <1>5, <1>7, <3>1
  <2>. QED
    BY <2>1
<1>9. WalkInStep'
  <2>1. i + 1 \in 1..(Len(after) + 1)
    BY <1>4, <1>5
  <2>2. \A m \in kept : m[1] < j <=> m[2] < i + 1
    <3>1. <<b, i>> \notin kept
      BY <1>4, <1>5, MatchFacts
    <3>. QED
      BY <1>8, <3>1, MatchFacts, WalkFacts
  <2>3. \A m \in diffM : m[2] < i + 1 => m[1] < j
    <3>1. <<b, i>>[1] < j
      BY <1>4
    <3>. QED
      BY <1>8, <3>1, MatchFacts, WalkFacts
  <2>. QED
    BY <1>1, <1>3, <2>1, <2>2, <2>3 DEF ActInv, WalkInStep
<1>10. i \notin diffI
  <2>1. i \in 1..(next - 1) /\ <<b, i>>[2] = i
    BY <1>4, <1>5
  <2>. QED
    BY <1>5, <2>1 DEF MatchInv, MatchedOnce
<1>11. ToInsert' = ToInsert
  <2>1. \A n \in diffI : i + 1 <= n <=> i <= n
    <3>1. \A n \in diffI : n \in Nat /\ n # i
      BY <1>10, MatchFacts
    <3>. QED
      BY <1>4, <3>1
  <2>. QED
    BY <1>1, <1>3, <2>1 DEF ToInsert
<1>12. ToMove' = ToMove \ {<<i, b>>} /\ <<i, b>> \in ToMove
       /\ \A t \in ToMove : t[2] = b => t = <<i, b>>
  <2>1. <<i, b>>[1] = i /\ i <= i
    BY <1>4
  <2>2. \A t \in moveTemp : (t[1] = i \/ t[2] = b) => t = <<i, b>>
    <3>1. ASSUME NEW t \in moveTemp, t[1] = i \/ t[2] = b PROVE t = <<i, b>>
      <4>1. t = <<t[1], t[2]>> /\ <<t[2], t[1]>> \in matches
        BY WalkFacts, MatchFacts
      <4>2. <<t[2], t[1]>>[1] = t[2] /\ <<t[2], t[1]>>[2] = t[1]
        OBVIOUS
      <4>3. <<t[2], t[1]>> = <<b, i>>
        BY <1>7, <3>1, <4>1, <4>2
      <4>. QED
        BY <4>1, <4>3
    <3>. QED
      BY <3>1
  <2>3. \A t \in moveTemp : i + 1 <= t[1] <=> (i <= t[1] /\ t[1] # i)
    <3>1. \A t \in moveTemp : t[1] \in 1..Len(after)
      BY WalkFacts
    <3>. QED
      BY <1>4, <3>1
  <2>4. ToMove' = {t \in moveTemp : i + 1 <= t[1]}
    BY <1>1 DEF ToMove
  <2>. QED
    BY <1>4, <2>1, <2>2, <2>3, <2>4 DEF ToMove
<1>13. RemainCounted'
  <2>1. Cardinality(ToMove') = Cardinality(ToMove) - 1
    BY <1>12, WalkFacts, FS_RemoveElement
  <2>2. Cardinality(ToMove) \in Nat /\ Cardinality(ToInsert) \in Nat
        /\ remain = Cardinality(ToInsert) + Cardinality(ToMove)
    BY WalkFacts DEF ActInv, RemainCounted
  <2>. QED
    BY <1>1, <1>11, <2>1, <2>2 DEF RemainCounted
<1>14. Returned'
  BY <1>1, <1>2, <1>4, <1>6, Growth DEF ActInv
<1>15. Waiting' = Waiting \ {b}
  <2>1. <<i, b>>[2] = b
    OBVIOUS
  <2>. QED
    BY <1>12, <2>1 DEF Waiting
<1>16. b \notin Ahead
  BY <1>4, <1>5 DEF Ahead
<1>17. ChildrenAre' /\ ChildrenInOrder'
  BY <1>1, <1>2, <1>4, <1>6, <1>15, <1>16, Placement
<1>. QED
  BY <1>9, <1>13, <1>14, <1>17 DEF ActInv

LEMMA InsertNewStep ==
  ASSUME MatchInv, next = Len(after) + 1, ActInv, InsertNew
  PROVE  ActInv'
<1>1. /\ j' = j /\ i' = i + 1 /\ moveTemp' = moveTemp /\ remain' = remain - 1
      /\ UNCHANGED <<inputs, diffVars>> /\ Placing /\ Reused = {} /\ i \in diffI
      /\ children' = InsertedBefore(children, -i, Target) /\ result' = Append(result, -i)
  BY DEF InsertNew
<1>2. /\ before' = before /\ after' = after /\ matches' = matches /\ diffI' = diffI
      /\ diffM' = diffM /\ kept' = kept
  BY <1>1, WalkFrame
<1>3. /\ i \in 1..Len(after) /\ -i = Wanted(i) /\ Len(after) \in Nat
      /\ j \in 1..(Len(before) + 1) /\ Len(before) \in Nat
  BY <1>1, PlacingFacts, WantedIs, MatchFacts, WalkFacts
<1>4. \A m \in matches : m[2] < i + 1 <=> m[2] < i
  <2>1. i \in 1..(next - 1)
    BY <1>3
  <2>2. \A m \in matches : m[2] # i
    BY <1>1, <2>1 DEF MatchInv, MatchedOnce
  <2>3. \A m \in matches : m[2] \in 1..Len(after)
    BY WalkFacts
  <2>. QED
    BY <1>3, <2>2, <2>3
<1>5. WalkInStep'
  <2>1. i + 1 \in 1..(Len(after) + 1)
    BY <1>3
  <2>. QED
    BY <1>1, <1>2, <1>4, <2>1, MatchFacts DEF ActInv, WalkInStep
<1>6. ToInsert' = ToInsert \ {i} /\ i \in ToInsert
  <2>1. \A n \in diffI : i + 1 <= n <=> (i <= n /\ n # i)
    <3>1. \A n \in diffI : n \in Nat
      BY MatchFacts
    <3>. QED
      BY <1>3, <3>1
  <2>2. i <= i
    BY <1>3
  <2>. QED
    BY <1>1, <1>2, <2>1, <2>2 DEF ToInsert
<1>7. ToMove' = ToMove
  <2>1. \A t \in moveTemp : t[1] # i
    BY <1>1 DEF Reused
  <2>2. \A t \in moveTemp : i + 1 <= t[1] <=> i <= t[1]
    <3>1. \A t \in moveTemp : t[1] \in 1..Len(after)
      BY WalkFacts
    <3>. QED
      BY <1>3, <2>1, <3>1
  <2>. QED
    BY <1>1, <2>2 DEF ToMove
<1>8. RemainCounted'
  <2>1. Cardinality(ToInsert') = Cardinality(ToInsert) - 1
    BY <1>6, WalkFacts, FS_RemoveElement
  <2>2. Cardinality(ToMove) \in Nat /\ Cardinality(ToInsert) \in Nat
        /\ remain = Cardinality(ToInsert) + Cardinality(ToMove)
    BY WalkFacts DEF ActInv, RemainCounted
  <2>. QED
    BY <1>1, <1>7, <2>1, <2>2 DEF RemainCounted
<1>9. Returned'
  BY <1>1, <1>3, Growth DEF ActInv
<1>10. Waiting' = Waiting \ {-i}
  <2>1. \A t \in ToMove : t[2] # -i
    <3>1. \A t \in ToMove : t[2] \in 1..Len(before)
      BY WalkFacts DEF ToMove
    <3>. QED
      BY <1>3, <3>1
  <2>. QED
    BY <1>7, <2>1 DEF Waiting
<1>11. -i \notin Ahead
  BY <1>3 DEF Ahead
<1>12. ChildrenAre' /\ ChildrenInOrder'
  BY <1>1, <1>3, <1>10, <1>11, Placement
<1>. QED
  BY <1>5, <1>8, <1>9, <1>12 DEF ActInv

LEMMA KeepStep ==
  ASSUME MatchInv, next = Len(after) + 1, ActInv, Keep
  PROVE  ActInv'
<1>1. /\ Placing /\ Reused = {} /\ i \notin diffI
      /\ i' = i + 1 /\ moveTemp' = moveTemp /\ remain' = remain /\ children' = children
      /\ UNCHANGED <<inputs, diffVars>>
  BY DEF Keep
<1>2. i \in 1..Len(after) /\ Old /\ <<j, i>> \in kept
  BY <1>1, PlacingFacts
<1>3. j' = j + 1 /\ result' = Append(result, j) /\ j <= Len(before)
  BY <1>2 DEF Keep, Target, Old
<1>4. /\ before' = before /\ after' = after /\ matches' = matches /\ diffI' = diffI
      /\ diffM' = diffM /\ kept' = kept /\ \A n : Wanted(n)' = Wanted(n)
  BY <1>1, WalkFrame
<1>5. /\ Len(after) \in Nat /\ j \in 1..Len(before) /\ Len(before) \in Nat
  BY <1>3, MatchFacts, WalkFacts
<1>6. <<j, i>> \in matches /\ <<j, i>> \notin diffM /\ <<j, i>>[1] = j /\ <<j, i>>[2] = i
  BY <1>2, MatchFacts
<1>7. j = Wanted(i)
  BY <1>6, WantedIs
<1>8. \A m \in matches : (m[2] = i \/ m[1] = j) => m = <<j, i>>
  BY <1>6 DEF MatchInv, MatchedOnce
<1>9. \A m \in matches : /\ m[2] < i + 1 <=> m[2] < i \/ m = <<j, i>>
                         /\ m[1] < j + 1 <=> m[1] < j \/ m = <<j, i>>
  <2>1. ASSUME NEW m \in matches
        PROVE  /\ m[2] < i + 1 <=> m[2] < i \/ m = <<j, i>>
               /\ m[1] < j + 1 <=> m[1] < j \/ m = <<j, i>>
    <3>1. m[2] \in 1..Len(after) /\ m[1] \in 1..Len(before)
      BY WalkFacts, MatchFacts
    <3>. QED
      BY <1>2, <1>5, <1>6, <1>8, <3>1
  <2>. QED
    BY <2>1
<1>10. WalkInStep'
  <2>1. i + 1 \in 1..(Len(after) + 1) /\ j + 1 \in 1..(Len(before) + 1)
    BY <1>2, <1>5
  <2>2. {p \in diffM : p[1] < j + 1} = {p \in diffM : p[1] < j}
    BY <1>6, <1>9, MatchFacts
  <2>3. \A m \in kept : m[1] < j + 1 <=> m[2] < i + 1
    BY <1>9, MatchFacts, WalkFacts
  <2>4. \A m \in diffM : m[2] < i + 1 => m[1] < j + 1
    BY <1>6, <1>9, MatchFacts, WalkFacts
  <2>5. moveTemp = {<<m[2], m[1]>> : m \in {p \in diffM : p[1] < j}}
    BY DEF ActInv, WalkInStep
  <2>. QED
    BY <1>1, <1>3, <1>4, <2>1, <2>2, <2>3, <2>4, <2>5 DEF WalkInStep
<1>11. ToInsert' = ToInsert
  <2>1. \A n \in diffI : i + 1 <= n <=> i <= n
    <3>1. \A n \in diffI : n \in Nat /\ n # i
      BY <1>1, MatchFacts
    <3>. QED
      BY <1>2, <3>1
  <2>. QED
    BY <1>1, <1>4, <2>1 DEF ToInsert
<1>12. ToMove' = ToMove
  <2>1. \A t \in moveTemp : t[1] # i
    BY <1>1 DEF Reused
  <2>2. \A t \in moveTemp : i + 1 <= t[1] <=> i <= t[1]
    <3>1. \A t \in moveTemp : t[1] \in 1..Len(after)
      BY WalkFacts
    <3>. QED
      BY <1>2, <2>1, <3>1
  <2>. QED
    BY <1>1, <2>2 DEF ToMove
<1>13. RemainCounted' /\ Returned'
  <2>1. RemainCounted'
    BY <1>1, <1>11, <1>12 DEF ActInv, RemainCounted
  <2>. QED
    BY <1>1, <1>2, <1>3, <1>7, <2>1, Growth DEF ActInv
<1>14. Placed' = Placed \cup {j} /\ Waiting' = Waiting /\ Ahead' = Ahead \ {j} /\ j \in Ahead
  <2>1. \A n : n \in 1..((i + 1) - 1) <=> n \in 1..(i - 1) \/ n = i
    BY <1>2
  <2>2. Placed' = {Wanted(n) : n \in 1..((i + 1) - 1)}
    BY <1>1, <1>4 DEF Placed
  <2>3. Placed' = Placed \cup {j}
    BY <1>7, <2>1, <2>2 DEF Placed
  <2>4. Ahead' = Ahead \ {j} /\ j \in Ahead
    BY <1>3, <1>4, <1>5 DEF Ahead
  <2>. QED
    BY <1>12, <2>3, <2>4 DEF Waiting
<1>15. ChildrenAre /\ ChildrenInOrder
  BY DEF ActInv
<1>16. ChildrenAre'
  BY <1>1, <1>14, <1>15 DEF ChildrenAre
<1>17. ChildrenInOrder'
  <2>1. \A b \in Ahead \ {j} : Precedes(children, j, b)
    <3>1. \A b \in Ahead \ {j} : j < b /\ b \in Ahead
      BY <1>5 DEF Ahead
    <3>. QED
      BY <1>14, <1>15, <3>1 DEF ChildrenInOrder
  <2>2. \A n \in 1..(i - 1) : Precedes(children, Wanted(n), j)
    BY <1>14, <1>15 DEF ChildrenInOrder, Placed
  <2>3. ASSUME NEW n \in 1..i, NEW m \in 1..i, n < m PROVE Precedes(children, Wanted(n), Wanted(m))
    <3>1. n \in 1..(i - 1) /\ (m = i \/ m \in 1..(i - 1))
      BY <1>2, <2>3
    <3>. QED
      BY <1>7, <1>15, <2>2, <2>3, <3>1 DEF ChildrenInOrder
  <2>4. ASSUME NEW x \in Placed' \cup Waiting', NEW b \in Ahead' PROVE Precedes(children, x, b)
    <3>1. x = j \/ x \in Placed \cup Waiting
      BY <1>14
    <3>2. b \in Ahead \ {j} /\ b \in Ahead
      BY <1>14
    <3>. QED
      BY <1>15, <2>1, <3>1, <3>2 DEF ChildrenInOrder
  <2>5. ASSUME NEW b \in Ahead', NEW c \in Ahead', b < c PROVE Precedes(children, b, c)
    BY <1>14, <1>15, <2>5 DEF ChildrenInOrder
  <2>6. (i + 1) - 1 = i
    BY <1>2
  <2>. QED
    BY <1>1, <1>4, <2>3, <2>4, <2>5, <2>6 DEF ChildrenInOrder
<1>. QED
  BY <1>10, <1>13, <1>16, <1>17 DEF ActInv

\* The loop ends when both lists have been walked.
LEMMA ReturnFinished ==
  ASSUME MatchInv, next = Len(after) + 1, ActInv, ~Old, ~(remain > 0)
  PROVE  children = NewList /\ result = NewList
<1>1. /\ Len(before) \in Nat /\ Len(after) \in Nat /\ i \in 1..(Len(after) + 1)
      /\ j = Len(before) + 1
  BY MatchFacts, WalkFacts DEF Old
<1>2. ToInsert = {} /\ ToMove = {}
  <2>1. Cardinality(ToMove) \in Nat /\ Cardinality(ToInsert) \in Nat
        /\ remain = Cardinality(ToInsert) + Cardinality(ToMove)
    BY WalkFacts DEF ActInv, RemainCounted
  <2>2. Cardinality(ToMove) = 0 /\ Cardinality(ToInsert) = 0
    BY <2>1
  <2>. QED
    BY <2>2, WalkFacts, FS_EmptySet
<1>3. i = Len(after) + 1
  <2>1. ASSUME i \in 1..Len(after) PROVE FALSE
    <3>. DEFINE b == Wanted(i)
    <3>1. i \notin diffI
      BY <1>1, <1>2 DEF ToInsert
    <3>2. <<b, i>> \in matches /\ <<b, i>>[1] = b /\ <<b, i>>[2] = i
      BY <2>1, <3>1, WantedIs
    <3>. HIDE DEF b
    <3>3. b < j
      BY <1>1, <3>2, MatchFacts
    <3>4. <<b, i>> \notin kept
      <4>1. ~(i < i)
        BY <1>1
      <4>. QED
        BY <3>2, <3>3, <4>1, WalkFacts
    <3>5. <<i, b>> \in moveTemp
      BY <3>2, <3>3, <3>4, MatchFacts, WalkFacts
    <3>6. <<i, b>> \in ToMove
      <4>1. <<i, b>>[1] = i /\ i <= i
        BY <1>1
      <4>. QED
        BY <3>5, <4>1 DEF ToMove
    <3>. QED
      BY <1>2, <3>6
  <2>. QED
    BY <1>1, <2>1
<1>4. i - 1 = Len(after)
  BY <1>1, <1>3
<1>5. Waiting = {} /\ Ahead = {} /\ Placed = {Wanted(n) : n \in 1..Len(after)}
  BY <1>1, <1>2, <1>4 DEF Waiting, Ahead, Placed
<1>6. /\ children \in Seq(Int) /\ Distinct(children)
      /\ ToSet(children) = {Wanted(n) : n \in 1..Len(after)}
      /\ \A n, m \in 1..Len(after) : n < m => Precedes(children, Wanted(n), Wanted(m))
  BY <1>4, <1>5 DEF ActInv, ChildrenAre, ChildrenInOrder
<1>7. children = NewList
  BY <1>6, IsNewList
<1>8. result = NewList
  BY <1>4, MatchFacts DEF ActInv, Returned, NewList
<1>. QED
  BY <1>7, <1>8

-----------------------------------------------------------------------------
(* The theorems *)

LEMMA DiffInductive == DiffInv /\ [Next]_vars => DiffInv'
<1>. SUFFICES ASSUME DiffInv, [Next]_vars PROVE DiffInv'
  OBVIOUS
<1>0. MatchInv /\ (phase = "match" => Untouched) /\ (phase = "act" => ActInv)
      /\ (phase = "done" => Finished)
  BY DEF DiffInv
<1>1. CASE Reuse
  <2>1. phase = "match" /\ phase' = "match" /\ UNCHANGED <<before, actionVars>>
    BY <1>1 DEF Reuse, inputs
  <2>2. Untouched'
    BY <1>0, <2>1 DEF Untouched, actionVars
  <2>. QED
    BY <1>0, <1>1, <2>1, <2>2, ReuseMatch DEF DiffInv
<1>2. CASE CreateNew
  <2>1. phase = "match" /\ phase' = "match" /\ UNCHANGED <<before, actionVars>>
    BY <1>2 DEF CreateNew, inputs
  <2>2. Untouched'
    BY <1>0, <2>1 DEF Untouched, actionVars
  <2>. QED
    BY <1>0, <1>2, <2>1, <2>2, CreateNewMatch DEF DiffInv
<1>3. CASE BeginAction
  <2>1. /\ phase = "match" /\ next = Len(after) + 1
        /\ UNCHANGED <<inputs, diffVars>> /\ children' = children
    BY <1>3 DEF BeginAction
  <2>2. CASE isEmptyDiffResult
    <3>1. phase' = "done" /\ result' = children
      BY <1>3, <2>2 DEF BeginAction
    <3>2. children = NewList
      BY <1>0, <2>1, <2>2, BeginFinished
    <3>3. NewList' = NewList /\ MatchInv'
      BY <1>0, <2>1, <3>1, WalkFrame DEF NewList
    <3>4. Finished'
      BY <2>1, <3>1, <3>2, <3>3 DEF Finished, NewList
    <3>. QED
      BY <3>1, <3>3, <3>4 DEF DiffInv
  <2>3. CASE ~isEmptyDiffResult
    <3>1. phase' = "act"
      BY <1>3, <2>3 DEF BeginAction
    <3>2. ActInv' /\ MatchInv'
      BY <1>0, <1>3, <2>1, <2>3, <3>1, BeginActing, WalkFrame
    <3>. QED
      BY <3>1, <3>2 DEF DiffInv
  <2>. QED
    BY <2>2, <2>3
<1>4. CASE Delete \/ SaveNode \/ PlaceMoved \/ InsertNew \/ Keep
  <2>1. phase = "act" /\ phase' = "act" /\ UNCHANGED <<inputs, diffVars>>
    BY <1>4 DEF Delete, SaveNode, PlaceMoved, InsertNew, Keep, Placing, Looping
  <2>2. ActInv /\ next = Len(after) + 1
    BY <1>0, <2>1 DEF MatchInv
  <2>3. MatchInv'
    BY <1>0, <2>1, <2>2, WalkFrame
  <2>4. ActInv'
    BY <1>0, <1>4, <2>2, DeleteStep, SaveNodeStep, PlaceMovedStep, InsertNewStep, KeepStep
  <2>. QED
    BY <2>1, <2>3, <2>4 DEF DiffInv
<1>5. CASE Return
  <2>1. /\ phase = "act" /\ phase' = "done" /\ ~Old /\ ~(remain > 0)
        /\ UNCHANGED <<inputs, diffVars, actionVars>>
    BY <1>5 DEF Return, Looping
  <2>2. ActInv /\ next = Len(after) + 1
    BY <1>0, <2>1 DEF MatchInv
  <2>3. children = NewList /\ result = NewList
    BY <1>0, <2>1, <2>2, ReturnFinished
  <2>4. MatchInv' /\ NewList' = NewList
    BY <1>0, <2>1, <2>2, WalkFrame DEF NewList
  <2>5. Finished'
    BY <2>1, <2>3, <2>4 DEF Finished, NewList, actionVars
  <2>. QED
    BY <2>1, <2>4, <2>5 DEF DiffInv
<1>6. CASE UNCHANGED vars
  <2>1. UNCHANGED <<inputs, phase, diffVars, actionVars>>
    BY <1>6 DEF vars
  <2>2. /\ before' = before /\ after' = after /\ matches' = matches
        /\ diffI' = diffI /\ diffM' = diffM
        /\ unmatched' = unmatched /\ next' = next /\ lastPlaced' = lastPlaced /\ kept' = kept
        /\ i' = i /\ j' = j /\ moveTemp' = moveTemp /\ remain' = remain /\ result' = result
        /\ children' = children /\ phase' = phase /\ \A n : Wanted(n)' = Wanted(n)
    BY <2>1 DEF inputs, diffVars, actionVars, kept, Wanted
  <2>3. MatchInv'
    BY <1>0, <2>2 DEF MatchInv, MatchTypes, MatchedOnce, KeptInOrder
  <2>4. Untouched' = Untouched /\ Finished' = Finished
    BY <2>2 DEF Untouched, Finished
  <2>5. ActInv => ActInv'
    <3>1. ToInsert' = ToInsert /\ ToMove' = ToMove /\ Placed' = Placed /\ Ahead' = Ahead
      BY <2>2 DEF ToInsert, ToMove, Placed, Ahead
    <3>2. Waiting' = Waiting
      BY <3>1 DEF Waiting
    <3>3. WalkInStep' = WalkInStep
      BY <2>2 DEF WalkInStep
    <3>4. (RemainCounted => RemainCounted') /\ (Returned => Returned')
      BY <2>2, <3>1 DEF RemainCounted, Returned
    <3>5. (ChildrenAre => ChildrenAre') /\ (ChildrenInOrder => ChildrenInOrder')
      BY <2>2, <3>1, <3>2 DEF ChildrenAre, ChildrenInOrder
    <3>. QED
      BY <3>3, <3>4, <3>5 DEF ActInv
  <2>. QED
    BY <1>0, <2>2, <2>3, <2>4, <2>5 DEF DiffInv
<1>. QED
  BY <1>1, <1>2, <1>3, <1>4, <1>5, <1>6 DEF Next

LEMMA DiffInvAlways == Spec => []DiffInv
<1>1. Init => DiffInv
  BY InitMatch, InputsAssumption DEF DiffInv
<1>2. DiffInv /\ [Next]_vars => DiffInv'
  BY DiffInductive
<1>. QED
  BY <1>1, <1>2, PTL DEF Spec

\* Whatever the two lists are, the caller's elements and the list returned become the new
\* list, every element is matched once with one of its key and type, and the loop never
\* looks past the old list for an element to keep.
THEOREM DiffIsRight == Spec => []BecomesAfter
<1>1. DiffInv => BecomesAfter
  <2>. SUFFICES ASSUME DiffInv PROVE BecomesAfter
    OBVIOUS
  <2>0. MatchInv /\ (phase = "match" => Untouched) /\ (phase = "act" => ActInv)
        /\ (phase = "done" => Finished) /\ phase \in {"match", "act", "done"}
    BY DEF DiffInv, MatchInv, MatchTypes
  <2>1. phase = "done" => children = [n \in DOMAIN after |-> Wanted(n)] /\ result = children
    BY <2>0 DEF Finished
  <2>2. /\ \A m, p \in matches : m[1] = p[1] \/ m[2] = p[2] => m = p
        /\ \A m \in matches : before[m[1]] = after[m[2]]
    BY <2>0 DEF MatchInv, MatchedOnce
  <2>3. Undefined \notin ToSet(result)
    <3>1. CASE phase = "match"
      BY <2>0, <3>1 DEF Untouched, ToSet
    <3>2. CASE phase # "match"
      <4>1. next = Len(after) + 1
        BY <2>0, <3>2 DEF MatchInv
      <4>2. PICK k \in 0..Len(after) : result = [n \in 1..k |-> Wanted(n)]
        <5>1. CASE phase = "act"
          <6>1. i - 1 \in 0..Len(after)
            BY <2>0, <4>1, <5>1, WalkFacts, MatchFacts
          <6>. QED
            BY <2>0, <5>1, <6>1 DEF ActInv, Returned
        <5>2. CASE phase = "done"
          <6>1. DOMAIN after = 1..Len(after) /\ Len(after) \in 0..Len(after)
            BY <2>0, MatchFacts
          <6>. QED
            BY <2>0, <5>2, <6>1 DEF Finished
        <5>. QED
          BY <2>0, <3>2, <5>1, <5>2
      <4>3. \A n \in 1..k : Wanted(n) # 0
        <5>1. \A n \in 1..k : n \in 1..Len(after)
          BY <2>0, MatchFacts
        <5>. QED
          BY <2>0, <4>1, <5>1, WantedIs
      <4>. QED
        BY <4>2, <4>3 DEF ToSet, Undefined
    <3>. QED
      BY <3>1, <3>2
  <2>. QED
    BY <2>1, <2>2, <2>3 DEF BecomesAfter
<1>. QED
  BY <1>1, DiffInvAlways, PTL

-----------------------------------------------------------------------------
(* Lists that match pairwise *)

LEMMA SameReuse ==
  ASSUME MatchInv, SameInv, before = after, phase = "match", next <= Len(after)
  PROVE  Match = {next} /\ ~MustMove(next)
<1>1. /\ next \in 1..Len(before) /\ Len(before) \in Nat /\ unmatched = next..Len(before)
      /\ lastPlaced = (IF next = 1 THEN 1 ELSE next - 1)
  BY MatchFacts DEF SameInv
<1>2. next \in unmatched /\ \A b \in unmatched : next <= b /\ b \in Nat
  BY <1>1
<1>3. Candidate = {next}
  <2>. DEFINE T == {b \in unmatched : before[b].key = after[next].key}
  <2>1. next \in T /\ \A b \in T : next <= b /\ b \in Nat
    BY <1>2
  <2>2. Candidate = Earliest(T)
    BY DEF Candidate
  <2>. HIDE DEF T
  <2>3. next \in Earliest(T)
    BY <2>1 DEF Earliest
  <2>4. \A b \in Earliest(T) : b = next
    BY <1>1, <2>1 DEF Earliest
  <2>. QED
    BY <2>2, <2>3, <2>4
<1>4. Match = {next}
  BY <1>3 DEF Match, SameType
<1>5. ~MustMove(next)
  BY <1>1 DEF MustMove
<1>. QED
  BY <1>4, <1>5

LEMMA SameInductive == DiffInv /\ SameInv /\ [Next]_vars => SameInv'
<1>. SUFFICES ASSUME DiffInv, SameInv, [Next]_vars PROVE SameInv'
  OBVIOUS
<1>0. MatchInv
  BY DEF DiffInv
<1>1. ASSUME UNCHANGED <<inputs, diffVars>> PROVE SameInv'
  BY <1>1 DEF SameInv, inputs, diffVars
<1>2. CASE Reuse
  <2>. SUFFICES ASSUME before' = after' PROVE SameInv'
    BY DEF SameInv
  <2>1. before = after /\ phase = "match" /\ next <= Len(after)
    BY <1>2 DEF Reuse, inputs
  <2>2. Match = {next} /\ ~MustMove(next)
    BY <1>0, <2>1, SameReuse
  <2>3. /\ unmatched' = unmatched \ {next} /\ matches' = matches \cup {<<next, next>>}
        /\ lastPlaced' = next /\ diffM' = diffM /\ diffI' = diffI /\ next' = next + 1
        /\ before' = before
    BY <1>2, <2>2 DEF Reuse, inputs
  <2>4. /\ matches = {<<n, n>> : n \in 1..(next - 1)} /\ unmatched = next..Len(before)
        /\ diffI = {} /\ diffM = {}
    BY <2>1 DEF SameInv
  <2>5. next \in Nat \ {0} /\ Len(before) \in Nat /\ next <= Len(before)
    BY <1>0, <2>1, MatchFacts
  <2>6. \A n : n \in 1..((next + 1) - 1) <=> n \in 1..(next - 1) \/ n = next
    BY <2>5
  <2>7. matches' = {<<n, n>> : n \in 1..((next + 1) - 1)}
    BY <2>3, <2>4, <2>6
  <2>8. unmatched' = (next + 1)..Len(before)
    BY <2>3, <2>4, <2>5
  <2>9. next + 1 # 1 /\ (next + 1) - 1 = next
    BY <2>5
  <2>. QED
    BY <2>3, <2>4, <2>7, <2>8, <2>9 DEF SameInv
<1>3. CASE CreateNew
  <2>1. phase = "match" /\ next <= Len(after) /\ Match = {} /\ before' = before /\ after' = after
    BY <1>3 DEF CreateNew, inputs
  <2>2. before # after
    BY <1>0, <2>1, SameReuse
  <2>. QED
    BY <2>1, <2>2 DEF SameInv
<1>4. CASE BeginAction \/ Delete \/ SaveNode \/ PlaceMoved \/ InsertNew \/ Keep \/ Return
  BY <1>1, <1>4 DEF BeginAction, Delete, SaveNode, PlaceMoved, InsertNew, Keep, Return
<1>5. CASE UNCHANGED vars
  BY <1>1, <1>5 DEF vars
<1>. QED
  BY <1>2, <1>3, <1>4, <1>5 DEF Next

\* Hydration may skip the diff for lists that match pairwise, however long they are: the
\* diff would be empty and match the lists pairwise.
THEOREM FastPathIsRight == Spec => []FastPathAgrees
<1>1. Init => SameInv
  BY InitMatch, InputsAssumption
<1>2. DiffInv /\ SameInv /\ [Next]_vars => SameInv'
  BY SameInductive
<1>3. DiffInv /\ SameInv => FastPathAgrees
  <2>. SUFFICES ASSUME DiffInv, SameInv, phase # "match", before = after
                PROVE  isEmptyDiffResult /\ matches = {<<n, n>> : n \in DOMAIN before}
    BY DEF FastPathAgrees
  <2>1. MatchInv /\ next = Len(before) + 1
    BY DEF DiffInv, MatchInv
  <2>2. Len(before) \in Nat /\ DOMAIN before = 1..Len(before) /\ next - 1 = Len(before)
    BY <2>1, MatchFacts
  <2>3. unmatched = {}
    BY <2>1, <2>2 DEF SameInv
  <2>. QED
    BY <2>2, <2>3 DEF SameInv, isEmptyDiffResult, diffR
<1>. QED
  BY <1>1, <1>2, <1>3, DiffInvAlways, PTL DEF Spec

-----------------------------------------------------------------------------
(* The list that the native side fills by the positions it is sent *)

\* What holds of 0 and is passed on holds of all numbers up to N.
LEMMA UpTo ==
  ASSUME NEW N \in Nat, NEW T, 0 \in T, \A n \in 0..N : n + 1 <= N /\ n \in T => n + 1 \in T
  PROVE  \A n \in 0..N : n \in T
<1>. DEFINE U == {n \in 0..N : n \notin T}
<1>1. SUFFICES ASSUME U # {} PROVE FALSE
  OBVIOUS
<1>2. U \subseteq Nat
  OBVIOUS
<1>3. PICK n \in U : \A m \in U : n <= m
  <2>. HIDE DEF U
  <2>. QED
    BY <1>1, <1>2, LeastNumber
<1>4. n \in 1..N /\ n \notin T
  BY <1>3
<1>5. n - 1 \in 0..N /\ n - 1 \notin U /\ (n - 1) + 1 = n
  BY <1>3, <1>4
<1>. QED
  BY <1>4, <1>5

\* The two recursive functions are functions: each is defined for all its arguments.
LEMMA RemainingIs ==
  ASSUME Len(before) \in Nat
  PROVE  Remaining = [b \in 0..Len(before) |->
                        IF b = 0 THEN <<>>
                        ELSE IF b \in removals THEN Remaining[b - 1]
                        ELSE Append(Remaining[b - 1], b)]
<1>. DEFINE L == Len(before)
            R(f, b) == IF b = 0 THEN <<>>
                       ELSE IF b \in removals THEN f[b - 1] ELSE Append(f[b - 1], b)
            T == {n \in 0..L : \E f : f = [b \in 0..n |-> R(f, b)]}
<1>1. 0 \in T
  <2>. DEFINE g == [b \in 0..0 |-> <<>>]
  <2>1. g = [b \in 0..0 |-> R(g, b)]
    OBVIOUS
  <2>2. 0 \in 0..L
    OBVIOUS
  <2>. HIDE DEF g
  <2>. QED
    BY <2>1, <2>2
<1>2. ASSUME NEW n \in 0..L, n + 1 <= L, n \in T PROVE n + 1 \in T
  <2>1. PICK g : g = [b \in 0..n |-> R(g, b)]
    BY <1>2
  <2>. DEFINE h == [b \in 0..(n + 1) |-> IF b = n + 1 THEN R(g, b) ELSE g[b]]
  <2>2. ASSUME NEW b \in 0..(n + 1) PROVE h[b] = R(h, b)
    <3>1. CASE b = 0
      BY <2>1, <3>1
    <3>2. CASE b # 0
      <4>1. b - 1 \in 0..(n + 1) /\ b - 1 # n + 1
        BY <3>2
      <4>2. h[b - 1] = g[b - 1]
        BY <4>1
      <4>3. R(h, b) = R(g, b)
        BY <4>2
      <4>4. CASE b = n + 1
        BY <4>3, <4>4
      <4>5. CASE b # n + 1
        <5>1. b \in 0..n
          BY <4>5
        <5>2. g[b] = R(g, b)
          BY <2>1, <5>1
        <5>. QED
          BY <4>3, <4>5, <5>2
      <4>. QED
        BY <4>4, <4>5
    <3>. QED
      BY <3>1, <3>2
  <2>3. h = [b \in 0..(n + 1) |-> R(h, b)]
    <3>. DEFINE k == [b \in 0..(n + 1) |-> R(h, b)]
    <3>1. DOMAIN h = 0..(n + 1) /\ h = [b \in 0..(n + 1) |-> h[b]]
      OBVIOUS
    <3>. HIDE DEF h
    <3>. QED
      BY <2>2, <3>1
  <2>4. n + 1 \in 0..L
    BY <1>2
  <2>. HIDE DEF h
  <2>. QED
    BY <2>3, <2>4
<1>3. L \in T
  <2>. HIDE DEF T
  <2>1. L \in 0..L
    OBVIOUS
  <2>. QED
    BY <1>1, <1>2, <2>1, UpTo
<1>4. \E f : f = [b \in 0..L |-> R(f, b)]
  BY <1>3
<1>. QED
  BY <1>4 DEF Remaining

LEMMA NativeListIs ==
  ASSUME Len(after) \in Nat
  PROVE  NativeList = [n \in 0..Len(after) |->
                         IF n = 0 THEN Remaining[Len(before)]
                         ELSE IF n \in insertions THEN InsertAt(NativeList[n - 1], n, Wanted(n))
                         ELSE NativeList[n - 1]]
<1>. DEFINE L == Len(after)
            R(f, n) == IF n = 0 THEN Remaining[Len(before)]
                       ELSE IF n \in insertions THEN InsertAt(f[n - 1], n, Wanted(n)) ELSE f[n - 1]
            T == {n \in 0..L : \E f : f = [b \in 0..n |-> R(f, b)]}
<1>1. 0 \in T
  <2>. DEFINE g == [b \in 0..0 |-> Remaining[Len(before)]]
  <2>1. g = [b \in 0..0 |-> R(g, b)]
    OBVIOUS
  <2>2. 0 \in 0..L
    OBVIOUS
  <2>. HIDE DEF g
  <2>. QED
    BY <2>1, <2>2
<1>2. ASSUME NEW n \in 0..L, n + 1 <= L, n \in T PROVE n + 1 \in T
  <2>1. PICK g : g = [b \in 0..n |-> R(g, b)]
    BY <1>2
  <2>. DEFINE h == [b \in 0..(n + 1) |-> IF b = n + 1 THEN R(g, b) ELSE g[b]]
  <2>2. ASSUME NEW b \in 0..(n + 1) PROVE h[b] = R(h, b)
    <3>1. CASE b = 0
      BY <2>1, <3>1
    <3>2. CASE b # 0
      <4>1. b - 1 \in 0..(n + 1) /\ b - 1 # n + 1
        BY <3>2
      <4>2. h[b - 1] = g[b - 1]
        BY <4>1
      <4>3. R(h, b) = R(g, b)
        BY <4>2
      <4>4. CASE b = n + 1
        BY <4>3, <4>4
      <4>5. CASE b # n + 1
        <5>1. b \in 0..n
          BY <4>5
        <5>2. g[b] = R(g, b)
          BY <2>1, <5>1
        <5>. QED
          BY <4>3, <4>5, <5>2
      <4>. QED
        BY <4>4, <4>5
    <3>. QED
      BY <3>1, <3>2
  <2>3. h = [b \in 0..(n + 1) |-> R(h, b)]
    <3>1. DOMAIN h = 0..(n + 1) /\ h = [b \in 0..(n + 1) |-> h[b]]
      OBVIOUS
    <3>. HIDE DEF h
    <3>. QED
      BY <2>2, <3>1
  <2>4. n + 1 \in 0..L
    BY <1>2
  <2>. HIDE DEF h
  <2>. QED
    BY <2>3, <2>4
<1>3. L \in T
  <2>. HIDE DEF T
  <2>1. L \in 0..L
    OBVIOUS
  <2>. QED
    BY <1>1, <1>2, <2>1, UpTo
<1>4. \E f : f = [b \in 0..L |-> R(f, b)]
  BY <1>3
<1>. QED
  BY <1>4 DEF NativeList

\* What is left of the first b old positions, in their order.
RemainsOf(q, b) ==
  /\ q \in Seq(Int) /\ ToSet(q) = (1..b) \ removals
  /\ \A p, r \in 1..Len(q) : p < r => q[p] < q[r]

LEMMA RemainsGrow ==
  ASSUME NEW q, NEW b \in Nat, RemainsOf(q, b)
  PROVE  RemainsOf(IF b + 1 \in removals THEN q ELSE Append(q, b + 1), b + 1)
<1>0. /\ q \in Seq(Int) /\ ToSet(q) = (1..b) \ removals /\ Len(q) \in Nat /\ DOMAIN q = 1..Len(q)
      /\ \A p, r \in 1..Len(q) : p < r => q[p] < q[r]
  BY DEF RemainsOf
<1>1. 1..(b + 1) = (1..b) \cup {b + 1}
  OBVIOUS
<1>2. CASE b + 1 \in removals
  BY <1>0, <1>1, <1>2 DEF RemainsOf
<1>3. CASE b + 1 \notin removals
  <2>. DEFINE u == Append(q, b + 1)
  <2>1. /\ u \in Seq(Int) /\ Len(u) = Len(q) + 1 /\ DOMAIN u = 1..(Len(q) + 1)
        /\ u[Len(q) + 1] = b + 1 /\ \A p \in 1..Len(q) : u[p] = q[p]
    BY <1>0
  <2>. HIDE DEF u
  <2>2. \A p \in 1..Len(q) : q[p] \in 1..b
    BY <1>0 DEF ToSet
  <2>3. \A p \in 1..(Len(q) + 1) : p \in 1..Len(q) \/ p = Len(q) + 1
    BY <1>0
  <2>4. ToSet(u) = ToSet(q) \cup {b + 1}
    <3>1. ASSUME NEW x \in ToSet(u) PROVE x \in ToSet(q) \cup {b + 1}
      BY <1>0, <2>1, <2>3, <3>1 DEF ToSet
    <3>2. Len(q) + 1 \in 1..(Len(q) + 1) /\ \A p \in 1..Len(q) : p \in 1..(Len(q) + 1)
      BY <1>0
    <3>3. ASSUME NEW x \in ToSet(q) \cup {b + 1} PROVE x \in ToSet(u)
      BY <1>0, <2>1, <3>2, <3>3 DEF ToSet
    <3>. QED
      BY <3>1, <3>3
  <2>5. ASSUME NEW p \in 1..Len(u), NEW r \in 1..Len(u), p < r PROVE u[p] < u[r]
    <3>1. p \in 1..Len(q)
      BY <1>0, <2>1, <2>5
    <3>2. CASE r \in 1..Len(q)
      BY <1>0, <2>1, <2>5, <3>1, <3>2
    <3>3. CASE r = Len(q) + 1
      BY <2>1, <2>2, <3>1, <3>3
    <3>. QED
      BY <2>1, <2>3, <3>2, <3>3
  <2>6. RemainsOf(u, b + 1)
    BY <1>0, <1>1, <1>3, <2>1, <2>4, <2>5 DEF RemainsOf
  <2>. QED
    BY <1>3, <2>6 DEF u
<1>. QED
  BY <1>2, <1>3

LEMMA RemainingRemains ==
  ASSUME Len(before) \in Nat
  PROVE  RemainsOf(Remaining[Len(before)], Len(before))
<1>. DEFINE L == Len(before)
            T == {b \in 0..L : RemainsOf(Remaining[b], b)}
<1>1. 0 \in T
  <2>1. 0 \in 0..L /\ Remaining[0] = <<>>
    BY RemainingIs
  <2>2. RemainsOf(<<>>, 0)
    BY DEF RemainsOf, ToSet
  <2>. QED
    BY <2>1, <2>2
<1>2. ASSUME NEW b \in 0..L, b + 1 <= L, b \in T PROVE b + 1 \in T
  <2>1. b + 1 \in 0..L /\ b + 1 # 0 /\ (b + 1) - 1 = b /\ b \in Nat
    BY <1>2
  <2>2. Remaining[b + 1] = IF b + 1 \in removals THEN Remaining[b] ELSE Append(Remaining[b], b + 1)
    BY <2>1, RemainingIs
  <2>3. RemainsOf(Remaining[b], b)
    BY <1>2
  <2>4. RemainsOf(Remaining[b + 1], b + 1)
    BY <2>1, <2>2, <2>3, RemainsGrow
  <2>. QED
    BY <2>1, <2>4
<1>. HIDE DEF T
<1>3. L \in T
  <2>1. L \in 0..L
    OBVIOUS
  <2>. QED
    BY <1>1, <1>2, <2>1, UpTo
<1>. QED
  BY <1>3 DEF T

\* The first n places have the items of the new list, and behind them are, in their
\* order, the old ones that are kept for later places.
KeptBehind(n) == {m[1] : m \in {p \in kept : n < p[2]}}
FilledTo(q, n) ==
  /\ q \in Seq(Int) /\ n <= Len(q)
  /\ \A k \in 1..n : q[k] = Wanted(k)
  /\ \A p \in (n + 1)..Len(q) : q[p] \in KeptBehind(n)
  /\ \A x \in KeptBehind(n) : \E p \in (n + 1)..Len(q) : q[p] = x
  /\ \A p, r \in (n + 1)..Len(q) : p < r => q[p] < q[r]

LEMMA FilledFirst ==
  ASSUME MatchInv, next = Len(after) + 1
  PROVE  FilledTo(Remaining[Len(before)], 0)
<1>. DEFINE q == Remaining[Len(before)]
<1>1. RemainsOf(q, Len(before))
  BY MatchFacts, RemainingRemains
<1>. HIDE DEF q
<1>2. /\ q \in Seq(Int) /\ ToSet(q) = (1..Len(before)) \ removals /\ Len(q) \in Nat
      /\ DOMAIN q = 1..Len(q) /\ \A p, r \in 1..Len(q) : p < r => q[p] < q[r]
  BY <1>1 DEF RemainsOf
<1>3. ToSet(q) = KeptBehind(0)
  <2>1. ASSUME NEW x \in ToSet(q) PROVE x \in KeptBehind(0)
    <3>1. x \in 1..Len(before) /\ x \notin unmatched /\ \A m \in diffM : m[1] # x
      BY <1>2, <2>1 DEF removals, diffR
    <3>2. PICK m \in matches : m[1] = x
      BY <3>1, MatchFacts DEF MatchInv, MatchedOnce
    <3>3. m \in kept /\ 0 < m[2]
      BY <3>1, <3>2, MatchFacts
    <3>. QED
      BY <3>2, <3>3 DEF KeptBehind
  <2>2. ASSUME NEW x \in KeptBehind(0) PROVE x \in ToSet(q)
    <3>1. PICK m \in kept : m[1] = x
      BY <2>2 DEF KeptBehind
    <3>2. m \in matches /\ m \notin diffM /\ x \in 1..Len(before)
      BY <3>1, MatchFacts
    <3>3. x \notin unmatched /\ \A p \in diffM : p[1] # x
      BY <3>1, <3>2, MatchFacts DEF MatchInv, MatchedOnce
    <3>. QED
      BY <1>2, <3>2, <3>3 DEF removals, diffR
  <2>. QED
    BY <2>1, <2>2
<1>4. (0 + 1)..Len(q) = 1..Len(q) /\ 1..0 = {} /\ 0 <= Len(q)
  BY <1>2
<1>5. \A p \in 1..Len(q) : q[p] \in KeptBehind(0)
  BY <1>2, <1>3 DEF ToSet
<1>6. \A x \in KeptBehind(0) : \E p \in 1..Len(q) : q[p] = x
  BY <1>2, <1>3 DEF ToSet
<1>7. FilledTo(q, 0)
  BY <1>2, <1>4, <1>5, <1>6 DEF FilledTo
<1>. QED
  BY <1>7 DEF q

\* InsertedAt where the elements are integers.
Inserting(S) ==
  \A q \in Seq(S), x \in S : \A k \in 1..(Len(q) + 1) :
    /\ InsertAt(q, k, x) \in Seq(S) /\ Len(InsertAt(q, k, x)) = Len(q) + 1
    /\ \A n \in 1..(Len(q) + 1) :
         InsertAt(q, k, x)[n] = IF n < k THEN q[n] ELSE IF n = k THEN x ELSE q[n - 1]

LEMMA InsertedInt == Inserting(Int)
<1>1. ASSUME NEW S PROVE Inserting(S)
  BY InsertedAt DEF Inserting
<1>. QED
  BY <1>1

LEMMA FillInserted ==
  ASSUME MatchInv, next = Len(after) + 1, NEW n \in Nat, n + 1 <= Len(after), n + 1 \in insertions,
         NEW q, FilledTo(q, n)
  PROVE  FilledTo(InsertAt(q, n + 1, Wanted(n + 1)), n + 1)
<1>. DEFINE u == InsertAt(q, n + 1, Wanted(n + 1))
<1>0. /\ q \in Seq(Int) /\ n <= Len(q) /\ Len(q) \in Nat /\ n + 1 \in 1..(Len(q) + 1)
      /\ \A k \in 1..n : q[k] = Wanted(k)
      /\ \A p \in (n + 1)..Len(q) : q[p] \in KeptBehind(n)
      /\ \A x \in KeptBehind(n) : \E p \in (n + 1)..Len(q) : q[p] = x
      /\ \A p, r \in (n + 1)..Len(q) : p < r => q[p] < q[r]
  BY DEF FilledTo
<1>1. Wanted(n + 1) \in Int
  BY MatchFacts, WantedIs
<1>2. /\ u \in Seq(Int) /\ Len(u) = Len(q) + 1
      /\ \A k \in 1..(Len(q) + 1) :
           u[k] = IF k < n + 1 THEN q[k] ELSE IF k = n + 1 THEN Wanted(n + 1) ELSE q[k - 1]
  <2>. DEFINE w == Wanted(n + 1)
              c == n + 1
  <2>1. w \in Int /\ q \in Seq(Int) /\ c \in 1..(Len(q) + 1) /\ u = InsertAt(q, c, w)
    BY <1>0, <1>1
  <2>. HIDE DEF u, w, c
  <2>2. /\ u \in Seq(Int) /\ Len(u) = Len(q) + 1
        /\ \A k \in 1..(Len(q) + 1) : u[k] = IF k < c THEN q[k] ELSE IF k = c THEN w ELSE q[k - 1]
    BY <2>1, InsertedInt, SMTT(30) DEF Inserting
  <2>. QED
    BY <2>2 DEF w, c
<1>. HIDE DEF u
<1>3. KeptBehind(n + 1) = KeptBehind(n)
  <2>1. ASSUME NEW m \in kept PROVE m[2] # n + 1
    <3>1. m \in matches /\ m \notin diffM
      BY MatchFacts
    <3>2. n + 1 \in diffI \/ \E p \in diffM : p[2] = n + 1
      BY DEF insertions
    <3>3. n + 1 \in diffI => m[2] # n + 1
      BY <3>1, MatchFacts DEF MatchInv, MatchedOnce
    <3>4. \A p \in diffM : p[2] = m[2] => p = m
      BY <3>1, MatchFacts DEF MatchInv, MatchedOnce
    <3>. QED
      BY <3>1, <3>2, <3>3, <3>4
  <2>2. \A m \in kept : n + 1 < m[2] <=> n < m[2]
    BY <2>1, MatchFacts
  <2>. QED
    BY <2>2 DEF KeptBehind
<1>4. \A k \in 1..(n + 1) : u[k] = Wanted(k)
  <2>1. ASSUME NEW k \in 1..(n + 1) PROVE u[k] = Wanted(k)
    <3>1. k \in 1..(Len(q) + 1)
      BY <1>0
    <3>2. CASE k = n + 1
      BY <1>2, <3>1, <3>2
    <3>3. CASE k # n + 1
      <4>1. k < n + 1 /\ k \in 1..n
        BY <3>3
      <4>. QED
        BY <1>0, <1>2, <3>1, <4>1
    <3>. QED
      BY <3>2, <3>3
  <2>. QED
    BY <2>1
<1>5. \A p \in ((n + 1) + 1)..Len(u) : p - 1 \in (n + 1)..Len(q) /\ u[p] = q[p - 1]
  BY <1>0, <1>2, SMTT(30)
<1>6. \A p \in (n + 1)..Len(q) : p + 1 \in ((n + 1) + 1)..Len(u) /\ u[p + 1] = q[p]
  BY <1>0, <1>2, SMTT(30)
<1>7. \A x \in KeptBehind(n) : \E p \in ((n + 1) + 1)..Len(u) : u[p] = x
  BY <1>0, <1>6
<1>8. \A p, r \in ((n + 1) + 1)..Len(u) : p < r => u[p] < u[r]
  <2>1. ASSUME NEW p \in ((n + 1) + 1)..Len(u), NEW r \in ((n + 1) + 1)..Len(u), p < r
        PROVE  u[p] < u[r]
    <3>1. p - 1 < r - 1
      BY <2>1, <1>2, <1>0
    <3>. QED
      BY <1>0, <1>5, <2>1, <3>1
  <2>. QED
    BY <2>1
<1>9. n + 1 <= Len(u)
  BY <1>0, <1>2
<1>. QED
  BY <1>0, <1>2, <1>3, <1>4, <1>5, <1>7, <1>8, <1>9 DEF FilledTo, u

\* The first old element behind the places that are filled is the one for the next place.
LEMMA FillKept ==
  ASSUME MatchInv, next = Len(after) + 1, NEW n \in Nat, n + 1 <= Len(after),
         n + 1 \notin insertions, NEW q, FilledTo(q, n)
  PROVE  FilledTo(q, n + 1)
<1>0. /\ q \in Seq(Int) /\ n <= Len(q) /\ Len(q) \in Nat
      /\ \A k \in 1..n : q[k] = Wanted(k)
      /\ \A p \in (n + 1)..Len(q) : q[p] \in KeptBehind(n)
      /\ \A x \in KeptBehind(n) : \E p \in (n + 1)..Len(q) : q[p] = x
      /\ \A p, r \in (n + 1)..Len(q) : p < r => q[p] < q[r]
  BY DEF FilledTo
<1>1. PICK m \in kept : m[2] = n + 1 /\ Wanted(n + 1) = m[1]
  <2>1. n + 1 \in 1..Len(after) /\ n + 1 \notin diffI /\ \A p \in diffM : p[2] # n + 1
    BY MatchFacts DEF insertions
  <2>2. PICK m \in matches : m = <<Wanted(n + 1), n + 1>>
    BY <2>1, WantedIs
  <2>3. m[1] = Wanted(n + 1) /\ m[2] = n + 1
    BY <2>2
  <2>4. m \in kept
    BY <2>1, <2>3, MatchFacts
  <2>. QED
    BY <2>3, <2>4
<1>2. m \in matches /\ m[1] \in Nat /\ m[1] \in KeptBehind(n)
  BY <1>1, MatchFacts DEF KeptBehind
<1>3. PICK p \in (n + 1)..Len(q) : q[p] = m[1]
  BY <1>0, <1>2
<1>4. \A x \in KeptBehind(n) : m[1] <= x /\ (x # m[1] => x \in KeptBehind(n + 1))
  <2>1. ASSUME NEW x \in KeptBehind(n)
        PROVE  m[1] <= x /\ (x # m[1] => x \in KeptBehind(n + 1))
    <3>1. PICK o \in kept : o[1] = x /\ n < o[2]
      BY DEF KeptBehind
    <3>2. o \in matches /\ o[1] \in Nat /\ o[2] \in Nat /\ n + 1 <= o[2]
      BY <3>1, MatchFacts
    <3>3. CASE o[2] = n + 1
      <4>1. o = m
        BY <1>1, <1>2, <3>2, <3>3 DEF MatchInv, MatchedOnce
      <4>. QED
        BY <1>2, <3>1, <4>1
    <3>4. CASE o[2] # n + 1
      <4>1. n + 1 < o[2]
        BY <3>2, <3>4
      <4>2. m[1] < o[1]
        BY <1>1, <4>1 DEF MatchInv, KeptInOrder
      <4>3. x \in KeptBehind(n + 1)
        BY <3>1, <4>1 DEF KeptBehind
      <4>. QED
        BY <1>2, <3>1, <3>2, <4>2, <4>3
    <3>. QED
      BY <3>3, <3>4
  <2>. QED
    BY <2>1
<1>5. p = n + 1
  <2>1. SUFFICES ASSUME p # n + 1 PROVE FALSE
    OBVIOUS
  <2>2. n + 1 \in (n + 1)..Len(q) /\ n + 1 < p
    BY <1>0, <2>1
  <2>3. q[n + 1] < q[p] /\ q[n + 1] \in KeptBehind(n) /\ q[n + 1] \in Int
    BY <1>0, <2>2
  <2>4. m[1] <= q[n + 1]
    BY <1>4, <2>3
  <2>. QED
    BY <1>2, <1>3, <2>3, <2>4
<1>6. n + 1 <= Len(q) /\ q[n + 1] = m[1] /\ n + 1 \in (n + 1)..Len(q)
  BY <1>0, <1>3, <1>5
<1>7. \A k \in 1..(n + 1) : q[k] = Wanted(k)
  BY <1>0, <1>1, <1>6
<1>8. \A r \in ((n + 1) + 1)..Len(q) : r \in (n + 1)..Len(q) /\ n + 1 < r
  BY <1>0
<1>9. ASSUME NEW r \in ((n + 1) + 1)..Len(q) PROVE q[r] \in KeptBehind(n + 1)
  <2>0. r \in (n + 1)..Len(q) /\ n + 1 < r
    BY <1>8
  <2>1. q[n + 1] < q[r] /\ q[r] \in KeptBehind(n) /\ q[n + 1] \in Int
    <3>1. q[r] \in KeptBehind(n) /\ q[n + 1] < q[r]
      BY <1>0, <1>6, <2>0
    <3>. QED
      BY <1>2, <1>6, <3>1
  <2>. QED
    BY <1>4, <1>6, <2>1
<1>10. ASSUME NEW x \in KeptBehind(n + 1) PROVE \E r \in ((n + 1) + 1)..Len(q) : q[r] = x
  <2>1. PICK o \in kept : o[1] = x /\ n + 1 < o[2]
    BY DEF KeptBehind
  <2>2. o \in matches /\ o[2] \in Nat /\ n < o[2]
    BY <2>1, MatchFacts
  <2>3. x \in KeptBehind(n)
    BY <2>1, <2>2 DEF KeptBehind
  <2>4. x # m[1]
    <3>1. o # m
      BY <1>1, <2>1
    <3>. QED
      BY <1>2, <2>1, <2>2, <3>1 DEF MatchInv, MatchedOnce
  <2>5. PICK r \in (n + 1)..Len(q) : q[r] = x
    BY <1>0, <2>3
  <2>6. r # n + 1
    BY <1>6, <2>4, <2>5
  <2>7. r \in ((n + 1) + 1)..Len(q)
    BY <1>0, <2>5, <2>6
  <2>. QED
    BY <2>5, <2>7
<1>11. \A r, o \in ((n + 1) + 1)..Len(q) : r < o => q[r] < q[o]
  BY <1>0, <1>8
<1>. QED
  BY <1>0, <1>6, <1>7, <1>9, <1>10, <1>11 DEF FilledTo

LEMMA NativeListFilled ==
  ASSUME MatchInv, next = Len(after) + 1
  PROVE  NativeList[Len(after)] = [n \in DOMAIN after |-> Wanted(n)]
<1>. DEFINE L == Len(after)
            T == {n \in 0..L : FilledTo(NativeList[n], n)}
<1>0. Len(after) \in Nat /\ DOMAIN after = 1..Len(after)
  BY MatchFacts
<1>1. 0 \in T
  <2>1. 0 \in 0..L /\ NativeList[0] = Remaining[Len(before)]
    BY <1>0, NativeListIs
  <2>. QED
    BY <2>1, FilledFirst
<1>2. ASSUME NEW n \in 0..L, n + 1 <= L, n \in T PROVE n + 1 \in T
  <2>1. n + 1 \in 0..L /\ n + 1 # 0 /\ (n + 1) - 1 = n /\ n \in Nat
    BY <1>0, <1>2
  <2>2. NativeList[n + 1] =
          IF n + 1 \in insertions THEN InsertAt(NativeList[n], n + 1, Wanted(n + 1))
          ELSE NativeList[n]
    BY <1>0, <2>1, NativeListIs
  <2>3. FilledTo(NativeList[n], n)
    BY <1>2
  <2>4. FilledTo(NativeList[n + 1], n + 1)
    BY <1>2, <2>1, <2>2, <2>3, FillInserted, FillKept
  <2>. QED
    BY <2>1, <2>4
<1>. HIDE DEF T
<1>3. L \in T
  <2>1. L \in 0..L
    BY <1>0
  <2>. QED
    BY <1>0, <1>1, <1>2, <2>1, UpTo
<1>4. FilledTo(NativeList[L], L)
  BY <1>3 DEF T
<1>. DEFINE q == NativeList[L]
<1>. HIDE DEF q
<1>5. /\ q \in Seq(Int) /\ L <= Len(q) /\ \A k \in 1..L : q[k] = Wanted(k)
      /\ \A p \in (L + 1)..Len(q) : q[p] \in KeptBehind(L)
  BY <1>4 DEF FilledTo, q
<1>6. KeptBehind(L) = {}
  <2>1. \A m \in kept : m[2] \in 1..L
    BY MatchFacts
  <2>. QED
    BY <1>0, <2>1 DEF KeptBehind
<1>7. Len(q) = L
  <2>1. SUFFICES ASSUME Len(q) # L PROVE FALSE
    OBVIOUS
  <2>2. L + 1 \in (L + 1)..Len(q)
    BY <1>0, <1>5, <2>1
  <2>. QED
    BY <1>5, <1>6, <2>2
<1>8. q = [n \in 1..L |-> q[n]]
  BY <1>5, <1>7
<1>. QED
  BY <1>0, <1>5, <1>8 DEF q

\* Native lists are told positions only.  For all lists of children, removing the old
\* positions and filling the new ones in ascending order gives the new list.
THEOREM NativeListIsRight == Spec => []NativeListBecomesAfter
<1>1. DiffInv => NativeListBecomesAfter
  BY NativeListFilled DEF DiffInv, MatchInv, NativeListBecomesAfter
<1>. QED
  BY <1>1, DiffInvAlways, PTL

-----------------------------------------------------------------------------
(* Mirror: the two threads *)

CONSTANTS Trees, FirstTree
VARIABLES source, joined, dirty, pipeline, replica

M == INSTANCE Mirror

\* The inductive invariant: the last tree on its way is the one committed last, and
\* nothing is clean before hydration.
LastIsSource ==
  ~dirty => IF pipeline = <<>> THEN replica = source ELSE pipeline[Len(pipeline)] = source

MirrorInv == M!TypeOK /\ LastIsSource

\* What is left of a sequence when its head is taken away ends as it did.
LEMMA LastOfTail ==
  ASSUME NEW S, NEW s \in Seq(S), s # <<>>
  PROVE  IF Tail(s) = <<>> THEN Head(s) = s[Len(s)] ELSE Tail(s)[Len(Tail(s))] = s[Len(s)]
<1>1. /\ Len(s) \in Nat \ {0} /\ Tail(s) \in Seq(S) /\ Len(Tail(s)) = Len(s) - 1
      /\ \A k \in 1..Len(Tail(s)) : Tail(s)[k] = s[k + 1]
  BY HeadTailProperties, EmptySeq
<1>2. CASE Tail(s) = <<>>
  <2>1. Len(Tail(s)) = 0
    BY <1>2, EmptySeq
  <2>2. Len(s) \in Nat /\ Len(Tail(s)) = Len(s) - 1
    BY <1>1
  <2>3. \A n, m \in Int : m = n - 1 /\ m = 0 => n = 1
    OBVIOUS
  <2>4. Len(s) = 1
    BY <2>1, <2>2, <2>3
  <2> QED
    BY <1>2, <2>4
<1>3. CASE Tail(s) # <<>>
  <2>1. Len(Tail(s)) \in 1..Len(Tail(s))
    BY <1>1, <1>3, EmptySeq
  <2> QED
    BY <1>1, <1>3, <2>1
<1> QED
  BY <1>2, <1>3

LEMMA MirrorInvAlways == M!Spec => []MirrorInv
<1>1. M!Init => MirrorInv
  <2> SUFFICES ASSUME M!Init PROVE MirrorInv
    OBVIOUS
  <2>1. <<>> \in Seq(Trees)
    OBVIOUS
  <2> QED
    BY <2>1, Zenon DEF M!Init, MirrorInv, M!TypeOK, LastIsSource
<1>2. MirrorInv /\ [M!Next]_(M!vars) => MirrorInv'
  <2> SUFFICES ASSUME MirrorInv, [M!Next]_(M!vars) PROVE MirrorInv'
    OBVIOUS
  <2> USE DEF MirrorInv, M!TypeOK, LastIsSource
  <2>1. CASE M!Change
    BY <2>1 DEF M!Change
  <2>2. CASE M!Hydrate
    <3>1. /\ source' \in Trees /\ ~dirty' /\ joined' = TRUE /\ dirty' = FALSE
          /\ pipeline' = Append(pipeline, source') /\ replica' = replica
      BY <2>2 DEF M!Hydrate
    <3>2. pipeline' \in Seq(Trees) /\ pipeline' # <<>> /\ pipeline'[Len(pipeline')] = source'
      BY <3>1
    <3> QED
      BY <3>1, <3>2
  <2>3. CASE M!Commit
    <3>1. pipeline' = Append(pipeline, source) /\ dirty' = FALSE
          /\ UNCHANGED <<source, joined, replica>>
      BY <2>3 DEF M!Commit
    <3>2. pipeline' \in Seq(Trees) /\ pipeline' # <<>> /\ pipeline'[Len(pipeline')] = source
      BY <3>1
    <3> QED
      BY <3>1, <3>2
  <2>4. CASE M!Show
    <3>1. pipeline # <<>> /\ replica' = Head(pipeline) /\ pipeline' = Tail(pipeline)
          /\ UNCHANGED <<source, joined, dirty>>
      BY <2>4 DEF M!Show
    <3>2. replica' \in Trees /\ pipeline' \in Seq(Trees)
      BY <3>1, HeadTailProperties
    <3>3. IF pipeline' = <<>> THEN replica' = pipeline[Len(pipeline)]
          ELSE pipeline'[Len(pipeline')] = pipeline[Len(pipeline)]
      BY <3>1, LastOfTail
    <3> QED
      BY <3>1, <3>2, <3>3
  <2>5. CASE UNCHANGED M!vars
    BY <2>5 DEF M!vars
  <2> QED
    BY <2>1, <2>2, <2>3, <2>4, <2>5 DEF M!Next
<1> QED
  BY <1>1, <1>2, PTL DEF M!Spec

\* Whatever commits, hydration and deliveries interleave, a state in which nothing is
\* uncommitted or on its way is one in which both threads have the same tree.
THEOREM ConvergedAlways == M!Spec => []M!Converged
<1>1. MirrorInv => M!Converged
  BY DEF MirrorInv, LastIsSource, M!Converged
<1> QED
  BY MirrorInvAlways, <1>1, PTL
=============================================================================
