--------------------------- MODULE SnapshotPatch_proofs ---------------------------
(***************************************************************************)
(* Theorems about SnapshotPatch, for every size of the page, of the first  *)
(* screen and of the patches: the main thread, when it has applied what is *)
(* on its way, has the tree of the background thread, and what it shows on *)
(* the way there is what was committed, in order.                          *)
(*                                                                         *)
(* The lemmas are about sequences, trees and the replay of a patch before  *)
(* they are about the steps.  What relates the threads is Shows: the       *)
(* instances of a set, closed under children, are those of the main thread,*)
(* under the names that the background thread has for them.  The set holds *)
(* what is not removed, and what was sent of subtrees that Suspense keeps. *)
(***************************************************************************)
EXTENDS SnapshotPatch, SequenceTheorems, FiniteSetTheorems, TLAPS

Distinct(s) == \A p, q \in DOMAIN s : s[p] = s[q] => p = q

\* A sequence under other names.
Renamed(f, s) == [p \in DOMAIN s |-> f[s[p]]]

Maps(f, A, B) == \A x \in A : f[x] \in B
OneToOne(f, A) == \A x, y \in A : f[x] = f[y] => x = y

-----------------------------------------------------------------------------
(* Sequences and numbers *)

\* The sequence without its element k.
LEMMA RemovedAt ==
  ASSUME NEW S, NEW q \in Seq(S), NEW k \in 1..Len(q)
  PROVE  /\ RemoveAt(q, k) \in Seq(S) /\ Len(RemoveAt(q, k)) = Len(q) - 1
         /\ \A n \in 1..(Len(q) - 1) : RemoveAt(q, k)[n] = IF n < k THEN q[n] ELSE q[n + 1]
<1>. DEFINE a == SubSeq(q, 1, k - 1)
            b == SubSeq(q, k + 1, Len(q))
<1>1. a \in Seq(S) /\ Len(a) = k - 1 /\ \A n \in 1..(k - 1) : a[n] = q[n]
  OBVIOUS
<1>2. b \in Seq(S) /\ Len(b) = Len(q) - k /\ \A n \in 1..(Len(q) - k) : b[n] = q[k + n]
  OBVIOUS
<1>3. RemoveAt(q, k) = a \o b
  BY DEF RemoveAt
<1>4. Len(q) \in Nat /\ k \in 1..Len(q)
  OBVIOUS
<1>. HIDE DEF a, b
<1>5. /\ a \o b \in Seq(S) /\ Len(a \o b) = Len(a) + Len(b)
      /\ \A n \in 1..(Len(a) + Len(b)) :
           (a \o b)[n] = IF n <= Len(a) THEN a[n] ELSE b[n - Len(a)]
  BY <1>1, <1>2, ConcatProperties
<1>. QED
  BY <1>1, <1>2, <1>3, <1>4, <1>5

Removing(S) ==
  \A q \in Seq(S) : \A k \in 1..Len(q) :
    /\ RemoveAt(q, k) \in Seq(S) /\ Len(RemoveAt(q, k)) = Len(q) - 1
    /\ \A n \in 1..(Len(q) - 1) : RemoveAt(q, k)[n] = IF n < k THEN q[n] ELSE q[n + 1]

LEMMA RemovingAlways == \A S : Removing(S)
  BY RemovedAt DEF Removing

\* The sequence with an element inserted at k.
LEMMA InsertedAt ==
  ASSUME NEW S, NEW q \in Seq(S), NEW k \in 1..(Len(q) + 1), NEW x \in S
  PROVE  /\ InsertAt(q, k, x) \in Seq(S) /\ Len(InsertAt(q, k, x)) = Len(q) + 1
         /\ \A n \in 1..(Len(q) + 1) :
              InsertAt(q, k, x)[n] = IF n < k THEN q[n] ELSE IF n = k THEN x ELSE q[n - 1]
<1>. DEFINE a == SubSeq(q, 1, k - 1)
            b == SubSeq(q, k, Len(q))
            c == a \o <<x>>
<1>1. a \in Seq(S) /\ Len(a) = k - 1 /\ \A n \in 1..(k - 1) : a[n] = q[n]
  OBVIOUS
<1>2. b \in Seq(S) /\ Len(b) = Len(q) + 1 - k /\ \A n \in 1..(Len(q) + 1 - k) : b[n] = q[k + n - 1]
  OBVIOUS
<1>3. InsertAt(q, k, x) = c \o b
  BY DEF InsertAt
<1>4. Len(q) \in Nat /\ k \in 1..(Len(q) + 1)
  OBVIOUS
<1>. HIDE DEF a, b
<1>6. c = Append(a, x)
  BY <1>1
<1>. HIDE DEF c
<1>7. c \in Seq(S) /\ Len(c) = k /\ \A n \in 1..k : c[n] = IF n < k THEN q[n] ELSE x
  BY <1>1, <1>4, <1>6
<1>8. /\ c \o b \in Seq(S) /\ Len(c \o b) = Len(c) + Len(b)
      /\ \A n \in 1..(Len(c) + Len(b)) :
           (c \o b)[n] = IF n <= Len(c) THEN c[n] ELSE b[n - Len(c)]
  BY <1>2, <1>7, ConcatProperties
<1>. QED
  BY <1>2, <1>3, <1>4, <1>7, <1>8

Adding(S) ==
  \A q \in Seq(S), x \in S : \A k \in 1..(Len(q) + 1) :
    /\ InsertAt(q, k, x) \in Seq(S) /\ Len(InsertAt(q, k, x)) = Len(q) + 1
    /\ \A n \in 1..(Len(q) + 1) :
         InsertAt(q, k, x)[n] = IF n < k THEN q[n] ELSE IF n = k THEN x ELSE q[n - 1]

LEMMA AddingAlways == \A S : Adding(S)
  BY InsertedAt DEF Adding

\* A non-empty set of natural numbers has a least element.
LEMMA LeastNumber ==
  ASSUME NEW T, T \subseteq Nat, T # {}
  PROVE  \E n \in T : \A m \in T : n <= m
  <1> DEFINE U == {1..n : n \in T}
  <1>1. U \subseteq FiniteSubsetsOf(Nat) /\ U # {}
    <2>1. \A n \in T : 1..n \in SUBSET Nat /\ IsFiniteSet(1..n)
      BY FS_Interval
    <2>. QED  BY <2>1 DEF FiniteSubsetsOf
  <1>2. PICK x \in U : \A y \in U : ~ (<<y, x>> \in StrictSubsetOrdering(Nat))
    <2> HIDE DEF U
    <2>. QED  BY <1>1, WFMin, FS_StrictSubsetOrderingWellFounded
  <1>3. PICK n \in T : x = 1..n
    BY <1>2
  <1>4. ASSUME NEW m \in T, m < n PROVE FALSE
    <2>1. 1..m \in U /\ 1..m \subseteq 1..n /\ 1..m # 1..n
      <3>1. n \in 1..n /\ n \notin 1..m
        BY <1>4
      <3>. QED  BY <3>1, <1>4
    <2>2. 1..m \in SUBSET Nat /\ 1..n \in SUBSET Nat
      OBVIOUS
    <2>. QED  BY <1>2, <1>3, <2>1, <2>2 DEF StrictSubsetOrdering
  <1>. QED  BY <1>4

\* What holds of 0 and is passed on holds of all numbers up to N.
LEMMA UpTo ==
  ASSUME NEW N \in Nat, NEW T, 0 \in T, \A n \in 0..N : n + 1 <= N /\ n \in T => n + 1 \in T
  PROVE  \A n \in 0..N : n \in T
<1>. DEFINE U == {n \in 0..N : n \notin T}
<1>1. SUFFICES ASSUME U # {} PROVE FALSE
  OBVIOUS
<1>2. U \subseteq Nat
  OBVIOUS
<1>3. PICK n \in U : \A m \in U : n <= m
  <2>. HIDE DEF U
  <2>. QED
    BY <1>1, <1>2, LeastNumber
<1>4. n \in 1..N /\ n \notin T
  BY <1>3
<1>5. n - 1 \in 0..N /\ n - 1 \notin U /\ (n - 1) + 1 = n
  BY <1>3, <1>4
<1>. QED
  BY <1>4, <1>5

-----------------------------------------------------------------------------
(* Children *)

LEMMA ElementFacts ==
  ASSUME NEW S, NEW q \in Seq(S)
  PROVE  /\ Elements(q) \subseteq S
         /\ \A x \in Elements(q) : \E k \in 1..Len(q) : q[k] = x
         /\ \A k \in 1..Len(q) : q[k] \in Elements(q)
  BY DEF Elements

\* The place that CHOOSE picks.
LEMMA PlaceOfElement ==
  ASSUME NEW S, NEW q \in Seq(S), NEW x \in Elements(q)
  PROVE  /\ (CHOOSE p \in DOMAIN q : q[p] = x) \in 1..Len(q)
         /\ q[CHOOSE p \in DOMAIN q : q[p] = x] = x
<1>1. \E p \in DOMAIN q : q[p] = x
  BY DEF Elements
<1>2. DOMAIN q = 1..Len(q)
  OBVIOUS
<1>. QED
  BY <1>1, <1>2

\* Without takes one element out and keeps the others in order.
LEMMA WithoutFacts ==
  ASSUME NEW S, NEW q \in Seq(S), Distinct(q), NEW x
  PROVE  /\ Without(q, x) \in Seq(S) /\ Distinct(Without(q, x))
         /\ Elements(Without(q, x)) = Elements(q) \ {x}
<1>1. CASE x \notin Elements(q)
  BY <1>1 DEF Without
<1>2. CASE x \in Elements(q)
  <2>. DEFINE k == CHOOSE p \in DOMAIN q : q[p] = x
              t == RemoveAt(q, k)
  <2>1. Without(q, x) = t
    BY <1>2 DEF Without
  <2>2. k \in 1..Len(q) /\ q[k] = x
    BY <1>2, PlaceOfElement
  <2>. HIDE DEF k
  <2>3. /\ t \in Seq(S) /\ Len(t) = Len(q) - 1
        /\ \A n \in 1..(Len(q) - 1) : t[n] = IF n < k THEN q[n] ELSE q[n + 1]
    BY <2>2, RemovedAt
  <2>. HIDE DEF t
  <2>4. DOMAIN t = 1..(Len(q) - 1) /\ DOMAIN q = 1..Len(q) /\ Len(q) \in Nat
    BY <2>3
  <2>5. Distinct(t)
    <3>1. SUFFICES ASSUME NEW a \in 1..(Len(q) - 1), NEW b \in 1..(Len(q) - 1), t[a] = t[b]
                   PROVE  a = b
      BY <2>4 DEF Distinct
    <3>2. \A c, d \in 1..Len(q) : q[c] = q[d] => c = d
      BY <2>4 DEF Distinct
    <3>. QED
      BY <2>2, <2>3, <2>4, <3>1, <3>2
  <2>6. ASSUME NEW y \in Elements(t) PROVE y \in Elements(q) \ {x}
    <3>1. PICK n \in 1..(Len(q) - 1) : t[n] = y
      BY <2>4 DEF Elements
    <3>2. PICK m \in 1..Len(q) : q[m] = y /\ m # k
      BY <2>2, <2>3, <2>4, <3>1
    <3>3. y # x
      BY <2>2, <2>4, <3>2 DEF Distinct
    <3>. QED
      BY <2>4, <3>2, <3>3 DEF Elements
  <2>7. ASSUME NEW y \in Elements(q) \ {x} PROVE y \in Elements(t)
    <3>1. PICK n \in 1..Len(q) : q[n] = y
      BY <2>4 DEF Elements
    <3>2. n # k
      BY <2>2, <3>1
    <3>3. CASE n < k
      <4>1. n \in 1..(Len(q) - 1) /\ t[n] = y
        BY <2>2, <2>3, <2>4, <3>1, <3>3
      <4>. QED
        BY <2>4, <4>1 DEF Elements
    <3>4. CASE n > k
      <4>1. n - 1 \in 1..(Len(q) - 1) /\ t[n - 1] = y
        BY <2>2, <2>3, <2>4, <3>1, <3>4
      <4>. QED
        BY <2>4, <4>1 DEF Elements
    <3>. QED
      BY <2>2, <3>2, <3>3, <3>4
  <2>. QED
    BY <2>1, <2>3, <2>5, <2>6, <2>7
<1>. QED
  BY <1>1, <1>2

LEMMA AppendFacts ==
  ASSUME NEW S, NEW q \in Seq(S), Distinct(q), NEW x \in S, x \notin Elements(q)
  PROVE  /\ Append(q, x) \in Seq(S) /\ Distinct(Append(q, x))
         /\ Elements(Append(q, x)) = Elements(q) \cup {x}
<1>. DEFINE t == Append(q, x)
<1>1. /\ t \in Seq(S) /\ DOMAIN t = 1..(Len(q) + 1) /\ t[Len(q) + 1] = x
      /\ \A n \in 1..Len(q) : t[n] = q[n]
  OBVIOUS
<1>2. DOMAIN q = 1..Len(q) /\ Len(q) \in Nat
  OBVIOUS
<1>. HIDE DEF t
<1>3. Distinct(t)
  <2>1. \A n \in 1..Len(q) : q[n] # x
    BY <1>2 DEF Elements
  <2>2. \A c, d \in 1..Len(q) : q[c] = q[d] => c = d
    BY <1>2 DEF Distinct
  <2>. QED
    BY <1>1, <1>2, <2>1, <2>2 DEF Distinct
<1>4. ASSUME NEW y \in Elements(t) PROVE y \in Elements(q) \cup {x}
  <2>1. PICK n \in 1..(Len(q) + 1) : t[n] = y
    BY <1>1 DEF Elements
  <2>2. n \in 1..Len(q) \/ n = Len(q) + 1
    BY <1>2
  <2>. QED
    BY <1>1, <1>2, <2>1, <2>2 DEF Elements
<1>5. ASSUME NEW y \in Elements(q) \cup {x} PROVE y \in Elements(t)
  <2>1. CASE y = x
    <3>1. Len(q) + 1 \in DOMAIN t
      BY <1>1, <1>2
    <3>. QED
      BY <1>1, <2>1, <3>1 DEF Elements
  <2>2. CASE y \in Elements(q)
    <3>1. PICK n \in 1..Len(q) : q[n] = y
      BY <1>2, <2>2 DEF Elements
    <3>2. n \in DOMAIN t /\ t[n] = y
      BY <1>1, <1>2, <3>1
    <3>. QED
      BY <3>2 DEF Elements
  <2>. QED
    BY <2>1, <2>2
<1>6. t \in Seq(S) /\ Distinct(t) /\ Elements(t) = Elements(q) \cup {x}
  BY <1>1, <1>3, <1>4, <1>5
<1>. QED
  BY <1>6 DEF t

LEMMA InsertFacts ==
  ASSUME NEW S, NEW q \in Seq(S), Distinct(q), NEW x \in S, x \notin Elements(q),
         NEW k \in 1..Len(q)
  PROVE  /\ InsertAt(q, k, x) \in Seq(S) /\ Distinct(InsertAt(q, k, x))
         /\ Elements(InsertAt(q, k, x)) = Elements(q) \cup {x}
<1>. DEFINE t == InsertAt(q, k, x)
<1>1. /\ t \in Seq(S) /\ Len(t) = Len(q) + 1
      /\ \A n \in 1..(Len(q) + 1) :
           t[n] = IF n < k THEN q[n] ELSE IF n = k THEN x ELSE q[n - 1]
  <2>1. k \in 1..(Len(q) + 1) /\ Adding(S)
    BY AddingAlways
  <2>. QED
    BY <2>1 DEF Adding
<1>. HIDE DEF t
<1>2. DOMAIN q = 1..Len(q) /\ Len(q) \in Nat /\ DOMAIN t = 1..(Len(q) + 1)
  BY <1>1
<1>3. Distinct(t)
  <2>1. \A n \in 1..Len(q) : q[n] # x
    BY <1>2 DEF Elements
  <2>2. \A c, d \in 1..Len(q) : q[c] = q[d] => c = d
    BY <1>2 DEF Distinct
  <2>3. SUFFICES ASSUME NEW a \in 1..(Len(q) + 1), NEW b \in 1..(Len(q) + 1), t[a] = t[b]
                 PROVE  a = b
    BY <1>2 DEF Distinct
  <2>. DEFINE from(n) == IF n < k THEN n ELSE n - 1
  <2>4. \A n \in 1..(Len(q) + 1) : n # k => from(n) \in 1..Len(q) /\ t[n] = q[from(n)]
    BY <1>1, <1>2
  <2>5. t[k] = x /\ k \in 1..(Len(q) + 1)
    BY <1>1, <1>2
  <2>6. CASE a # k /\ b # k
    <3>1. from(a) = from(b)
      <4>. HIDE DEF from
      <4>. QED
        BY <2>2, <2>3, <2>4, <2>6
    <3>. QED
      BY <1>2, <2>6, <3>1
  <2>7. CASE a = k \/ b = k
    <3>. HIDE DEF from
    <3>. QED
      BY <2>1, <2>3, <2>4, <2>5, <2>7
  <2>. QED
    BY <2>6, <2>7
<1>4. ASSUME NEW y \in Elements(t) PROVE y \in Elements(q) \cup {x}
  <2>1. PICK n \in 1..(Len(q) + 1) : t[n] = y
    BY <1>2 DEF Elements
  <2>2. y = x \/ (q[n] = y /\ n < k) \/ (q[n - 1] = y /\ n > k)
    BY <1>1, <1>2, <2>1
  <2>3. y = x \/ \E m \in 1..Len(q) : q[m] = y
    BY <1>2, <2>1, <2>2
  <2>. QED
    BY <1>2, <2>3 DEF Elements
<1>5. ASSUME NEW y \in Elements(q) \cup {x} PROVE y \in Elements(t)
  <2>1. CASE y = x
    <3>1. k \in 1..(Len(q) + 1) /\ t[k] = x
      BY <1>1, <1>2
    <3>. QED
      BY <1>2, <2>1, <3>1 DEF Elements
  <2>2. CASE y \in Elements(q)
    <3>1. PICK n \in 1..Len(q) : q[n] = y
      BY <1>2, <2>2 DEF Elements
    <3>2. \E m \in 1..(Len(q) + 1) : t[m] = y
      <4>1. CASE n < k
        BY <1>1, <1>2, <3>1, <4>1
      <4>2. CASE n >= k
        <5>1. n + 1 \in 1..(Len(q) + 1) /\ t[n + 1] = y
          BY <1>1, <1>2, <3>1, <4>2
        <5>. QED
          BY <5>1
      <4>. QED
        BY <1>2, <4>1, <4>2
    <3>. QED
      BY <1>2, <3>2 DEF Elements
  <2>. QED
    BY <2>1, <2>2
<1>6. t \in Seq(S) /\ Distinct(t) /\ Elements(t) = Elements(q) \cup {x}
  BY <1>1, <1>3, <1>4, <1>5
<1>. QED
  BY <1>6 DEF t

\* Placed puts one element into the others.
LEMMA PlacedFacts ==
  ASSUME NEW S, NEW q \in Seq(S), Distinct(q), NEW x \in S, NEW y
  PROVE  /\ Placed(q, x, y) \in Seq(S) /\ Distinct(Placed(q, x, y))
         /\ Elements(Placed(q, x, y)) = Elements(q) \cup {x}
<1>. DEFINE t == Without(q, x)
<1>1. t \in Seq(S) /\ Distinct(t) /\ Elements(t) = Elements(q) \ {x}
  BY WithoutFacts
<1>2. Placed(q, x, y) = IF y \in Elements(t)
                        THEN InsertAt(t, CHOOSE p \in DOMAIN t : t[p] = y, x) ELSE Append(t, x)
  BY DEF Placed
<1>. HIDE DEF t
<1>3. CASE y \in Elements(t)
  <2>. DEFINE k == CHOOSE p \in DOMAIN t : t[p] = y
  <2>1. k \in 1..Len(t)
    BY <1>1, <1>3, PlaceOfElement
  <2>2. Placed(q, x, y) = InsertAt(t, k, x)
    BY <1>2, <1>3
  <2>. HIDE DEF k
  <2>3. /\ InsertAt(t, k, x) \in Seq(S) /\ Distinct(InsertAt(t, k, x))
        /\ Elements(InsertAt(t, k, x)) = Elements(t) \cup {x}
    BY <1>1, <2>1, InsertFacts
  <2>. QED
    BY <1>1, <2>2, <2>3
<1>4. CASE y \notin Elements(t)
  <2>1. /\ Append(t, x) \in Seq(S) /\ Distinct(Append(t, x))
        /\ Elements(Append(t, x)) = Elements(t) \cup {x}
    BY <1>1, AppendFacts
  <2>. QED
    BY <1>1, <1>2, <1>4, <2>1
<1>. QED
  BY <1>3, <1>4

\* What is not there is not taken out, and is put at the end.
LEMMA WithoutNone ==
  ASSUME NEW q, NEW x, x \notin Elements(q)
  PROVE  Without(q, x) = q
  BY DEF Without

LEMMA PlacedLast ==
  ASSUME NEW q, NEW x, NEW y, x \notin Elements(q), y \notin Elements(q)
  PROVE  Placed(q, x, y) = Append(q, x)
  BY WithoutNone DEF Placed

-----------------------------------------------------------------------------
(* The same sequence under other names *)

LEMMA RenamedFacts ==
  ASSUME NEW A, NEW B, NEW f, Maps(f, A, B), NEW q \in Seq(A)
  PROVE  /\ Renamed(f, q) \in Seq(B) /\ Len(Renamed(f, q)) = Len(q)
         /\ Elements(Renamed(f, q)) = {f[x] : x \in Elements(q)}
<1>1. DOMAIN q = 1..Len(q) /\ Len(q) \in Nat /\ \A p \in 1..Len(q) : q[p] \in A
  OBVIOUS
<1>2. Renamed(f, q) \in Seq(B) /\ Len(Renamed(f, q)) = Len(q)
  BY <1>1 DEF Renamed, Maps
<1>. QED
  BY <1>1, <1>2 DEF Renamed, Elements

\* Renaming goes through the operations on children when the names differ.
LEMMA RenamedWithout ==
  ASSUME NEW A, NEW B, NEW f, Maps(f, A, B), OneToOne(f, A),
         NEW q \in Seq(A), Distinct(q), NEW x \in A
  PROVE  Renamed(f, Without(q, x)) = Without(Renamed(f, q), f[x])
<1>. DEFINE r == Renamed(f, q)
<1>1. r \in Seq(B) /\ Len(r) = Len(q) /\ Elements(r) = {f[z] : z \in Elements(q)}
  BY RenamedFacts
<1>2. /\ DOMAIN q = 1..Len(q) /\ Len(q) \in Nat /\ Elements(q) \subseteq A
      /\ \A n \in 1..Len(q) : r[n] = f[q[n]] /\ q[n] \in A
  BY DEF Renamed, Elements
<1>. HIDE DEF r
<1>3. CASE x \notin Elements(q)
  <2>1. f[x] \notin Elements(r)
    BY <1>1, <1>2, <1>3 DEF OneToOne
  <2>. QED
    BY <1>3, <2>1, WithoutNone DEF r
<1>4. CASE x \in Elements(q)
  <2>1. f[x] \in Elements(r)
    BY <1>1, <1>4
  <2>. DEFINE k == CHOOSE p \in DOMAIN q : q[p] = x
              l == CHOOSE p \in DOMAIN r : r[p] = f[x]
  <2>2. k \in 1..Len(q) /\ q[k] = x
    BY <1>4, PlaceOfElement
  <2>3. l \in 1..Len(q) /\ r[l] = f[x]
    BY <1>1, <2>1, PlaceOfElement
  <2>4. Without(q, x) = RemoveAt(q, k) /\ Without(r, f[x]) = RemoveAt(r, l)
    BY <1>4, <2>1 DEF Without
  <2>. HIDE DEF k, l
  <2>5. l = k
    <3>1. q[l] = x
      BY <1>2, <2>2, <2>3 DEF OneToOne
    <3>. QED
      BY <1>2, <2>2, <2>3, <3>1 DEF Distinct
  <2>6. /\ RemoveAt(q, k) \in Seq(A) /\ Len(RemoveAt(q, k)) = Len(q) - 1
        /\ \A n \in 1..(Len(q) - 1) : RemoveAt(q, k)[n] = IF n < k THEN q[n] ELSE q[n + 1]
    BY <2>2, RemovedAt
  <2>7. /\ RemoveAt(r, k) \in Seq(B) /\ Len(RemoveAt(r, k)) = Len(q) - 1
        /\ \A n \in 1..(Len(q) - 1) : RemoveAt(r, k)[n] = IF n < k THEN r[n] ELSE r[n + 1]
    <3>1. k \in 1..Len(r)
      BY <1>1, <2>2
    <3>. QED
      BY <1>1, <3>1, RemovedAt
  <2>. DEFINE s == RemoveAt(q, k)
              t == RemoveAt(r, k)
  <2>8. DOMAIN s = 1..(Len(q) - 1) /\ DOMAIN t = 1..(Len(q) - 1)
    BY <1>2, <2>6, <2>7
  <2>9. \A n \in 1..(Len(q) - 1) : f[s[n]] = t[n]
    BY <1>2, <2>2, <2>6, <2>7
  <2>10. t = [n \in DOMAIN t |-> t[n]]
    BY <2>7
  <2>. HIDE DEF s, t
  <2>11. Renamed(f, s) = t
    BY <2>8, <2>9, <2>10 DEF Renamed
  <2>. QED
    BY <2>4, <2>5, <2>11 DEF r, s, t
<1>. QED
  BY <1>3, <1>4

LEMMA RenamedAppend ==
  ASSUME NEW A, NEW B, NEW f, Maps(f, A, B), NEW q \in Seq(A), NEW x \in A
  PROVE  Renamed(f, Append(q, x)) = Append(Renamed(f, q), f[x])
<1>. DEFINE r == Renamed(f, q)
            s == Append(q, x)
            t == Append(r, f[x])
<1>1. r \in Seq(B) /\ Len(r) = Len(q)
  BY RenamedFacts
<1>2. /\ Len(q) \in Nat /\ \A n \in 1..Len(q) : r[n] = f[q[n]]
      /\ s \in Seq(A) /\ DOMAIN s = 1..(Len(q) + 1)
      /\ \A n \in 1..Len(q) : s[n] = q[n]
      /\ s[Len(q) + 1] = x
  BY DEF Renamed
<1>. HIDE DEF r, s
<1>. f[x] \in B
  BY DEF Maps
<1>3. /\ t \in Seq(B) /\ DOMAIN t = 1..(Len(q) + 1)
      /\ \A n \in 1..Len(q) : t[n] = r[n]
      /\ t[Len(q) + 1] = f[x] /\ t = [n \in DOMAIN t |-> t[n]]
  BY <1>1
<1>. HIDE DEF t
<1>4. \A n \in 1..(Len(q) + 1) : n \in 1..Len(q) \/ n = Len(q) + 1
  BY <1>2
<1>5. \A n \in DOMAIN t : f[s[n]] = t[n]
  BY <1>2, <1>3, <1>4
<1>6. Renamed(f, s) = t
  BY <1>2, <1>3, <1>5 DEF Renamed
<1>. QED
  BY <1>6 DEF r, s, t

LEMMA RenamedInsert ==
  ASSUME NEW A, NEW B, NEW f, Maps(f, A, B), NEW q \in Seq(A), NEW x \in A,
         NEW k \in 1..Len(q)
  PROVE  Renamed(f, InsertAt(q, k, x)) = InsertAt(Renamed(f, q), k, f[x])
<1>. DEFINE r == Renamed(f, q)
            s == InsertAt(q, k, x)
            t == InsertAt(r, k, f[x])
<1>1. r \in Seq(B) /\ Len(r) = Len(q)
  BY RenamedFacts
<1>2. Len(q) \in Nat /\ \A n \in 1..Len(q) : r[n] = f[q[n]]
  BY DEF Renamed
<1>. HIDE DEF r
<1>3. k \in 1..(Len(q) + 1) /\ k \in 1..(Len(r) + 1)
  BY <1>1, <1>2
<1>4. /\ s \in Seq(A) /\ Len(s) = Len(q) + 1
      /\ \A n \in 1..(Len(q) + 1) :
           s[n] = IF n < k THEN q[n] ELSE IF n = k THEN x ELSE q[n - 1]
  BY <1>3, AddingAlways DEF Adding
<1>. f[x] \in B
  BY DEF Maps
<1>5. /\ t \in Seq(B) /\ Len(t) = Len(q) + 1
      /\ \A n \in 1..(Len(q) + 1) :
           t[n] = IF n < k THEN r[n] ELSE IF n = k THEN f[x] ELSE r[n - 1]
  <2>1. Adding(B)
    BY AddingAlways
  <2>. QED
    BY <1>1, <1>3, <2>1 DEF Adding
<1>. HIDE DEF s, t
<1>6. DOMAIN s = 1..(Len(q) + 1) /\ DOMAIN t = 1..(Len(q) + 1) /\ t = [n \in DOMAIN t |-> t[n]]
  BY <1>2, <1>4, <1>5
<1>7. ASSUME NEW n \in 1..(Len(q) + 1) PROVE f[s[n]] = t[n]
  <2>1. CASE n < k
    <3>1. n \in 1..Len(q) /\ s[n] = q[n] /\ t[n] = r[n]
      BY <1>2, <1>4, <1>5, <2>1
    <3>. QED
      BY <1>2, <3>1
  <2>2. CASE n = k
    BY <1>4, <1>5, <2>2
  <2>3. CASE n > k
    <3>1. n - 1 \in 1..Len(q) /\ s[n] = q[n - 1] /\ t[n] = r[n - 1]
      BY <1>2, <1>4, <1>5, <2>3
    <3>. QED
      BY <1>2, <3>1
  <2>. QED
    BY <1>2, <2>1, <2>2, <2>3
<1>8. Renamed(f, s) = t
  BY <1>6, <1>7 DEF Renamed
<1>. QED
  BY <1>8 DEF r, s, t

LEMMA RenamedPlaced ==
  ASSUME NEW A, NEW B, NEW f, Maps(f, A, B), OneToOne(f, A),
         NEW q \in Seq(A), Distinct(q), NEW x \in A, NEW y \in A
  PROVE  Renamed(f, Placed(q, x, y)) = Placed(Renamed(f, q), f[x], f[y])
<1>. DEFINE s == Without(q, x)
            t == Without(Renamed(f, q), f[x])
<1>1. s \in Seq(A) /\ Distinct(s)
  BY WithoutFacts
<1>2. t = Renamed(f, s)
  BY RenamedWithout
<1>3. Placed(q, x, y) = IF y \in Elements(s)
                        THEN InsertAt(s, CHOOSE p \in DOMAIN s : s[p] = y, x) ELSE Append(s, x)
  BY DEF Placed
<1>4. Placed(Renamed(f, q), f[x], f[y]) =
        IF f[y] \in Elements(t)
        THEN InsertAt(t, CHOOSE p \in DOMAIN t : t[p] = f[y], f[x]) ELSE Append(t, f[x])
  BY DEF Placed
<1>. HIDE DEF s, t
<1>5. t \in Seq(B) /\ Len(t) = Len(s) /\ Elements(t) = {f[z] : z \in Elements(s)}
  BY <1>1, <1>2, RenamedFacts
<1>6. /\ DOMAIN s = 1..Len(s) /\ Len(s) \in Nat /\ Elements(s) \subseteq A
      /\ \A n \in 1..Len(s) : t[n] = f[s[n]] /\ s[n] \in A
  BY <1>1, <1>2 DEF Renamed, Elements
<1>7. CASE y \in Elements(s)
  <2>. DEFINE k == CHOOSE p \in DOMAIN s : s[p] = y
              l == CHOOSE p \in DOMAIN t : t[p] = f[y]
  <2>1. f[y] \in Elements(t)
    BY <1>5, <1>7
  <2>2. k \in 1..Len(s) /\ s[k] = y
    BY <1>1, <1>7, PlaceOfElement
  <2>3. l \in 1..Len(s) /\ t[l] = f[y]
    BY <1>5, <2>1, PlaceOfElement
  <2>4. Placed(q, x, y) = InsertAt(s, k, x) /\ Placed(Renamed(f, q), f[x], f[y]) = InsertAt(t, l, f[x])
    BY <1>3, <1>4, <1>7, <2>1
  <2>. HIDE DEF k, l
  <2>5. l = k
    <3>1. s[l] = y
      BY <1>6, <2>2, <2>3 DEF OneToOne
    <3>. QED
      BY <1>1, <1>6, <2>2, <2>3, <3>1 DEF Distinct
  <2>6. Renamed(f, InsertAt(s, k, x)) = InsertAt(t, k, f[x])
    BY <1>1, <1>2, <2>2, RenamedInsert
  <2>. QED
    BY <2>4, <2>5, <2>6
<1>8. CASE y \notin Elements(s)
  <2>1. f[y] \notin Elements(t)
    BY <1>5, <1>6, <1>8 DEF OneToOne
  <2>2. Renamed(f, Append(s, x)) = Append(t, f[x])
    BY <1>1, <1>2, RenamedAppend
  <2>. QED
    BY <1>3, <1>4, <1>8, <2>1, <2>2
<1>. QED
  BY <1>7, <1>8

-----------------------------------------------------------------------------
(* Trees.  k gives every instance its children. *)

\* With an instance its children are in D.
Closed(k, D) == D \subseteq DOMAIN k /\ \A x \in D : Elements(k[x]) \subseteq D

\* There is no way down without end in D: every part of D has a lowest instance.
Acyclic(k, D) == \A S \in SUBSET D : S # {} => \E x \in S : Elements(k[x]) \cap S = {}

\* T is the least set that has n and the children of its members.
IsSubtree(k, n, T) ==
  n \in T /\ Closed(k, T) /\ \A S \in SUBSET DOMAIN k : n \in S /\ Closed(k, S) => T \subseteq S

LEMMA SubtreeIs ==
  ASSUME NEW k, NEW D, Closed(k, DOMAIN k), Closed(k, D), Acyclic(k, D), NEW n \in D
  PROVE  IsSubtree(k, n, Subtree(k, n))
<1>. DEFINE A == DOMAIN k
            R(m) == {x \in A : \A S \in SUBSET A : m \in S /\ Closed(k, S) => x \in S}
            Kids(m) == Elements(k[m])
            Q(f, m) == {m} \cup UNION {f[c] : c \in Kids(m)}
<1>1. ASSUME NEW m \in A PROVE IsSubtree(k, m, R(m))
  <2>1. m \in R(m)
    OBVIOUS
  <2>2. Closed(k, R(m))
    <3>1. ASSUME NEW x \in R(m), NEW c \in Kids(x) PROVE c \in R(m)
      <4>1. c \in A
        BY DEF Closed
      <4>2. ASSUME NEW S \in SUBSET A, m \in S, Closed(k, S) PROVE c \in S
        BY <4>2 DEF Closed
      <4>. QED
        BY <4>1, <4>2
    <3>. QED
      BY <3>1 DEF Closed
  <2>3. \A S \in SUBSET A : m \in S /\ Closed(k, S) => R(m) \subseteq S
    OBVIOUS
  <2>. QED
    BY <2>1, <2>2, <2>3 DEF IsSubtree
<1>. HIDE DEF R
<1>2. ASSUME NEW m \in A PROVE R(m) = {m} \cup UNION {R(c) : c \in Kids(m)}
  <2>. DEFINE U == {m} \cup UNION {R(c) : c \in Kids(m)}
  <2>1. Kids(m) \subseteq A
    BY DEF Closed
  <2>2. U \subseteq A
    BY <1>1, <2>1 DEF IsSubtree, Closed
  <2>3. Closed(k, U)
    <3>1. ASSUME NEW x \in U, NEW y \in Kids(x) PROVE y \in U
      <4>1. CASE x = m
        BY <1>1, <2>1, <4>1 DEF IsSubtree
      <4>2. CASE x # m
        <5>1. PICK c \in Kids(m) : x \in R(c)
          BY <4>2
        <5>2. y \in R(c)
          BY <1>1, <2>1, <5>1 DEF IsSubtree, Closed
        <5>. QED
          BY <5>2
      <4>. QED
        BY <4>1, <4>2
    <3>. QED
      BY <2>2, <3>1 DEF Closed
  <2>4. R(m) \subseteq U
    BY <1>1, <2>2, <2>3 DEF IsSubtree
  <2>5. ASSUME NEW c \in Kids(m) PROVE R(c) \subseteq R(m)
    <3>1. c \in R(m) /\ Closed(k, R(m)) /\ R(m) \in SUBSET A
      BY <1>1 DEF IsSubtree, Closed
    <3>. QED
      BY <1>1, <2>1, <3>1 DEF IsSubtree
  <2>6. U \subseteq R(m)
    BY <1>1, <2>5 DEF IsSubtree
  <2>. QED
    BY <2>4, <2>6
<1>. DEFINE below == CHOOSE f : f = [m \in A |-> Q(f, m)]
<1>3. below = [m \in A |-> Q(below, m)]
  <2>. DEFINE g == [m \in A |-> R(m)]
  <2>1. ASSUME NEW m \in A PROVE g[m] = Q(g, m)
    <3>1. \A c \in Kids(m) : g[c] = R(c)
      BY DEF Closed
    <3>2. {g[c] : c \in Kids(m)} = {R(c) : c \in Kids(m)}
      BY <3>1
    <3>3. g[m] = R(m)
      OBVIOUS
    <3>. HIDE DEF g
    <3>. QED
      BY <1>2, <3>2, <3>3
  <2>2. g = [m \in A |-> g[m]] /\ DOMAIN g = A
    OBVIOUS
  <2>. HIDE DEF g
  <2>3. g = [m \in A |-> Q(g, m)]
    BY <2>1, <2>2
  <2>. QED
    BY <2>3
<1>4. Subtree(k, n) = below[n]
  BY DEF Subtree
<1>. HIDE DEF below
<1>5. \A m \in D : below[m] = R(m)
  <2>. DEFINE S == {m \in D : below[m] # R(m)}
  <2>1. SUFFICES ASSUME S # {} PROVE FALSE
    OBVIOUS
  <2>2. PICK x \in S : Kids(x) \cap S = {}
    BY <2>1 DEF Acyclic
  <2>3. x \in A /\ Kids(x) \subseteq D
    BY DEF Closed
  <2>4. \A c \in Kids(x) : below[c] = R(c)
    BY <2>2, <2>3
  <2>5. below[x] = Q(below, x)
    BY <1>3, <2>3
  <2>6. below[x] = R(x)
    BY <1>2, <2>3, <2>4, <2>5
  <2>. QED
    BY <2>6
<1>6. n \in A
  BY DEF Closed
<1>. QED
  BY <1>1, <1>4, <1>5, <1>6

LEMMA OneSubtree ==
  ASSUME NEW k, NEW n, NEW T, NEW U, IsSubtree(k, n, T), IsSubtree(k, n, U)
  PROVE  T = U
  BY DEF IsSubtree, Closed

\* What is below n has a parent there.
LEMMA ParentBelow ==
  ASSUME NEW k, NEW n, NEW T, IsSubtree(k, n, T), NEW x \in T, x # n
  PROVE  \E y \in T : x \in Elements(k[y])
<1>. DEFINE S == T \ {x}
<1>1. SUFFICES ASSUME \A y \in T : x \notin Elements(k[y]) PROVE FALSE
  OBVIOUS
<1>2. n \in S /\ Closed(k, S) /\ S \in SUBSET DOMAIN k
  BY <1>1 DEF IsSubtree, Closed
<1>3. T \subseteq S
  BY <1>2 DEF IsSubtree
<1>. QED
  BY <1>3

\* The subtree of a member is part of the subtree.
LEMMA SubtreeWithin ==
  ASSUME NEW k, NEW n, NEW T, IsSubtree(k, n, T), NEW x \in T, NEW U, IsSubtree(k, x, U)
  PROVE  U \subseteq T
  BY DEF IsSubtree, Closed

\* Two subtrees are disjoint when neither top is in, or right below, the other.
LEMMA SubtreesDisjoint ==
  ASSUME NEW k, NEW a, NEW T, IsSubtree(k, a, T), NEW b, NEW U, IsSubtree(k, b, U),
         \A x \in DOMAIN k, y \in DOMAIN k :
           Elements(k[x]) \cap Elements(k[y]) # {} => x = y,
         a \notin U, \A x \in T : b \notin Elements(k[x])
  PROVE  T \cap U = {}
<1>. DEFINE S == T \ U
<1>1. a \in S /\ S \in SUBSET DOMAIN k
  BY DEF IsSubtree, Closed
<1>2. ASSUME NEW x \in S, NEW c \in Elements(k[x]) PROVE c \in S
  <2>1. c \in T /\ x \in DOMAIN k
    BY DEF IsSubtree, Closed
  <2>2. c # b
    OBVIOUS
  <2>3. ASSUME c \in U PROVE FALSE
    <3>1. PICK y \in U : c \in Elements(k[y])
      BY <2>2, <2>3, ParentBelow
    <3>2. y \in DOMAIN k
      BY DEF IsSubtree, Closed
    <3>. QED
      BY <2>1, <3>1, <3>2
  <2>. QED
    BY <2>1, <2>3
<1>3. Closed(k, S)
  BY <1>1, <1>2 DEF Closed
<1>4. T \subseteq S
  BY <1>1, <1>3 DEF IsSubtree
<1>. QED
  BY <1>4

\* Where k is not changed the subtree is not.
LEMMA SubtreeKept ==
  ASSUME NEW k, NEW n, NEW T, IsSubtree(k, n, T), NEW l, DOMAIN l = DOMAIN k,
         \A x \in T : l[x] = k[x]
  PROVE  IsSubtree(l, n, T)
<1>1. Closed(l, T) /\ n \in T
  BY DEF IsSubtree, Closed
<1>2. ASSUME NEW S \in SUBSET DOMAIN l, n \in S, Closed(l, S) PROVE T \subseteq S
  <2>1. n \in S \cap T /\ S \cap T \in SUBSET DOMAIN k
    BY <1>1, <1>2 DEF Closed
  <2>2. Closed(k, S \cap T)
    BY <1>1, <1>2 DEF Closed
  <2>. QED
    BY <2>1, <2>2 DEF IsSubtree
<1>. QED
  BY <1>1, <1>2 DEF IsSubtree

\* Above T, l is k under other names.
Image(f, T) == {f[x] : x \in T}
Corresponds(k, T, f, l) == \A x \in T : Elements(l[f[x]]) = Image(f, Elements(k[x]))

\* The same tree under other names has the same subtrees.
LEMMA SubtreeRenamed ==
  ASSUME NEW k, NEW n, NEW T, IsSubtree(k, n, T), NEW f, OneToOne(f, T), NEW l, NEW B,
         Maps(f, T, B), DOMAIN l = B, Corresponds(k, T, f, l)
  PROVE  IsSubtree(l, f[n], Image(f, T))
<1>. USE DEF Image, Corresponds
<1>. DEFINE V == {f[x] : x \in T}
<1>1. f[n] \in V /\ V \subseteq DOMAIN l
  BY DEF IsSubtree, Maps
<1>2. Closed(l, V)
  BY <1>1 DEF IsSubtree, Closed
<1>3. ASSUME NEW S \in SUBSET DOMAIN l, f[n] \in S, Closed(l, S) PROVE V \subseteq S
  <2>. DEFINE W == {x \in T : f[x] \in S}
  <2>1. n \in W /\ W \in SUBSET DOMAIN k
    BY <1>3 DEF IsSubtree, Closed
  <2>2. ASSUME NEW x \in W, NEW c \in Elements(k[x]) PROVE c \in W
    <3>1. c \in T
      BY DEF IsSubtree, Closed
    <3>2. f[c] \in Elements(l[f[x]])
      OBVIOUS
    <3>. QED
      BY <1>3, <3>1, <3>2 DEF Closed
  <2>3. Closed(k, W)
    BY <2>1, <2>2 DEF Closed
  <2>4. T \subseteq W
    BY <2>1, <2>3 DEF IsSubtree
  <2>. QED
    BY <2>4
<1>. QED
  BY <1>1, <1>2, <1>3 DEF IsSubtree

LEMMA AcyclicRenamed ==
  ASSUME NEW k, NEW T, Acyclic(k, T), NEW f, OneToOne(f, T), NEW l,
         Closed(k, T), Corresponds(k, T, f, l)
  PROVE  Acyclic(l, Image(f, T))
<1>. USE DEF Image, Corresponds, Closed
<1>. DEFINE V == {f[x] : x \in T}
<1>1. SUFFICES ASSUME NEW S \in SUBSET V, S # {}
               PROVE  \E z \in S : Elements(l[z]) \cap S = {}
  BY DEF Acyclic
<1>. DEFINE W == {x \in T : f[x] \in S}
<1>2. W # {} /\ W \in SUBSET T
  BY <1>1
<1>3. PICK x \in W : Elements(k[x]) \cap W = {}
  BY <1>2 DEF Acyclic
<1>4. Elements(l[f[x]]) \cap S = {}
  BY <1>3
<1>. QED
  BY <1>4

\* With fewer children the tree stays one.
LEMMA AcyclicFewer ==
  ASSUME NEW k, NEW D, Acyclic(k, D), NEW l, \A x \in D : Elements(l[x]) \subseteq Elements(k[x])
  PROVE  Acyclic(l, D)
<1>1. SUFFICES ASSUME NEW S \in SUBSET D, S # {}
               PROVE  \E x \in S : Elements(l[x]) \cap S = {}
  BY DEF Acyclic
<1>2. PICK x \in S : Elements(k[x]) \cap S = {}
  BY <1>1 DEF Acyclic
<1>. QED
  BY <1>2

\* An instance is not below its children.
LEMMA NotAbove ==
  ASSUME NEW k, NEW D, Closed(k, DOMAIN k), Closed(k, D), Acyclic(k, D), NEW x \in D, NEW c \in Elements(k[x])
  PROVE  x \notin Subtree(k, c)
<1>. DEFINE S == {y \in D : x \in Subtree(k, y)}
<1>1. SUFFICES ASSUME x \in Subtree(k, c) PROVE FALSE
  OBVIOUS
<1>2. \A y \in D : IsSubtree(k, y, Subtree(k, y)) /\ Elements(k[y]) \subseteq D
  BY SubtreeIs DEF Closed
<1>3. c \in S
  BY <1>1, <1>2
<1>4. PICK y \in S : Elements(k[y]) \cap S = {}
  BY <1>3 DEF Acyclic
<1>5. y # x
  BY <1>3, <1>4
<1>6. \E z \in Elements(k[y]) : x \in Subtree(k, z)
  <2>. DEFINE U == {y} \cup UNION {Subtree(k, z) : z \in Elements(k[y])}
  <2>1. y \in U /\ U \in SUBSET DOMAIN k
    BY <1>2 DEF IsSubtree, Closed
  <2>2. ASSUME NEW u \in U, NEW v \in Elements(k[u]) PROVE v \in U
    <3>1. CASE u = y
      BY <1>2, <3>1 DEF IsSubtree
    <3>2. CASE u # y
      <4>1. PICK z \in Elements(k[y]) : u \in Subtree(k, z)
        BY <3>2
      <4>2. v \in Subtree(k, z)
        BY <1>2, <4>1 DEF IsSubtree, Closed
      <4>. QED
        BY <4>2
    <3>. QED
      BY <3>1, <3>2
  <2>3. Closed(k, U)
    BY <2>1, <2>2 DEF Closed
  <2>4. Subtree(k, y) \subseteq U
    BY <1>2, <2>1, <2>3 DEF IsSubtree
  <2>. QED
    BY <1>5, <2>4
<1>. QED
  BY <1>2, <1>4, <1>6

-----------------------------------------------------------------------------
(* The tree of the background thread *)

Places == {Root} \cup Nodes

\* Every instance is in one place, and neither way through the tree goes on for ever.
OneParent(k) ==
  \A x \in DOMAIN k, y \in DOMAIN k : Elements(k[x]) \cap Elements(k[y]) # {} => x = y
Rooted(k) == \A S \in SUBSET Places : S # {} => \E x \in S : \A y \in S : x \notin Elements(k[y])
Tree(k) ==
  /\ k \in [Places -> Seq(Nodes)] /\ \A x \in Places : Distinct(k[x])
  /\ OneParent(k) /\ Acyclic(k, Places) /\ Rooted(k)

Parentless(k, n) == \A x \in Places : n \notin Elements(k[x])

LEMMA NodeFacts == Nodes \subseteq Nat \ {0} /\ Root \notin Nodes /\ None \notin Places
  BY ConstantsAssumption DEF Nodes, Root, None, Places

LEMMA TreeFacts ==
  ASSUME NEW k, Tree(k)
  PROVE  /\ DOMAIN k = Places /\ Closed(k, Places) /\ Parentless(k, Root)
         /\ \A x \in Places : /\ IsSubtree(k, x, Subtree(k, x)) /\ Elements(k[x]) \subseteq Nodes
                              /\ Subtree(k, x) \subseteq Places /\ x \in Subtree(k, x)
         /\ \A n \in Nodes : Subtree(k, n) \subseteq Nodes
<1>1. DOMAIN k = Places /\ \A x \in Places : Elements(k[x]) \subseteq Nodes
  BY DEF Tree, Elements
<1>2. Closed(k, Places)
  BY <1>1 DEF Closed, Places
<1>3. Parentless(k, Root)
  BY <1>1, NodeFacts DEF Parentless
<1>4. ASSUME NEW x \in Places PROVE IsSubtree(k, x, Subtree(k, x))
  BY <1>1, <1>2, SubtreeIs DEF Tree
<1>5. \A x \in Places : Subtree(k, x) \subseteq Places /\ x \in Subtree(k, x)
  BY <1>1, <1>4 DEF IsSubtree, Closed
<1>6. ASSUME NEW n \in Nodes PROVE Subtree(k, n) \subseteq Nodes
  <2>1. Closed(k, Nodes) /\ Nodes \in SUBSET DOMAIN k
    BY <1>1 DEF Closed, Places
  <2>2. IsSubtree(k, n, Subtree(k, n))
    BY <1>4 DEF Places
  <2>. QED
    BY <2>1, <2>2 DEF IsSubtree
<1>. QED
  BY <1>1, <1>2, <1>3, <1>4, <1>5, <1>6

LEMMA ParentlessDisjoint ==
  ASSUME NEW k, Tree(k), NEW a \in Places, NEW b \in Places, a # b,
         Parentless(k, a), Parentless(k, b)
  PROVE  Subtree(k, a) \cap Subtree(k, b) = {}
<1>. DEFINE T == Subtree(k, a)
            U == Subtree(k, b)
<1>1. IsSubtree(k, a, T) /\ IsSubtree(k, b, U) /\ T \subseteq Places /\ U \subseteq Places
  BY TreeFacts
<1>. HIDE DEF T, U
<1>2. a \notin U
  <2>1. SUFFICES ASSUME a \in U PROVE FALSE
    OBVIOUS
  <2>2. PICK y \in U : a \in Elements(k[y])
    BY <1>1, <2>1, ParentBelow
  <2>. QED
    BY <1>1, <2>2 DEF Parentless
<1>3. \A x \in T : b \notin Elements(k[x])
  BY <1>1 DEF Parentless
<1>4. T \cap U = {}
  BY <1>1, <1>2, <1>3, SubtreesDisjoint DEF Tree, OneParent
<1>. QED
  BY <1>4 DEF T, U

\* A child below an instance without parents that is not that instance has its parent there.
LEMMA ParentIn ==
  ASSUME NEW k, Tree(k), NEW a \in Places, NEW x \in Subtree(k, a), x # a,
         NEW p \in Places, x \in Elements(k[p])
  PROVE  p \in Subtree(k, a)
<1>1. IsSubtree(k, a, Subtree(k, a)) /\ DOMAIN k = Places /\ Subtree(k, a) \subseteq Places
  BY TreeFacts
<1>2. PICK y \in Subtree(k, a) : x \in Elements(k[y])
  BY <1>1, ParentBelow
<1>3. y = p
  BY <1>1, <1>2 DEF Tree, OneParent
<1>. QED
  BY <1>2, <1>3

\* Children are in the subtree.
LEMMA ChildIn ==
  ASSUME NEW k, Tree(k), NEW a \in Places, NEW p \in Subtree(k, a), NEW x \in Elements(k[p])
  PROVE  x \in Subtree(k, a)
  BY TreeFacts DEF IsSubtree, Closed

\* The subtrees of two children are disjoint, and do not have the parent.
LEMMA SiblingsDisjoint ==
  ASSUME NEW k, Tree(k), NEW p \in Places, NEW a \in Elements(k[p])
  PROVE  /\ p \notin Subtree(k, a)
         /\ \A b \in Elements(k[p]) : a # b => Subtree(k, a) \cap Subtree(k, b) = {}
<1>1. \A x \in Elements(k[p]) : p \notin Subtree(k, x) /\ x \in Nodes /\ x \in Places
  <2>1. Closed(k, DOMAIN k) /\ Closed(k, Places) /\ Acyclic(k, Places)
    BY TreeFacts DEF Tree
  <2>2. Elements(k[p]) \subseteq Nodes
    BY TreeFacts
  <2>3. ASSUME NEW x \in Elements(k[p]) PROVE p \notin Subtree(k, x)
    BY <2>1, NotAbove
  <2>. QED
    BY <2>2, <2>3 DEF Places
<1>2. ASSUME NEW b \in Elements(k[p]), a # b PROVE Subtree(k, a) \cap Subtree(k, b) = {}
  <2>. DEFINE T == Subtree(k, a)
              U == Subtree(k, b)
  <2>1. IsSubtree(k, a, T) /\ IsSubtree(k, b, U) /\ T \subseteq Places /\ U \subseteq Places
    BY <1>1, TreeFacts
  <2>2. a \notin U
    BY <1>1, <1>2, ParentIn
  <2>3. \A x \in T : b \notin Elements(k[x])
    <3>1. ASSUME NEW x \in T, b \in Elements(k[x]) PROVE FALSE
      <4>1. x = p
        BY <2>1, <3>1, TreeFacts DEF Tree, OneParent
      <4>. QED
        BY <1>1, <4>1
    <3>. QED
      BY <3>1
  <2>. HIDE DEF T, U
  <2>4. T \cap U = {}
    BY <2>1, <2>2, <2>3, SubtreesDisjoint DEF Tree, OneParent
  <2>. QED
    BY <2>4 DEF T, U
<1>. QED
  BY <1>1, <1>2

-----------------------------------------------------------------------------
(* Insertion and removal *)

LEMMA TreeInsert ==
  ASSUME NEW k, Tree(k), NEW p \in Places, NEW n \in Nodes, p \notin Subtree(k, n), NEW y,
         \A x \in Places : n \in Elements(k[x]) => x = p
  PROVE  Tree([k EXCEPT ![p] = Placed(k[p], n, y)])
<1>. DEFINE l == [k EXCEPT ![p] = Placed(k[p], n, y)]
            T == Subtree(k, n)
<1>1. /\ DOMAIN k = Places /\ IsSubtree(k, n, T) /\ T \subseteq Nodes
      /\ k \in [Places -> Seq(Nodes)] /\ \A x \in Places : Distinct(k[x])
      /\ \A x \in Places : k[x] \in Seq(Nodes)
  BY TreeFacts DEF Tree, Places
<1>2. /\ Placed(k[p], n, y) \in Seq(Nodes) /\ Distinct(Placed(k[p], n, y))
      /\ Elements(Placed(k[p], n, y)) = Elements(k[p]) \cup {n}
  BY <1>1, PlacedFacts
<1>3. /\ l \in [Places -> Seq(Nodes)]
      /\ \A x \in Places : x # p => l[x] = k[x]
      /\ l[p] = Placed(k[p], n, y)
  BY <1>1, <1>2
<1>. HIDE DEF l, T
<1>4. \A x \in Places : Distinct(l[x])
  BY <1>1, <1>2, <1>3
<1>5. /\ Elements(l[p]) = Elements(k[p]) \cup {n}
      /\ \A x \in Places : x # p => Elements(l[x]) = Elements(k[x])
  BY <1>2, <1>3
<1>6. OneParent(l)
  BY <1>1, <1>3, <1>5 DEF Tree, OneParent
<1>7. p \notin T
  BY DEF T
<1>8. \A x \in T : Elements(k[x]) \subseteq T /\ x \in Places
  BY <1>1 DEF IsSubtree, Closed
<1>9. Acyclic(l, Places)
  <2>1. SUFFICES ASSUME NEW S \in SUBSET Places, S # {}
                 PROVE  \E x \in S : Elements(l[x]) \cap S = {}
    BY DEF Acyclic
  <2>2. CASE S \cap T # {}
    <3>1. PICK x \in S \cap T : Elements(k[x]) \cap (S \cap T) = {}
      <4>1. S \cap T \in SUBSET Places
        OBVIOUS
      <4>. QED
        BY <2>2, <4>1 DEF Tree, Acyclic
    <3>2. Elements(l[x]) = Elements(k[x]) /\ Elements(k[x]) \subseteq T
      BY <1>5, <1>7, <1>8, <3>1
    <3>. QED
      BY <3>1, <3>2
  <2>3. CASE S \cap T = {}
    <3>1. PICK x \in S : Elements(k[x]) \cap S = {}
      BY <2>1 DEF Tree, Acyclic
    <3>2. n \in T
      BY <1>1 DEF IsSubtree
    <3>3. Elements(l[x]) \subseteq Elements(k[x]) \cup {n}
      BY <1>5, <3>1
    <3>. QED
      BY <2>3, <3>1, <3>2, <3>3
  <2>. QED
    BY <2>2, <2>3
<1>10. Rooted(l)
  <2>1. SUFFICES ASSUME NEW S \in SUBSET Places, S # {}
                 PROVE  \E x \in S : \A z \in S : x \notin Elements(l[z])
    BY DEF Rooted
  <2>2. CASE S \ T # {}
    <3>1. PICK x \in S \ T : \A z \in S \ T : x \notin Elements(k[z])
      <4>1. S \ T \in SUBSET Places
        OBVIOUS
      <4>. QED
        BY <2>2, <4>1 DEF Tree, Rooted
    <3>2. \A z \in S : x \notin Elements(k[z])
      BY <1>8, <3>1
    <3>3. x # n
      BY <1>1, <3>1 DEF IsSubtree
    <3>. QED
      BY <1>5, <3>2, <3>3
  <2>3. CASE S \subseteq T /\ n \in S
    <3>1. p \notin S
      BY <1>7, <2>3
    <3>2. \A z \in S : n \notin Elements(l[z])
      BY <1>3, <3>1
    <3>. QED
      BY <2>3, <3>2
  <2>4. CASE S \subseteq T /\ n \notin S
    <3>1. PICK x \in S : \A z \in S : x \notin Elements(k[z])
      BY <2>1 DEF Tree, Rooted
    <3>. QED
      BY <1>5, <2>4, <3>1
  <2>. QED
    BY <2>2, <2>3, <2>4
<1>11. Tree(l)
  BY <1>3, <1>4, <1>6, <1>9, <1>10 DEF Tree
<1>. QED
  BY <1>11 DEF l

LEMMA TreeRemove ==
  ASSUME NEW k, Tree(k), NEW p \in Places, NEW n
  PROVE  Tree([k EXCEPT ![p] = Without(k[p], n)])
<1>. DEFINE l == [k EXCEPT ![p] = Without(k[p], n)]
<1>1. /\ DOMAIN k = Places /\ k \in [Places -> Seq(Nodes)] /\ \A x \in Places : Distinct(k[x])
      /\ \A x \in Places : k[x] \in Seq(Nodes)
  BY TreeFacts DEF Tree
<1>2. /\ Without(k[p], n) \in Seq(Nodes) /\ Distinct(Without(k[p], n))
      /\ Elements(Without(k[p], n)) = Elements(k[p]) \ {n}
  BY <1>1, WithoutFacts
<1>3. /\ l \in [Places -> Seq(Nodes)]
      /\ \A x \in Places : x # p => l[x] = k[x]
      /\ l[p] = Without(k[p], n)
  BY <1>1, <1>2
<1>. HIDE DEF l
<1>4. \A x \in Places : Distinct(l[x]) /\ Elements(l[x]) \subseteq Elements(k[x])
  BY <1>1, <1>2, <1>3
<1>5. OneParent(l)
  <2>1. DOMAIN l = Places
    BY <1>3
  <2>. QED
    BY <1>1, <1>4, <2>1 DEF Tree, OneParent
<1>8. Rooted(l)
  <2>1. SUFFICES ASSUME NEW S \in SUBSET Places, S # {}
                 PROVE  \E x \in S : \A z \in S : x \notin Elements(l[z])
    BY DEF Rooted
  <2>2. PICK x \in S : \A z \in S : x \notin Elements(k[z])
    BY <2>1 DEF Tree, Rooted
  <2>. QED
    BY <1>4, <2>2
<1>6. Acyclic(l, Places)
  BY <1>4, AcyclicFewer DEF Tree
<1>7. Tree(l)
  BY <1>3, <1>4, <1>5, <1>6, <1>8 DEF Tree
<1>. QED
  BY <1>7 DEF l

\* A subtree without the place that changes stays.
OnlyAt(k, l, p) == \A x \in Places : x # p => l[x] = k[x]

LEMMA SubtreeElsewhere ==
  ASSUME NEW k, Tree(k), NEW l, Tree(l), NEW p, OnlyAt(k, l, p),
         NEW a \in Places, p \notin Subtree(k, a)
  PROVE  Subtree(l, a) = Subtree(k, a)
<1>. DEFINE T == Subtree(k, a)
<1>1. DOMAIN k = Places /\ IsSubtree(k, a, T) /\ DOMAIN l = DOMAIN k
  BY TreeFacts
<1>2. \A x \in T : l[x] = k[x]
  BY <1>1 DEF IsSubtree, Closed, OnlyAt
<1>. HIDE DEF T
<1>3. IsSubtree(l, a, T)
  BY <1>1, <1>2, SubtreeKept
<1>4. IsSubtree(l, a, Subtree(l, a))
  BY TreeFacts
<1>5. Subtree(l, a) = T
  BY <1>3, <1>4, OneSubtree
<1>. QED
  BY <1>5 DEF T

-----------------------------------------------------------------------------
(* Sequences of sequences *)

Joining(T) == \A s, t, u \in Seq(T) : (s \o t) \o u = s \o (t \o u)
LEMMA JoiningAlways == \A T : Joining(T)
  BY ConcatAssociative, Zenon DEF Joining

\* f gives the first, the first two, ... of the sequences as one.
Flattening(ss, f) == f[0] = <<>> /\ \A n \in 1..Len(ss) : f[n] = f[n - 1] \o ss[n]

LEMMA FlatteningThere ==
  ASSUME NEW T, NEW ss \in Seq(Seq(T))
  PROVE  \E f : Flattening(ss, f)
<1>. DEFINE L == Len(ss)
            R(f, n) == IF n = 0 THEN <<>> ELSE f[n - 1] \o ss[n]
            U == {n \in 0..L : \E f : f = [q \in 0..n |-> R(f, q)]}
<1>1. L \in Nat
  OBVIOUS
<1>2. 0 \in U
  <2>. DEFINE g == [q \in 0..0 |-> <<>>]
  <2>1. g = [q \in 0..0 |-> R(g, q)]
    OBVIOUS
  <2>2. 0 \in 0..L
    BY <1>1
  <2>. HIDE DEF g, R, L
  <2>. QED
    BY <2>1, <2>2
<1>3. ASSUME NEW n \in 0..L, n + 1 <= L, n \in U PROVE n + 1 \in U
  <2>1. PICK g : g = [q \in 0..n |-> R(g, q)]
    BY <1>3
  <2>. DEFINE h == [q \in 0..(n + 1) |-> IF q = n + 1 THEN R(g, q) ELSE g[q]]
  <2>2. ASSUME NEW q \in 0..(n + 1) PROVE h[q] = R(h, q)
    <3>1. CASE q = 0
      BY <2>1, <3>1
    <3>2. CASE q # 0
      <4>1. q - 1 \in 0..n /\ q - 1 \in 0..(n + 1) /\ q - 1 # n + 1
        BY <3>2
      <4>2. h[q - 1] = g[q - 1]
        BY <4>1
      <4>3. R(h, q) = R(g, q)
        BY <4>2
      <4>4. CASE q = n + 1
        BY <4>3, <4>4
      <4>5. CASE q # n + 1
        <5>1. q \in 0..n
          BY <4>5
        <5>2. g[q] = R(g, q)
          BY <2>1, <5>1
        <5>. QED
          BY <4>3, <4>5, <5>2
      <4>. QED
        BY <4>4, <4>5
    <3>. QED
      BY <3>1, <3>2
  <2>3. h = [q \in 0..(n + 1) |-> R(h, q)]
    <3>1. DOMAIN h = 0..(n + 1) /\ h = [q \in 0..(n + 1) |-> h[q]]
      OBVIOUS
    <3>. HIDE DEF h
    <3>. QED
      BY <2>2, <3>1
  <2>4. n + 1 \in 0..L
    BY <1>3
  <2>. HIDE DEF h
  <2>. QED
    BY <2>3, <2>4
<1>4. L \in U
  <2>. HIDE DEF U
  <2>1. L \in 0..L
    BY <1>1
  <2>. QED
    BY <1>1, <1>2, <1>3, <2>1, UpTo
<1>5. PICK f : f = [q \in 0..L |-> R(f, q)]
  BY <1>4
<1>8. \A n \in 0..L : f[n] = R(f, n)
  <2>. HIDE DEF R, L
  <2>. QED
    BY <1>5
<1>6. f[0] = <<>>
  <2>1. 0 \in 0..L /\ R(f, 0) = <<>>
    BY <1>1
  <2>. HIDE DEF R, L
  <2>. QED
    BY <1>8, <2>1
<1>7. ASSUME NEW n \in 1..L PROVE f[n] = f[n - 1] \o ss[n]
  <2>2. n \in 0..L /\ n # 0
    BY <1>1
  <2>1. n \in 0..L /\ R(f, n) = f[n - 1] \o ss[n]
    BY <2>2, Zenon
  <2>. HIDE DEF R, L
  <2>. QED
    BY <1>8, <2>1
<1>. QED
  BY <1>6, <1>7 DEF Flattening

LEMMA FlatteningType ==
  ASSUME NEW T, NEW ss \in Seq(Seq(T)), NEW f, Flattening(ss, f)
  PROVE  \A n \in 0..Len(ss) : f[n] \in Seq(T)
<1>. DEFINE U == {n \in 0..Len(ss) : f[n] \in Seq(T)}
<1>1. Len(ss) \in Nat /\ \A n \in 1..Len(ss) : ss[n] \in Seq(T)
  OBVIOUS
<1>2. 0 \in U
  <2>1. f[0] = <<>>
    BY DEF Flattening
  <2>2. <<>> \in Seq(T) /\ 0 \in 0..Len(ss)
    BY <1>1
  <2>. QED
    BY <2>1, <2>2, Zenon
<1>3. ASSUME NEW n \in 0..Len(ss), n + 1 <= Len(ss), n \in U PROVE n + 1 \in U
  <2>1. n + 1 \in 1..Len(ss) /\ (n + 1) - 1 = n /\ n + 1 \in 0..Len(ss)
    BY <1>3
  <2>2. f[n + 1] = f[n] \o ss[n + 1] /\ ss[n + 1] \in Seq(T) /\ f[n] \in Seq(T)
    BY <1>1, <1>3, <2>1 DEF Flattening
  <2>3. f[n] \o ss[n + 1] \in Seq(T)
    BY <2>2, ConcatProperties
  <2>. QED
    BY <2>1, <2>2, <2>3
<1>. HIDE DEF U
<1>4. \A n \in 0..Len(ss) : n \in U
  BY <1>1, <1>2, <1>3, UpTo
<1>. QED
  BY <1>4 DEF U

\* FlattenSeq is the last of them.
LEMMA FlattenIs ==
  ASSUME NEW T, NEW ss \in Seq(Seq(T)), NEW f, Flattening(ss, f)
  PROVE  FlattenSeq(ss) = f[Len(ss)] /\ FlattenSeq(ss) \in Seq(T)
<1>. DEFINE L == Len(ss)
<1>1. L \in Nat /\ \A n \in 0..L : f[n] \in Seq(T)
  BY FlatteningType
<1>2. FlattenSeq(ss) = f[L]
  <2>1. CASE L = 0
    BY <2>1 DEF FlattenSeq, Flattening
  <2>2. CASE L # 0
    <3>. DEFINE R(g, n) == IF n = 1 THEN ss[n] ELSE g[n - 1] \o ss[n]
                g0 == [n \in 1..L |-> f[n]]
                flat == CHOOSE g : g = [n \in 1..L |-> R(g, n)]
    <3>1. ASSUME NEW n \in 1..L PROVE f[n] = R(f, n)
      <4>1. f[n] = f[n - 1] \o ss[n]
        BY DEF Flattening
      <4>2. CASE n = 1
        <5>1. ss[n] \in Seq(T) /\ f[n - 1] = <<>>
          BY <4>2 DEF Flattening
        <5>2. <<>> \o ss[n] = ss[n]
          BY <5>1, ConcatEmptySeq
        <5>. QED
          BY <4>1, <4>2, <5>1, <5>2
      <4>. QED
        BY <4>1, <4>2
    <3>2. ASSUME NEW n \in 1..L PROVE g0[n] = R(g0, n)
      <4>1. CASE n = 1
        BY <3>1, <4>1
      <4>2. CASE n # 1
        <5>1. n - 1 \in 1..L
          BY <4>2
        <5>. QED
          BY <3>1, <4>2, <5>1
      <4>. QED
        BY <4>1, <4>2
    <3>3. g0 = [n \in 1..L |-> R(g0, n)]
      <4>1. g0 = [n \in 1..L |-> g0[n]]
        OBVIOUS
      <4>. HIDE DEF g0
      <4>. QED
        BY <3>2, <4>1
    <3>4. flat = [n \in 1..L |-> R(flat, n)]
      <4>. HIDE DEF g0
      <4>. QED
        BY <3>3
    <3>5. FlattenSeq(ss) = flat[L]
      BY <2>2 DEF FlattenSeq
    <3>. HIDE DEF flat
    <3>. DEFINE U == {n \in 0..L : n # 0 => flat[n] = f[n]}
    <3>6. 0 \in U
      BY <1>1
    <3>7. ASSUME NEW n \in 0..L, n + 1 <= L, n \in U PROVE n + 1 \in U
      <4>1. n + 1 \in 1..L /\ (n + 1) - 1 = n /\ n + 1 \in 0..L
        BY <3>7
      <4>2. flat[n + 1] = R(flat, n + 1) /\ f[n + 1] = R(f, n + 1)
        BY <3>1, <3>4, <4>1
      <4>3. CASE n = 0
        BY <4>1, <4>2, <4>3
      <4>4. CASE n # 0
        <5>1. flat[n] = f[n]
          BY <3>7, <4>4
        <5>. QED
          BY <4>1, <4>2, <5>1
      <4>. QED
        BY <4>3, <4>4
    <3>. HIDE DEF U
    <3>8. \A n \in 0..L : n \in U
      BY <1>1, <3>6, <3>7, UpTo
    <3>9. L \in 0..L
      BY <1>1
    <3>. QED
      BY <2>2, <3>5, <3>8, <3>9 DEF U
  <2>. QED
    BY <2>1, <2>2
<1>3. L \in 0..L
  BY <1>1
<1>. QED
  BY <1>1, <1>2, <1>3

LEMMA FlattenNone == FlattenSeq(<<>>) = <<>>
  BY DEF FlattenSeq

LEMMA FlattenAppend ==
  ASSUME NEW T, NEW ss \in Seq(Seq(T)), NEW s \in Seq(T)
  PROVE  FlattenSeq(Append(ss, s)) = FlattenSeq(ss) \o s /\ FlattenSeq(ss) \in Seq(T)
<1>. DEFINE L == Len(ss)
            tt == Append(ss, s)
<1>1. PICK f : Flattening(ss, f)
  BY FlatteningThere
<1>2. FlattenSeq(ss) = f[L] /\ FlattenSeq(ss) \in Seq(T)
  BY <1>1, FlattenIs
<1>3. /\ tt \in Seq(Seq(T)) /\ Len(tt) = L + 1 /\ L \in Nat /\ tt[L + 1] = s
      /\ \A n \in 1..L : tt[n] = ss[n]
  OBVIOUS
<1>. DEFINE g == [n \in 0..(L + 1) |-> IF n = L + 1 THEN f[L] \o s ELSE f[n]]
<1>. HIDE DEF tt
<1>4. Flattening(tt, g)
  <2>1. g[0] = <<>>
    BY <1>1, <1>3 DEF Flattening
  <2>2. ASSUME NEW n \in 1..(L + 1) PROVE g[n] = g[n - 1] \o tt[n]
    <3>1. CASE n = L + 1
      <4>1. n \in 0..(L + 1) /\ n - 1 \in 0..(L + 1) /\ n - 1 # L + 1 /\ n - 1 = L
        BY <1>3, <3>1
      <4>2. g[n] = f[L] \o s /\ g[n - 1] = f[L]
        BY <3>1, <4>1
      <4>. HIDE DEF g
      <4>. QED
        BY <1>3, <3>1, <4>2
    <3>2. CASE n # L + 1
      <4>1. n \in 1..L /\ n - 1 \in 0..(L + 1) /\ n - 1 # L + 1
        BY <1>3, <3>2
      <4>2. g[n] = f[n] /\ g[n - 1] = f[n - 1]
        BY <3>2, <4>1
      <4>3. f[n] = f[n - 1] \o ss[n]
        BY <1>1, <4>1 DEF Flattening
      <4>. HIDE DEF g
      <4>. QED
        BY <1>3, <4>1, <4>2, <4>3
    <3>. QED
      BY <3>1, <3>2
  <2>. HIDE DEF g
  <2>. QED
    BY <1>3, <2>1, <2>2 DEF Flattening
<1>5. FlattenSeq(tt) = g[L + 1]
  <2>. HIDE DEF g
  <2>. QED
    BY <1>3, <1>4, FlattenIs
<1>6. g[L + 1] = f[L] \o s
  BY <1>3
<1>. QED
  BY <1>2, <1>5, <1>6 DEF tt

LEMMA FlattenHead ==
  ASSUME NEW T, NEW ss \in Seq(Seq(T)), ss # <<>>
  PROVE  FlattenSeq(ss) = Head(ss) \o FlattenSeq(Tail(ss)) /\ FlattenSeq(Tail(ss)) \in Seq(T)
         /\ Head(ss) \in Seq(T)
<1>. DEFINE L == Len(ss)
            s == Head(ss)
            tt == Tail(ss)
<1>1. /\ tt \in Seq(Seq(T)) /\ Len(tt) = L - 1 /\ L \in Nat /\ L # 0 /\ s \in Seq(T)
      /\ \A n \in 1..(L - 1) : tt[n] = ss[n + 1]
      /\ s = ss[1]
  OBVIOUS
<1>. HIDE DEF tt, s
<1>2. PICK f : Flattening(tt, f)
  BY <1>1, FlatteningThere
<1>3. FlattenSeq(tt) = f[L - 1] /\ FlattenSeq(tt) \in Seq(T)
  BY <1>1, <1>2, FlattenIs
<1>4. \A n \in 0..(L - 1) : f[n] \in Seq(T)
  BY <1>1, <1>2, FlatteningType
<1>. DEFINE g == [n \in 0..L |-> IF n = 0 THEN <<>> ELSE s \o f[n - 1]]
<1>5. Flattening(ss, g)
  <2>1. g[0] = <<>>
    BY <1>1
  <2>2. ASSUME NEW n \in 1..L PROVE g[n] = g[n - 1] \o ss[n]
    <3>1. CASE n = 1
      <4>3. n \in 0..L /\ n # 0 /\ n - 1 = 0 /\ 0 \in 0..L /\ f[0] = <<>>
        BY <1>1, <1>2, <3>1 DEF Flattening
      <4>4. g[n] = s \o f[n - 1] /\ g[0] = <<>>
        BY <4>3
      <4>1. g[n] = s \o <<>> /\ g[n - 1] = <<>>
        <5>. HIDE DEF g
        <5>. QED
          BY <4>3, <4>4
      <4>2. s \o <<>> = s /\ <<>> \o s = s
        BY <1>1, ConcatEmptySeq
      <4>. QED
        BY <1>1, <3>1, <4>1, <4>2
    <3>2. CASE n # 1
      <4>1. n - 1 \in 1..(L - 1) /\ n - 1 \in 0..L /\ n - 1 # 0 /\ (n - 1) + 1 = n
            /\ (n - 1) - 1 \in 0..(L - 1)
        BY <1>1, <3>2
      <4>7. n \in 0..L /\ n # 0
        BY <1>1
      <4>8. g[n] = s \o f[n - 1]
        BY <4>7
      <4>2. g[n] = s \o f[n - 1] /\ g[n - 1] = s \o f[(n - 1) - 1]
        BY <4>1, <4>8
      <4>3. f[n - 1] = f[(n - 1) - 1] \o tt[n - 1]
        BY <1>1, <1>2, <4>1 DEF Flattening
      <4>4. tt[n - 1] = ss[n] /\ ss[n] \in Seq(T)
        BY <1>1, <4>1
      <4>5. f[(n - 1) - 1] \in Seq(T)
        BY <1>4, <4>1
      <4>9. s \in Seq(T)
        BY <1>1
      <4>6. s \o (f[(n - 1) - 1] \o ss[n]) = (s \o f[(n - 1) - 1]) \o ss[n]
        <5>. DEFINE u == f[(n - 1) - 1]
                    v == ss[n]
        <5>1. u \in Seq(T) /\ v \in Seq(T)
          BY <4>4, <4>5
        <5>. HIDE DEF u, v
        <5>2. (s \o u) \o v = s \o (u \o v)
          <6>1. Joining(T)
            BY JoiningAlways
          <6>. QED
            BY <4>9, <5>1, <6>1, Zenon DEF Joining
        <5>. QED
          BY <5>2 DEF u, v
      <4>. QED
        BY <4>2, <4>3, <4>4, <4>6
    <3>. QED
      BY <3>1, <3>2
  <2>. HIDE DEF g
  <2>. QED
    BY <2>1, <2>2 DEF Flattening
<1>6. FlattenSeq(ss) = g[L]
  <2>. HIDE DEF g
  <2>. QED
    BY <1>5, FlattenIs
<1>8. L \in 0..L /\ L # 0
  BY <1>1
<1>7. g[L] = s \o f[L - 1]
  <2>. HIDE DEF L
  <2>. QED
    BY <1>8
<1>. QED
  BY <1>1, <1>3, <1>6, <1>7 DEF s, tt

-----------------------------------------------------------------------------
(* Replaying a patch *)

Ops ==
  [op : {"CreateElement"}, id : MainIds]
  \cup [op : {"SetAttribute"}, id : MainIds, value : Int]
  \cup [op : {"InsertBefore"}, parent : MainIds, child : MainIds, before : Int]
  \cup [op : {"RemoveChild"}, parent : MainIds, child : MainIds]

MainStates ==
  [ids : SUBSET MainIds, kids : [MainIds -> Seq(MainIds)], value : [MainIds -> Int], errors : Nat]

\* g gives the states of the main thread as it replays s.
Run(m, s, g) == g[0] = m /\ \A n \in 1..Len(s) : g[n] = ApplyOp(g[n - 1], s[n])

LEMMA RunsAgree ==
  ASSUME NEW m, NEW s, Len(s) \in Nat, NEW g, Run(m, s, g), NEW h, Run(m, s, h)
  PROVE  g[Len(s)] = h[Len(s)]
<1>. DEFINE L == Len(s)
            U == {n \in 0..L : g[n] = h[n]}
<1>. HIDE DEF L
<1>1. L \in Nat /\ L \in 0..L
  BY DEF L
<1>2. 0 \in U
  BY <1>1 DEF Run
<1>3. ASSUME NEW n \in 0..L, n + 1 <= L, n \in U PROVE n + 1 \in U
  <2>1. n + 1 \in 1..L /\ (n + 1) - 1 = n /\ n + 1 \in 0..L
    BY <1>1, <1>3
  <2>2. g[n + 1] = ApplyOp(g[n], s[n + 1]) /\ h[n + 1] = ApplyOp(h[n], s[n + 1])
    BY <2>1 DEF Run, L
  <2>. QED
    BY <1>3, <2>1, <2>2
<1>. HIDE DEF U
<1>4. L \in U
  BY <1>1, <1>2, <1>3, UpTo
<1>. QED
  BY <1>4 DEF U, L

LEMMA RunThere ==
  ASSUME NEW m, NEW s, Len(s) \in Nat
  PROVE  \E g : Run(m, s, g) /\ snapshotPatchApply(m, s) = g[Len(s)]
<1>. DEFINE L == Len(s)
            R(f, n) == IF n = 0 THEN m
                       ELSE CHOOSE r \in {ApplyOp(x, s[n]) : x \in {f[n - 1]}} : TRUE
            U == {n \in 0..L : \E f : f = [q \in 0..n |-> R(f, q)]}
<1>1. L \in Nat
  OBVIOUS
<1>2. 0 \in U
  <2>. DEFINE g == [q \in 0..0 |-> m]
  <2>1. g = [q \in 0..0 |-> R(g, q)]
    OBVIOUS
  <2>2. 0 \in 0..L
    BY <1>1
  <2>. HIDE DEF g, R, L
  <2>. QED
    BY <2>1, <2>2
<1>3. ASSUME NEW n \in 0..L, n + 1 <= L, n \in U PROVE n + 1 \in U
  <2>1. PICK g : g = [q \in 0..n |-> R(g, q)]
    BY <1>3
  <2>. DEFINE h == [q \in 0..(n + 1) |-> IF q = n + 1 THEN R(g, q) ELSE g[q]]
  <2>2. ASSUME NEW q \in 0..(n + 1) PROVE h[q] = R(h, q)
    <3>1. CASE q = 0
      BY <2>1, <3>1
    <3>2. CASE q # 0
      <4>1. q - 1 \in 0..n /\ q - 1 \in 0..(n + 1) /\ q - 1 # n + 1
        BY <3>2
      <4>2. h[q - 1] = g[q - 1]
        BY <4>1
      <4>3. R(h, q) = R(g, q)
        BY <4>2
      <4>4. CASE q = n + 1
        BY <4>3, <4>4
      <4>5. CASE q # n + 1
        <5>1. q \in 0..n
          BY <4>5
        <5>2. g[q] = R(g, q)
          BY <2>1, <5>1
        <5>. QED
          BY <4>3, <4>5, <5>2
      <4>. QED
        BY <4>4, <4>5
    <3>. QED
      BY <3>1, <3>2
  <2>3. h = [q \in 0..(n + 1) |-> R(h, q)]
    <3>1. DOMAIN h = 0..(n + 1) /\ h = [q \in 0..(n + 1) |-> h[q]]
      OBVIOUS
    <3>. HIDE DEF h
    <3>. QED
      BY <2>2, <3>1
  <2>4. n + 1 \in 0..L
    BY <1>3
  <2>. HIDE DEF h
  <2>. QED
    BY <2>3, <2>4
<1>4. L \in U
  <2>. HIDE DEF U
  <2>1. L \in 0..L
    BY <1>1
  <2>. QED
    BY <1>1, <1>2, <1>3, <2>1, UpTo
<1>. DEFINE after == CHOOSE f : f = [q \in 0..Len(s) |-> R(f, q)]
<1>5. after = [q \in 0..L |-> R(after, q)]
  <2>. HIDE DEF R, L
  <2>1. PICK f : f = [q \in 0..L |-> R(f, q)]
    BY <1>4
  <2>. QED
    BY <2>1 DEF L
<1>6. snapshotPatchApply(m, s) = after[L]
  BY DEF snapshotPatchApply
<1>. HIDE DEF after
<1>7. \A n \in 0..L : after[n] = R(after, n)
  <2>. HIDE DEF R, L
  <2>. QED
    BY <1>5
<1>8. after[0] = m
  <2>1. 0 \in 0..L
    BY <1>1
  <2>. QED
    BY <1>7, <2>1
<1>9. ASSUME NEW n \in 1..L PROVE after[n] = ApplyOp(after[n - 1], s[n])
  <2>1. n \in 0..L /\ n # 0
    BY <1>1
  <2>2. after[n] = CHOOSE r \in {ApplyOp(x, s[n]) : x \in {after[n - 1]}} : TRUE
    BY <1>7, <2>1, Zenon
  <2>. QED
    BY <2>2
<1>. QED
  BY <1>6, <1>8, <1>9 DEF Run

LEMMA ApplyIs ==
  ASSUME NEW m, NEW s, Len(s) \in Nat, NEW g, Run(m, s, g)
  PROVE  snapshotPatchApply(m, s) = g[Len(s)]
  BY RunThere, RunsAgree

LEMMA ApplyNone ==
  ASSUME NEW m
  PROVE  snapshotPatchApply(m, <<>>) = m
<1>1. Len(<<>>) = 0 /\ 0 \in Nat
  OBVIOUS
<1>2. PICK g : Run(m, <<>>, g) /\ snapshotPatchApply(m, <<>>) = g[Len(<<>>)]
  BY <1>1, RunThere
<1>. QED
  BY <1>1, <1>2 DEF Run

LEMMA ApplyOne ==
  ASSUME NEW m, NEW o
  PROVE  snapshotPatchApply(m, <<o>>) = ApplyOp(m, o)
<1>1. Len(<<o>>) = 1 /\ <<o>>[1] = o /\ 1 \in 1..1 /\ 1 - 1 = 0
  OBVIOUS
<1>2. PICK g : Run(m, <<o>>, g) /\ snapshotPatchApply(m, <<o>>) = g[Len(<<o>>)]
  BY <1>1, RunThere
<1>3. g[1] = ApplyOp(g[0], o) /\ g[0] = m
  BY <1>1, <1>2 DEF Run
<1>. QED
  BY <1>1, <1>2, <1>3

\* A patch may be replayed in parts.
LEMMA ApplyConcat ==
  ASSUME NEW m, NEW T, NEW s \in Seq(T), NEW t \in Seq(T)
  PROVE  snapshotPatchApply(m, s \o t) = snapshotPatchApply(snapshotPatchApply(m, s), t)
<1>. DEFINE L == Len(s)
            K == Len(t)
            a == snapshotPatchApply(m, s)
<1>1. L \in Nat /\ K \in Nat
  OBVIOUS
<1>2. PICK g : Run(m, s, g) /\ a = g[L]
  BY <1>1, RunThere
<1>. HIDE DEF a
<1>3. PICK h : Run(a, t, h) /\ snapshotPatchApply(a, t) = h[K]
  BY <1>1, RunThere
<1>. DEFINE f == [n \in 0..(L + K) |-> IF n <= L THEN g[n] ELSE h[n - L]]
            st == s \o t
<1>4. /\ Len(st) = L + K /\ \A n \in 1..L : st[n] = s[n]
      /\ \A n \in 1..(L + K) : n > L => st[n] = t[n - L]
  BY ConcatProperties
<1>. HIDE DEF st, L, K
<1>5. f[0] = m
  BY <1>1, <1>2 DEF Run
<1>6. ASSUME NEW n \in 1..(L + K) PROVE f[n] = ApplyOp(f[n - 1], st[n])
  <2>1. CASE n <= L
    <3>1. n \in 1..L /\ n \in 0..(L + K) /\ n - 1 \in 0..(L + K) /\ n - 1 <= L
      BY <1>1, <2>1
    <3>2. f[n] = g[n] /\ f[n - 1] = g[n - 1]
      BY <2>1, <3>1
    <3>3. g[n] = ApplyOp(g[n - 1], s[n])
      BY <1>2, <3>1 DEF Run, L
    <3>. QED
      BY <1>4, <3>1, <3>2, <3>3
  <2>2. CASE n > L
    <3>1. n \in 0..(L + K) /\ n - 1 \in 0..(L + K) /\ ~ n <= L /\ n - L \in 1..K
          /\ (n - L) - 1 = (n - 1) - L
      BY <1>1, <2>2
    <3>2. f[n] = h[n - L]
      BY <3>1
    <3>3. h[n - L] = ApplyOp(h[(n - 1) - L], t[n - L])
      BY <1>3, <3>1 DEF Run, K
    <3>4. f[n - 1] = h[(n - 1) - L]
      <4>1. CASE n = L + 1
        <5>1. f[n - 1] = g[L] /\ (n - 1) - L = 0
          BY <1>1, <3>1, <4>1
        <5>. QED
          BY <1>2, <1>3, <5>1 DEF Run
      <4>2. CASE n # L + 1
        <5>1. ~ n - 1 <= L
          BY <1>1, <2>2, <4>2
        <5>. QED
          BY <3>1, <5>1
      <4>. QED
        BY <4>1, <4>2
    <3>5. st[n] = t[n - L]
      BY <1>4, <2>2
    <3>. QED
      BY <3>2, <3>3, <3>4, <3>5
  <2>. QED
    BY <1>1, <2>1, <2>2
<1>7. f[L + K] = h[K]
  <2>1. L + K \in 0..(L + K) /\ (L + K) - L = K
    BY <1>1
  <2>2. CASE K = 0
    <3>1. f[L + K] = g[L]
      BY <1>1, <2>1, <2>2
    <3>. QED
      BY <1>2, <1>3, <2>2, <3>1 DEF Run
  <2>3. CASE K # 0
    <3>1. ~ L + K <= L
      BY <1>1, <2>3
    <3>. QED
      BY <2>1, <3>1
  <2>. QED
    BY <2>2, <2>3
<1>. HIDE DEF f
<1>8. Run(m, st, f)
  BY <1>4, <1>5, <1>6 DEF Run
<1>9. snapshotPatchApply(m, st) = f[L + K]
  <2>1. Len(st) \in Nat
    BY <1>1, <1>4
  <2>. QED
    BY <1>4, <1>8, <2>1, ApplyIs
<1>. QED
  BY <1>3, <1>7, <1>9 DEF st, a

\* A sequence of patches, one after the other.
Replays(m, ss, g) ==
  /\ g[0] = m
  /\ \A n \in 1..Len(ss) : g[n] = snapshotPatchApply(g[n - 1], ss[n])
  /\ snapshotPatchApply(m, FlattenSeq(ss)) = g[Len(ss)]

LEMMA ApplyFlattened ==
  ASSUME NEW m, NEW T, NEW ss \in Seq(Seq(T))
  PROVE  \E g : Replays(m, ss, g)
<1>1. PICK f : Flattening(ss, f)
  BY FlatteningThere
<1>2. Len(ss) \in Nat /\ FlattenSeq(ss) = f[Len(ss)] /\ \A n \in 0..Len(ss) : f[n] \in Seq(T)
  BY <1>1, FlattenIs, FlatteningType
<1>. DEFINE L == Len(ss)
            g == [n \in 0..L |-> snapshotPatchApply(m, f[n])]
<1>. HIDE DEF L
<1>3. g[0] = m
  <2>1. 0 \in 0..L /\ f[0] = <<>>
    BY <1>1, <1>2 DEF Flattening, L
  <2>. QED
    BY <2>1, ApplyNone
<1>4. ASSUME NEW n \in 1..L PROVE g[n] = snapshotPatchApply(g[n - 1], ss[n])
  <2>1. n \in 0..L /\ n - 1 \in 0..L /\ ss[n] \in Seq(T)
    BY <1>2 DEF L
  <2>2. f[n] = f[n - 1] \o ss[n]
    BY <1>1 DEF Flattening, L
  <2>3. f[n - 1] \in Seq(T)
    BY <1>2, <2>1 DEF L
  <2>4. snapshotPatchApply(m, f[n]) = snapshotPatchApply(snapshotPatchApply(m, f[n - 1]), ss[n])
    BY <2>1, <2>2, <2>3, ApplyConcat
  <2>. QED
    BY <2>1, <2>4
<1>5. L \in 0..L /\ g[L] = snapshotPatchApply(m, FlattenSeq(ss))
  BY <1>2 DEF L
<1>. HIDE DEF g
<1>. QED
  BY <1>3, <1>4, <1>5 DEF L, Replays

-----------------------------------------------------------------------------
(* One operation on the main thread *)

LEMMA IdFacts ==
  /\ MainIds \subseteq Int /\ Nodes \subseteq MainIds /\ Root \in MainIds /\ Root = 0
  /\ None \in Int /\ None \notin MainIds
  BY ConstantsAssumption DEF MainIds, Nodes, Root, None

LEMMA PlacedType ==
  ASSUME NEW S, NEW q \in Seq(S), NEW x \in S, NEW y
  PROVE  Without(q, x) \in Seq(S) /\ Placed(q, x, y) \in Seq(S)
<1>1. ASSUME NEW z PROVE Without(q, z) \in Seq(S)
  <2>1. CASE z \in Elements(q)
    <3>1. (CHOOSE p \in DOMAIN q : q[p] = z) \in 1..Len(q)
      BY <2>1, PlaceOfElement
    <3>. QED
      BY <2>1, <3>1, RemovedAt DEF Without
  <2>2. CASE z \notin Elements(q)
    BY <2>2 DEF Without
  <2>. QED
    BY <2>1, <2>2
<1>. DEFINE t == Without(q, x)
<1>2. t \in Seq(S)
  BY <1>1
<1>3. Placed(q, x, y) = IF y \in Elements(t)
                        THEN InsertAt(t, CHOOSE p \in DOMAIN t : t[p] = y, x) ELSE Append(t, x)
  BY DEF Placed
<1>. HIDE DEF t
<1>4. CASE y \in Elements(t)
  <2>. DEFINE k == CHOOSE p \in DOMAIN t : t[p] = y
  <2>1. k \in 1..Len(t)
    BY <1>2, <1>4, PlaceOfElement
  <2>. HIDE DEF k
  <2>2. k \in 1..(Len(t) + 1)
    BY <1>2, <2>1
  <2>3. Adding(S)
    BY AddingAlways
  <2>4. InsertAt(t, k, x) \in Seq(S)
    BY <1>2, <2>2, <2>3 DEF Adding
  <2>. QED
    BY <1>2, <1>3, <1>4, <2>4 DEF k, t
<1>5. CASE y \notin Elements(t)
  BY <1>2, <1>3, <1>5 DEF t
<1>. QED
  BY <1>4, <1>5

LEMMA StateFacts ==
  ASSUME NEW m \in MainStates
  PROVE  /\ m.ids \in SUBSET MainIds /\ m.kids \in [MainIds -> Seq(MainIds)]
         /\ m.value \in [MainIds -> Int] /\ m.errors \in Nat
         /\ DOMAIN m = {"ids", "kids", "value", "errors"}
  BY DEF MainStates

LEMMA UnlinkedType ==
  ASSUME NEW m \in MainStates, NEW c \in MainIds
  PROVE  Unlinked(m, c) \in [MainIds -> Seq(MainIds)]
<1>. DEFINE parents == {p \in m.ids : c \in Elements(m.kids[p])}
            p == CHOOSE q \in parents : TRUE
<1>1. m.kids \in [MainIds -> Seq(MainIds)] /\ m.ids \subseteq MainIds
  BY StateFacts
<1>2. CASE parents = {}
  BY <1>1, <1>2 DEF Unlinked
<1>3. CASE parents # {}
  <2>1. p \in MainIds
    BY <1>1, <1>3
  <2>2. Unlinked(m, c) = [m.kids EXCEPT ![p] = Without(m.kids[p], c)]
    BY <1>3 DEF Unlinked
  <2>. HIDE DEF p
  <2>3. Without(m.kids[p], c) \in Seq(MainIds)
    <3>1. m.kids[p] \in Seq(MainIds)
      BY <1>1, <2>1
    <3>. QED
      BY <3>1, PlacedType
  <2>. QED
    BY <1>1, <2>1, <2>2, <2>3
<1>. QED
  BY <1>2, <1>3

LEMMA ApplyCreate ==
  ASSUME NEW m \in MainStates, NEW n \in MainIds
  PROVE  LET r == ApplyOp(m, CreateElement(n))
         IN  /\ r \in MainStates /\ r.ids = m.ids \cup {n} /\ r.errors = m.errors
             /\ r.kids = [m.kids EXCEPT ![n] = <<>>] /\ r.value = [m.value EXCEPT ![n] = Unset]
<1>. DEFINE r == ApplyOp(m, CreateElement(n))
<1>1. r = [m EXCEPT !.ids = m.ids \cup {n}, !.kids[n] = <<>>, !.value[n] = Unset]
  BY DEF ApplyOp, CreateElement
<1>2. /\ m.ids \in SUBSET MainIds /\ m.kids \in [MainIds -> Seq(MainIds)]
      /\ m.value \in [MainIds -> Int] /\ m.errors \in Nat
      /\ DOMAIN m = {"ids", "kids", "value", "errors"}
  BY StateFacts
<1>. HIDE DEF r
<1>3. /\ r.ids = m.ids \cup {n} /\ r.errors = m.errors
      /\ r.kids = [m.kids EXCEPT ![n] = <<>>] /\ r.value = [m.value EXCEPT ![n] = Unset]
  BY <1>1, <1>2
<1>5. <<>> \in Seq(MainIds) /\ Unset \in Int
  BY DEF Unset
<1>6. [m.kids EXCEPT ![n] = <<>>] \in [MainIds -> Seq(MainIds)]
  BY <1>2, <1>5, Zenon
<1>7. [m.value EXCEPT ![n] = Unset] \in [MainIds -> Int]
  BY <1>2, <1>5
<1>8. m.ids \cup {n} \in SUBSET MainIds
  BY <1>2
<1>4. r \in MainStates
  BY <1>1, <1>2, <1>6, <1>7, <1>8 DEF MainStates
<1>. QED
  BY <1>3, <1>4 DEF r

LEMMA ApplySet ==
  ASSUME NEW m \in MainStates, NEW n \in MainIds, NEW v \in Int, n \in m.ids
  PROVE  LET r == ApplyOp(m, SetAttribute(n, v))
         IN  /\ r \in MainStates /\ r.ids = m.ids /\ r.errors = m.errors
             /\ r.kids = m.kids /\ r.value = [m.value EXCEPT ![n] = v]
<1>. DEFINE r == ApplyOp(m, SetAttribute(n, v))
<1>1. r = [m EXCEPT !.value[n] = v]
  BY DEF ApplyOp, SetAttribute, Missing
<1>2. /\ m.ids \in SUBSET MainIds /\ m.kids \in [MainIds -> Seq(MainIds)]
      /\ m.value \in [MainIds -> Int] /\ m.errors \in Nat
      /\ DOMAIN m = {"ids", "kids", "value", "errors"}
  BY StateFacts
<1>. HIDE DEF r
<1>3. r.ids = m.ids /\ r.errors = m.errors /\ r.kids = m.kids /\ r.value = [m.value EXCEPT ![n] = v]
  BY <1>1, <1>2
<1>4. r \in MainStates
  BY <1>1, <1>2 DEF MainStates
<1>. QED
  BY <1>3, <1>4 DEF r

\* A child leaves no other parent than the one it is inserted in.
LEMMA ApplyInsert ==
  ASSUME NEW m \in MainStates, NEW p \in m.ids, NEW c \in m.ids, NEW b,
         \A q \in m.ids : c \in Elements(m.kids[q]) => q = p
  PROVE  LET r == ApplyOp(m, InsertBefore(p, c, b))
         IN  /\ r \in MainStates /\ r.ids = m.ids /\ r.errors = m.errors /\ r.value = m.value
             /\ r.kids = [m.kids EXCEPT ![p] = Placed(m.kids[p], c, b)]
<1>. DEFINE r == ApplyOp(m, InsertBefore(p, c, b))
            parents == {q \in m.ids : c \in Elements(m.kids[q])}
            s == Placed(m.kids[p], c, b)
<1>1. r = [m EXCEPT !.kids = [Unlinked(m, c) EXCEPT ![p] = s]]
  BY DEF ApplyOp, InsertBefore, Missing
<1>2. /\ m.ids \in SUBSET MainIds /\ m.kids \in [MainIds -> Seq(MainIds)]
      /\ m.value \in [MainIds -> Int] /\ m.errors \in Nat
      /\ DOMAIN m = {"ids", "kids", "value", "errors"}
  BY StateFacts
<1>3. p \in MainIds /\ c \in MainIds /\ m.kids[p] \in Seq(MainIds)
  BY <1>2
<1>4. s \in Seq(MainIds)
  BY <1>3, PlacedType
<1>. HIDE DEF r, s
<1>5. [Unlinked(m, c) EXCEPT ![p] = s] = [m.kids EXCEPT ![p] = s]
  <2>1. CASE parents = {}
    BY <2>1 DEF Unlinked
  <2>2. CASE parents # {}
    <3>1. (CHOOSE q \in parents : TRUE) = p
      BY <2>2
    <3>2. Unlinked(m, c) = [m.kids EXCEPT ![p] = Without(m.kids[p], c)]
      BY <2>2, <3>1 DEF Unlinked
    <3>. QED
      BY <1>2, <1>3, <3>2
  <2>. QED
    BY <2>1, <2>2
<1>6. /\ r.ids = m.ids /\ r.errors = m.errors /\ r.value = m.value
      /\ r.kids = [m.kids EXCEPT ![p] = s]
  BY <1>1, <1>2, <1>5
<1>7. [m.kids EXCEPT ![p] = s] \in [MainIds -> Seq(MainIds)]
  BY <1>2, <1>4
<1>8. r \in MainStates
  BY <1>1, <1>2, <1>5, <1>7 DEF MainStates
<1>. QED
  BY <1>6, <1>8 DEF r, s

LEMMA ApplyRemove ==
  ASSUME NEW m \in MainStates, NEW p \in m.ids, NEW c \in m.ids, c \in Elements(m.kids[p])
  PROVE  LET r == ApplyOp(m, RemoveChild(p, c))
         IN  /\ r \in MainStates /\ r.ids = m.ids \ Subtree(m.kids, c)
             /\ r.errors = m.errors /\ r.value = m.value
             /\ r.kids = [m.kids EXCEPT ![p] = Without(m.kids[p], c)]
<1>. DEFINE r == ApplyOp(m, RemoveChild(p, c))
            s == Without(m.kids[p], c)
            d == m.ids \ Subtree(m.kids, c)
<1>1. r = [m EXCEPT !.kids[p] = s, !.ids = d]
  BY DEF ApplyOp, RemoveChild, Missing, RemovedOnMain
<1>2. /\ m.ids \in SUBSET MainIds /\ m.kids \in [MainIds -> Seq(MainIds)]
      /\ m.value \in [MainIds -> Int] /\ m.errors \in Nat
      /\ DOMAIN m = {"ids", "kids", "value", "errors"}
  BY StateFacts
<1>3. p \in MainIds /\ c \in MainIds /\ m.kids[p] \in Seq(MainIds) /\ d \in SUBSET MainIds
  BY <1>2
<1>4. s \in Seq(MainIds)
  BY <1>3, PlacedType
<1>. HIDE DEF r, s, d
<1>5. /\ r.ids = d /\ r.errors = m.errors /\ r.value = m.value
      /\ r.kids = [m.kids EXCEPT ![p] = s]
  BY <1>1, <1>2
<1>6. [m.kids EXCEPT ![p] = s] \in [MainIds -> Seq(MainIds)]
  BY <1>2, <1>4
<1>7. r \in MainStates
  BY <1>1, <1>2, <1>3, <1>6 DEF MainStates
<1>. QED
  BY <1>5, <1>7 DEF r, s, d

LEMMA ApplyOpType ==
  ASSUME NEW m \in MainStates, NEW o \in Ops
  PROVE  ApplyOp(m, o) \in MainStates
<1>1. /\ m.ids \in SUBSET MainIds /\ m.kids \in [MainIds -> Seq(MainIds)]
      /\ m.value \in [MainIds -> Int] /\ m.errors \in Nat
      /\ DOMAIN m = {"ids", "kids", "value", "errors"}
  BY StateFacts
<1>2. WithError(m) \in MainStates
  <2>. DEFINE e == m.errors + 1
  <2>1. e \in Nat
    BY <1>1
  <2>2. WithError(m) = [m EXCEPT !.errors = e]
    BY DEF WithError
  <2>. HIDE DEF e
  <2>. QED
    BY <1>1, <2>1, <2>2 DEF MainStates
<1>3. CASE o \in [op : {"CreateElement"}, id : MainIds]
  <2>1. o = CreateElement(o.id) /\ o.id \in MainIds
    BY <1>3 DEF CreateElement
  <2>2. ApplyOp(m, CreateElement(o.id)) \in MainStates
    BY <2>1, ApplyCreate
  <2>. QED
    BY <2>1, <2>2
<1>4. CASE o \in [op : {"SetAttribute"}, id : MainIds, value : Int]
  <2>1. o = SetAttribute(o.id, o.value) /\ o.id \in MainIds /\ o.value \in Int /\ o.op = "SetAttribute"
    BY <1>4 DEF SetAttribute
  <2>2. CASE o.id \in m.ids
    <3>1. ApplyOp(m, SetAttribute(o.id, o.value)) \in MainStates
      BY <2>1, <2>2, ApplySet
    <3>. QED
      BY <2>1, <3>1
  <2>3. CASE o.id \notin m.ids
    <3>1. ApplyOp(m, o) = WithError(m)
      BY <2>1, <2>3 DEF ApplyOp, Missing
    <3>. QED
      BY <1>2, <3>1
  <2>. QED
    BY <2>2, <2>3
<1>5. CASE o \in [op : {"InsertBefore"}, parent : MainIds, child : MainIds, before : Int]
  <2>1. o.op = "InsertBefore" /\ o.parent \in MainIds /\ o.child \in MainIds
    BY <1>5
  <2>2. CASE Missing(m, o.parent) \/ Missing(m, o.child)
    <3>1. ApplyOp(m, o) = WithError(m)
      BY <2>1, <2>2 DEF ApplyOp
    <3>. QED
      BY <1>2, <3>1
  <2>3. CASE ~ (Missing(m, o.parent) \/ Missing(m, o.child))
    <3>. DEFINE s == Placed(m.kids[o.parent], o.child, o.before)
                k == Unlinked(m, o.child)
    <3>1. ApplyOp(m, o) = [m EXCEPT !.kids = [k EXCEPT ![o.parent] = s]]
      BY <2>1, <2>3 DEF ApplyOp
    <3>2. k \in [MainIds -> Seq(MainIds)]
      BY <2>1, UnlinkedType
    <3>3. s \in Seq(MainIds)
      <4>1. m.kids[o.parent] \in Seq(MainIds)
        BY <1>1, <2>1
      <4>. QED
        BY <2>1, <4>1, PlacedType
    <3>. HIDE DEF s, k
    <3>4. [k EXCEPT ![o.parent] = s] \in [MainIds -> Seq(MainIds)]
      BY <3>2, <3>3
    <3>. QED
      BY <1>1, <3>1, <3>4 DEF MainStates
  <2>. QED
    BY <2>2, <2>3
<1>6. CASE o \in [op : {"RemoveChild"}, parent : MainIds, child : MainIds]
  <2>1. o = RemoveChild(o.parent, o.child) /\ o.op = "RemoveChild"
        /\ o.parent \in MainIds /\ o.child \in MainIds
    BY <1>6 DEF RemoveChild
  <2>2. CASE Missing(m, o.parent) \/ Missing(m, o.child)
             \/ o.child \notin Elements(m.kids[o.parent])
    <3>1. ApplyOp(m, o) = WithError(m)
      BY <2>1, <2>2 DEF ApplyOp
    <3>. QED
      BY <1>2, <3>1
  <2>3. CASE ~ (Missing(m, o.parent) \/ Missing(m, o.child)
                \/ o.child \notin Elements(m.kids[o.parent]))
    <3>1. ApplyOp(m, RemoveChild(o.parent, o.child)) \in MainStates
      BY <2>1, <2>3, ApplyRemove DEF Missing
    <3>. QED
      BY <2>1, <3>1
  <2>. QED
    BY <2>2, <2>3
<1>. QED
  BY <1>3, <1>4, <1>5, <1>6 DEF Ops

LEMMA ApplyType ==
  ASSUME NEW m \in MainStates, NEW s \in Seq(Ops)
  PROVE  snapshotPatchApply(m, s) \in MainStates
<1>. DEFINE L == Len(s)
<1>1. L \in Nat /\ \A n \in 1..L : s[n] \in Ops
  OBVIOUS
<1>2. PICK g : Run(m, s, g) /\ snapshotPatchApply(m, s) = g[L]
  BY <1>1, RunThere
<1>. DEFINE U == {n \in 0..L : g[n] \in MainStates}
<1>. HIDE DEF L
<1>3. 0 \in U /\ L \in 0..L
  BY <1>1, <1>2 DEF Run
<1>4. ASSUME NEW n \in 0..L, n + 1 <= L, n \in U PROVE n + 1 \in U
  <2>1. n + 1 \in 1..L /\ (n + 1) - 1 = n /\ n + 1 \in 0..L
    BY <1>1, <1>4
  <2>2. g[n + 1] = ApplyOp(g[n], s[n + 1]) /\ s[n + 1] \in Ops /\ g[n] \in MainStates
    BY <1>1, <1>2, <1>4, <2>1 DEF Run, L
  <2>. QED
    BY <2>1, <2>2, ApplyOpType
<1>. HIDE DEF U
<1>5. L \in U
  BY <1>1, <1>3, <1>4, UpTo
<1>. QED
  BY <1>2, <1>5 DEF U

-----------------------------------------------------------------------------
(* Building a subtree on the main thread *)

\* What the proofs below need of the background thread.
Background ==
  /\ Tree(kids) /\ id \in [Nodes -> MainIds \ {Root}] /\ OneToOne(id, Nodes)
  /\ value \in [Nodes -> Int]

ChildOps(t, s, c) == s \o <<InsertBefore(t, id[c], None)>>
BuildOps(f, n) ==
  ElementOps(n) \o FlattenSeq([p \in DOMAIN kids[n] |-> ChildOps(id[n], f[kids[n][p]], kids[n][p])])

LEMMA BuildOpsSame ==
  ASSUME NEW f, NEW g, NEW n, \A c \in Elements(kids[n]) : f[c] = g[c]
  PROVE  BuildOps(f, n) = BuildOps(g, n)
<1>1. \A p \in DOMAIN kids[n] : f[kids[n][p]] = g[kids[n][p]]
  BY DEF Elements
<1>. DEFINE F(h) == [p \in DOMAIN kids[n] |-> ChildOps(id[n], h[kids[n][p]], kids[n][p])]
<1>2. F(f) = F(g)
  BY <1>1
<1>3. BuildOps(f, n) = ElementOps(n) \o FlattenSeq(F(f)) /\ BuildOps(g, n) = ElementOps(n) \o FlattenSeq(F(g))
  BY DEF BuildOps
<1>. HIDE DEF F
<1>. QED
  BY <1>2, <1>3

\* The recursive definition of reconstruct has a solution, since the tree ends.
LEMMA ReconstructIs ==
  ASSUME Tree(kids), NEW n \in Nodes
  PROVE  reconstruct(n) = BuildOps([m \in Nodes |-> reconstruct(m)], n)
<1>. DEFINE Sub(x) == Subtree(kids, x)
            Good(f, x) == \A m \in Sub(x) : f[m] = BuildOps(f, m)
            Def(x) == \E f : Good(f, x)
            G == [m \in Nodes |-> (CHOOSE f : Good(f, m))[m]]
<1>1. \A x \in Nodes : /\ Sub(x) \subseteq Nodes /\ x \in Sub(x)
                       /\ \A m \in Sub(x) : Elements(kids[m]) \subseteq Sub(x)
                                            /\ Sub(m) \subseteq Sub(x)
  <2>1. ASSUME NEW x \in Nodes
        PROVE  /\ Sub(x) \subseteq Nodes /\ x \in Sub(x)
               /\ \A m \in Sub(x) : Elements(kids[m]) \subseteq Sub(x)
                                    /\ Sub(m) \subseteq Sub(x)
    <3>1. /\ IsSubtree(kids, x, Sub(x)) /\ Sub(x) \subseteq Nodes /\ x \in Sub(x)
          /\ \A m \in Nodes : IsSubtree(kids, m, Sub(m))
      BY TreeFacts DEF Places
    <3>2. \A m \in Sub(x) : Sub(m) \subseteq Sub(x)
      BY <3>1, SubtreeWithin
    <3>. QED
      BY <3>1, <3>2 DEF IsSubtree, Closed
  <2>. QED
    BY <2>1
<1>2. \A m \in Nodes : \A c \in Elements(kids[m]) : m \notin Sub(c) /\ c \in Nodes
  <2>1. ASSUME NEW m \in Nodes, NEW c \in Elements(kids[m]) PROVE m \notin Sub(c) /\ c \in Nodes
    <3>1. m \in Places
      BY DEF Places
    <3>. QED
      BY <3>1, SiblingsDisjoint, TreeFacts
  <2>. QED
    BY <2>1
<1>. HIDE DEF Sub
\* Two solutions agree.
<1>3. ASSUME NEW x \in Nodes, NEW f, NEW g, Good(f, x), Good(g, x)
      PROVE  \A m \in Sub(x) : f[m] = g[m]
  <2>. DEFINE S == {m \in Sub(x) : f[m] # g[m]}
  <2>1. SUFFICES ASSUME S # {} PROVE FALSE
    OBVIOUS
  <2>2. S \in SUBSET Places
    BY <1>1 DEF Places
  <2>3. PICK m \in S : Elements(kids[m]) \cap S = {}
    BY <2>1, <2>2 DEF Tree, Acyclic
  <2>4. \A c \in Elements(kids[m]) : f[c] = g[c]
    BY <1>1, <2>3
  <2>5. BuildOps(f, m) = BuildOps(g, m)
    BY <2>4, BuildOpsSame
  <2>6. f[m] = BuildOps(f, m) /\ g[m] = BuildOps(g, m)
    BY <1>3, <2>3
  <2>. QED
    BY <2>3, <2>5, <2>6
<1>4. ASSUME NEW x \in Nodes, NEW f, Good(f, x), NEW m \in Sub(x) PROVE Good(f, m)
  BY <1>1, <1>4
<1>. HIDE DEF Good
\* Where there is a solution, G is one.
<1>5. ASSUME NEW m \in Nodes, Def(m) PROVE G[m] = BuildOps(G, m)
  <2>. DEFINE g == CHOOSE f : Good(f, m)
  <2>1. Good(g, m) /\ G[m] = g[m]
    BY <1>5
  <2>. HIDE DEF g
  <2>2. ASSUME NEW c \in Elements(kids[m]) PROVE g[c] = G[c]
    <3>1. c \in Sub(m) /\ c \in Nodes /\ c \in Sub(c)
      BY <1>1, <1>2
    <3>2. Good(g, c)
      BY <1>4, <2>1, <3>1
    <3>. DEFINE h == CHOOSE f : Good(f, c)
    <3>3. Good(h, c) /\ G[c] = h[c]
      BY <3>1, <3>2
    <3>. HIDE DEF h
    <3>. QED
      BY <1>3, <3>1, <3>2, <3>3
  <2>3. BuildOps(g, m) = BuildOps(G, m)
    <3>. HIDE DEF G
    <3>. QED
      BY <2>2, BuildOpsSame
  <2>4. g[m] = BuildOps(g, m)
    BY <1>1, <2>1 DEF Good
  <2>. QED
    BY <2>1, <2>3, <2>4
<1>6. \A x \in Nodes : Def(x)
  <2>. DEFINE S == {x \in Nodes : ~ Def(x)}
  <2>1. SUFFICES ASSUME S # {} PROVE FALSE
    OBVIOUS
  <2>2. S \in SUBSET Places
    BY DEF Places
  <2>3. PICK x \in S : Elements(kids[x]) \cap S = {}
    BY <2>1, <2>2 DEF Tree, Acyclic
  <2>4. \A c \in Elements(kids[x]) : Def(c) /\ c \in Nodes
    BY <1>2, <2>3
  <2>. DEFINE h == [m \in Nodes |-> IF m = x THEN BuildOps(G, x) ELSE G[m]]
  <2>5. ASSUME NEW m \in Sub(x), m # x PROVE Def(m) /\ m \in Nodes
    <3>1. IsSubtree(kids, x, Sub(x)) /\ \A c \in Elements(kids[x]) : IsSubtree(kids, c, Sub(c))
      BY <2>4, TreeFacts DEF Places, Sub
    <3>. DEFINE U == {x} \cup UNION {Sub(c) : c \in Elements(kids[x])}
    <3>2. U \subseteq Nodes /\ U \subseteq DOMAIN kids
      BY <1>1, <2>4, TreeFacts DEF Places
    <3>3. ASSUME NEW u \in U, NEW v \in Elements(kids[u]) PROVE v \in U
      <4>1. CASE u = x
        BY <1>1, <2>4, <4>1
      <4>2. CASE u # x
        <5>1. PICK c \in Elements(kids[x]) : u \in Sub(c)
          BY <4>2
        <5>2. v \in Sub(c)
          BY <1>1, <2>4, <5>1
        <5>. QED
          BY <5>2
      <4>. QED
        BY <4>1, <4>2
    <3>4. Closed(kids, U) /\ x \in U
      BY <3>2, <3>3 DEF Closed
    <3>5. Sub(x) \subseteq U
      BY <3>1, <3>2, <3>4 DEF IsSubtree
    <3>6. PICK c \in Elements(kids[x]) : m \in Sub(c)
      BY <2>5, <3>5
    <3>7. PICK f : Good(f, c)
      BY <2>4
    <3>8. Good(f, m)
      BY <1>4, <2>4, <3>6, <3>7
    <3>. QED
      BY <1>1, <3>8
  <2>. HIDE DEF G
  <2>6. ASSUME NEW m \in Sub(x) PROVE h[m] = BuildOps(h, m)
    <3>1. m \in Nodes
      BY <1>1
    <3>2. \A c \in Elements(kids[m]) : c # x /\ c \in Nodes
      BY <1>2, <3>1
    <3>3. \A c \in Elements(kids[m]) : h[c] = G[c]
      BY <3>2
    <3>4. BuildOps(h, m) = BuildOps(G, m)
      <4>. HIDE DEF h
      <4>. QED
        BY <3>3, BuildOpsSame
    <3>5. CASE m = x
      BY <3>1, <3>4, <3>5
    <3>6. CASE m # x
      <4>1. G[m] = BuildOps(G, m)
        <5>. HIDE DEF Def
        <5>. QED
          BY <1>5, <2>5, <3>6
      <4>2. h[m] = G[m]
        BY <3>1, <3>6
      <4>. QED
        BY <3>4, <4>1, <4>2
    <3>. QED
      BY <3>5, <3>6
  <2>. HIDE DEF h
  <2>7. Good(h, x)
    BY <2>6 DEF Good
  <2>. QED
    BY <2>3, <2>7
<1>7. \A m \in Nodes : G[m] = BuildOps(G, m)
  <2>. HIDE DEF G, Def
  <2>. QED
    BY <1>5, <1>6
<1>. DEFINE B(f) == [m \in Nodes |-> BuildOps(f, m)]
            build == CHOOSE f : f = B(f)
<1>8. \A m : reconstruct(m) = build[m]
  BY DEF reconstruct, BuildOps, ChildOps
<1>9. build = B(build)
  <2>1. G = [m \in Nodes |-> G[m]]
    OBVIOUS
  <2>. HIDE DEF G
  <2>2. G = B(G)
    BY <1>7, <2>1
  <2>. HIDE DEF B
  <2>. QED
    BY <2>2
<1>. HIDE DEF build
<1>10. build[n] = BuildOps(build, n)
  BY <1>9
<1>. DEFINE F == [m \in Nodes |-> reconstruct(m)]
<1>11. \A c \in Elements(kids[n]) : build[c] = F[c]
  BY <1>2, <1>8
<1>. HIDE DEF F
<1>12. BuildOps(build, n) = BuildOps(F, n)
  BY <1>11, BuildOpsSame
<1>. QED
  BY <1>8, <1>10, <1>12 DEF F

KidOps(n) ==
  [p \in DOMAIN kids[n] |-> ChildOps(id[n], reconstruct(kids[n][p]), kids[n][p])]

LEMMA ReconstructUnfolds ==
  ASSUME Tree(kids), NEW n \in Nodes
  PROVE  reconstruct(n) = ElementOps(n) \o FlattenSeq(KidOps(n))
<1>. DEFINE F == [m \in Nodes |-> reconstruct(m)]
<1>1. reconstruct(n) = BuildOps(F, n)
  BY ReconstructIs
<1>2. \A p \in DOMAIN kids[n] : kids[n][p] \in Nodes
  <2>1. Elements(kids[n]) \subseteq Nodes
    BY TreeFacts DEF Places
  <2>. QED
    BY <2>1 DEF Elements
<1>3. \A p \in DOMAIN kids[n] : F[kids[n][p]] = reconstruct(kids[n][p])
  BY <1>2
<1>. HIDE DEF F
<1>4. [p \in DOMAIN kids[n] |-> ChildOps(id[n], F[kids[n][p]], kids[n][p])] = KidOps(n)
  BY <1>3 DEF KidOps
<1>5. BuildOps(F, n) = ElementOps(n) \o
        FlattenSeq([p \in DOMAIN kids[n] |-> ChildOps(id[n], F[kids[n][p]], kids[n][p])])
  BY DEF BuildOps
<1>. QED
  BY <1>1, <1>4, <1>5

LEMMA OpFacts ==
  ASSUME NEW a \in MainIds, NEW b \in MainIds, NEW c \in Int
  PROVE  /\ CreateElement(a) \in Ops /\ SetAttribute(a, c) \in Ops
         /\ InsertBefore(a, b, c) \in Ops /\ RemoveChild(a, b) \in Ops
  BY DEF Ops, CreateElement, SetAttribute, InsertBefore, RemoveChild

LEMMA ChildOpsType ==
  ASSUME Background, NEW t \in MainIds, NEW s \in Seq(Ops), NEW c \in Nodes
  PROVE  ChildOps(t, s, c) \in Seq(Ops)
<1>1. InsertBefore(t, id[c], None) \in Ops
  BY OpFacts, IdFacts DEF Background
<1>2. <<InsertBefore(t, id[c], None)>> \in Seq(Ops)
  BY <1>1
<1>3. s \o <<InsertBefore(t, id[c], None)>> \in Seq(Ops)
  BY <1>2, ConcatProperties
<1>. QED
  BY <1>3 DEF ChildOps

LEMMA ElementOpsType ==
  ASSUME Background, NEW n \in Nodes
  PROVE  ElementOps(n) \in Seq(Ops)
<1>1. id[n] \in MainIds /\ value[n] \in Int
  BY DEF Background
<1>2. CreateElement(id[n]) \in Ops /\ SetAttribute(id[n], value[n]) \in Ops
  BY <1>1, OpFacts
<1>. DEFINE a == <<CreateElement(id[n])>>
            b == IF value[n] = Unset THEN <<>> ELSE <<SetAttribute(id[n], value[n])>>
<1>3. a \in Seq(Ops) /\ b \in Seq(Ops)
  BY <1>2
<1>4. ElementOps(n) = a \o b
  BY DEF ElementOps
<1>. HIDE DEF a, b
<1>. QED
  BY <1>3, <1>4, ConcatProperties

LEMMA ReconstructType ==
  ASSUME Background
  PROVE  \A n \in Nodes : reconstruct(n) \in Seq(Ops) /\ KidOps(n) \in Seq(Seq(Ops))
<1>. DEFINE S == {n \in Nodes : ~ (reconstruct(n) \in Seq(Ops) /\ KidOps(n) \in Seq(Seq(Ops)))}
<1>1. SUFFICES ASSUME S # {} PROVE FALSE
  OBVIOUS
<1>2. Tree(kids) /\ S \in SUBSET Places
  BY DEF Background, Places
<1>3. PICK n \in S : Elements(kids[n]) \cap S = {}
  BY <1>1, <1>2 DEF Tree, Acyclic
<1>4. n \in Nodes /\ Elements(kids[n]) \subseteq Nodes /\ kids[n] \in Seq(Nodes)
  BY <1>2, <1>3, TreeFacts DEF Tree
<1>5. \A p \in DOMAIN kids[n] : kids[n][p] \in Nodes /\ reconstruct(kids[n][p]) \in Seq(Ops)
  BY <1>3, <1>4 DEF Elements
<1>6. \A p \in DOMAIN kids[n] : ChildOps(id[n], reconstruct(kids[n][p]), kids[n][p]) \in Seq(Ops)
  <2>1. id[n] \in MainIds
    BY <1>4 DEF Background
  <2>. QED
    BY <1>5, <2>1, ChildOpsType
<1>7. KidOps(n) \in Seq(Seq(Ops))
  <2>1. DOMAIN kids[n] = 1..Len(kids[n]) /\ Len(kids[n]) \in Nat
    BY <1>4
  <2>. QED
    BY <1>6, <2>1 DEF KidOps
<1>8. FlattenSeq(KidOps(n)) \in Seq(Ops)
  <2>1. PICK f : Flattening(KidOps(n), f)
    BY <1>7, FlatteningThere
  <2>. QED
    BY <1>7, <2>1, FlattenIs
<1>9. reconstruct(n) \in Seq(Ops)
  <2>1. ElementOps(n) \in Seq(Ops)
    BY <1>4, ElementOpsType
  <2>2. reconstruct(n) = ElementOps(n) \o FlattenSeq(KidOps(n))
    BY <1>2, <1>4, ReconstructUnfolds
  <2>. QED
    BY <1>8, <2>1, <2>2, ConcatProperties
<1>. QED
  BY <1>3, <1>7, <1>9

Names(T) == {id[y] : y \in T}

\* With an instance the main thread has its children.
Clean(m) == \A x \in m.ids : Elements(m.kids[x]) \subseteq m.ids

\* The instances of T are in r as the background thread has them, the others as in m.
Built(m, r, T) ==
  /\ r \in MainStates /\ Clean(r) /\ r.errors = m.errors /\ r.ids = m.ids \cup Names(T)
  /\ \A y \in T : r.kids[id[y]] = Renamed(id, kids[y]) /\ r.value[id[y]] = value[y]
Builds(m, r, T) ==
  Built(m, r, T) /\ \A x \in m.ids \ Names(T) : r.kids[x] = m.kids[x] /\ r.value[x] = m.value[x]

\* They are, and n is the last child of t.
Appends(m, r, t, n) ==
  /\ Built(m, r, Subtree(kids, n)) /\ r.kids[t] = Append(m.kids[t], id[n])
  /\ \A x \in m.ids \ Names(Subtree(kids, n)) :
       (x # t => r.kids[x] = m.kids[x]) /\ r.value[x] = m.value[x]

\* Instances of T may be there already, left over below one another, and nowhere else.
CanBuild(m, T) ==
  /\ m \in MainStates /\ Clean(m)
  /\ \A x \in m.ids \ Names(T) : Elements(m.kids[x]) \cap Names(T) = {}
  /\ \A y \in T : id[y] \in m.ids => Elements(m.kids[id[y]]) \subseteq Image(id, Elements(kids[y]))
Unused(m, T) == m \in MainStates /\ Clean(m) /\ m.ids \cap Names(T) = {}

LEMMA UnusedFacts ==
  ASSUME NEW m, NEW T, Unused(m, T)
  PROVE  CanBuild(m, T) /\ m.ids \ Names(T) = m.ids
<1>1. m.ids \ Names(T) = m.ids /\ \A y \in T : id[y] \notin m.ids
  BY DEF Unused, Names
<1>2. \A x \in m.ids : Elements(m.kids[x]) \cap Names(T) = {}
  BY DEF Unused, Clean
<1>. QED
  BY <1>1, <1>2 DEF CanBuild, Unused

Reconstructs(n) ==
  \A m : CanBuild(m, Subtree(kids, n)) =>
           Builds(m, snapshotPatchApply(m, reconstruct(n)), Subtree(kids, n))

LEMMA AppendChild ==
  ASSUME Background, NEW n \in Nodes, Reconstructs(n), NEW m, CanBuild(m, Subtree(kids, n)),
         NEW t \in m.ids, t \notin Names(Subtree(kids, n))
  PROVE  Appends(m, snapshotPatchApply(m, ChildOps(t, reconstruct(n), n)), t, n)
<1>. DEFINE T == Subtree(kids, n)
            a == snapshotPatchApply(m, reconstruct(n))
            r == snapshotPatchApply(m, ChildOps(t, reconstruct(n), n))
            c == id[n]
<1>1. Builds(m, a, T)
  BY DEF Reconstructs
<1>2. /\ Tree(kids) /\ n \in Places /\ n \in T /\ T \subseteq Nodes
      /\ \A x \in T : Elements(kids[x]) \subseteq T /\ x \notin {} /\ n \notin Elements(kids[x])
  <2>1. Tree(kids) /\ n \in Places
    BY DEF Background, Places
  <2>2. n \in T /\ T \subseteq Nodes /\ \A x \in T : Elements(kids[x]) \subseteq T
    BY <2>1, TreeFacts, ChildIn
  <2>3. \A x \in T : n \notin Elements(kids[x])
    BY <2>1, <2>2, SiblingsDisjoint DEF Places
  <2>. QED
    BY <2>1, <2>2, <2>3
<1>3. /\ t \in MainIds /\ t \in a.ids /\ c \in a.ids /\ c \in MainIds /\ a \in MainStates /\ m \in MainStates
      /\ reconstruct(n) \in Seq(Ops)
  BY <1>1, <1>2, StateFacts, ReconstructType DEF Builds, Built, Names, Background, CanBuild
<1>4. r = ApplyOp(a, InsertBefore(t, c, None))
  <2>1. InsertBefore(t, c, None) \in Ops
    BY <1>3, OpFacts, IdFacts
  <2>2. <<InsertBefore(t, c, None)>> \in Seq(Ops)
    BY <2>1
  <2>. DEFINE u == reconstruct(n)
              v == <<InsertBefore(t, c, None)>>
  <2>3. r = snapshotPatchApply(m, u \o v) /\ a = snapshotPatchApply(m, u)
        /\ u \in Seq(Ops) /\ v \in Seq(Ops)
    BY <1>3, <2>2 DEF ChildOps
  <2>4. snapshotPatchApply(a, v) = ApplyOp(a, InsertBefore(t, c, None))
    BY ApplyOne
  <2>. HIDE DEF u, v, a, r
  <2>5. r = snapshotPatchApply(a, v)
    BY <2>3, ApplyConcat
  <2>. QED
    BY <2>4, <2>5
<1>. HIDE DEF T, a, r, c
<1>5. /\ Clean(m) /\ c \in Names(T) /\ t \notin Names(T)
      /\ \A x \in m.ids \ Names(T) : Elements(m.kids[x]) \cap Names(T) = {}
      /\ a.ids = m.ids \cup Names(T) /\ a.errors = m.errors /\ Clean(a)
      /\ \A x \in m.ids \ Names(T) : a.kids[x] = m.kids[x] /\ a.value[x] = m.value[x]
      /\ \A y \in T : a.kids[id[y]] = Renamed(id, kids[y]) /\ a.value[id[y]] = value[y]
  BY <1>1, <1>2 DEF CanBuild, Builds, Built, Names, T, c
<1>6. ASSUME NEW x \in a.ids PROVE c \notin Elements(a.kids[x])
  <2>1. CASE x \in m.ids \ Names(T)
    BY <1>5, <2>1
  <2>2. CASE x \in Names(T)
    <3>1. PICK y \in T : x = id[y]
      BY <1>5, <2>2 DEF Names
    <3>2. Maps(id, Nodes, MainIds) /\ kids[y] \in Seq(Nodes) /\ OneToOne(id, Nodes)
      BY <1>2, <3>1 DEF Background, Maps, Tree, Places
    <3>3. Elements(a.kids[x]) = {id[z] : z \in Elements(kids[y])}
      BY <1>5, <3>1, <3>2, RenamedFacts
    <3>4. \A z \in Elements(kids[y]) : z # n /\ z \in Nodes
      BY <1>2, <3>1
    <3>. QED
      BY <3>2, <3>3, <3>4 DEF OneToOne, c
  <2>. QED
    BY <1>5, <2>1, <2>2
<1>7. /\ r \in MainStates /\ r.ids = a.ids /\ r.errors = a.errors /\ r.value = a.value
      /\ r.kids = [a.kids EXCEPT ![t] = Placed(a.kids[t], c, None)]
  BY <1>3, <1>4, <1>6, ApplyInsert
<1>8. a.kids \in [MainIds -> Seq(MainIds)] /\ a.kids[t] = m.kids[t] /\ a.kids[t] \in Seq(MainIds)
      /\ a.ids \subseteq MainIds
  BY <1>3, <1>5, StateFacts
<1>9. Placed(a.kids[t], c, None) = Append(m.kids[t], c)
  <2>1. None \notin Elements(a.kids[t]) /\ c \notin Elements(a.kids[t])
    BY <1>3, <1>6, <1>8, ElementFacts, IdFacts
  <2>. QED
    BY <1>8, <2>1, PlacedLast
<1>10. /\ r.kids[t] = Append(m.kids[t], c)
       /\ \A x \in MainIds : x # t => r.kids[x] = a.kids[x]
  BY <1>3, <1>7, <1>8, <1>9
<1>11. Clean(r)
  <2>1. ASSUME NEW x \in a.ids PROVE Elements(r.kids[x]) \subseteq a.ids
    <3>1. CASE x = t
      <4>1. Elements(Append(m.kids[t], c)) = Elements(m.kids[t]) \cup {c}
        <5>1. m.kids[t] \in Seq(MainIds)
          BY <1>8
        <5>2. Append(m.kids[t], c) \in Seq(MainIds)
          BY <1>3, <5>1
        <5>3. /\ Len(m.kids[t]) \in Nat /\ DOMAIN m.kids[t] = 1..Len(m.kids[t])
              /\ DOMAIN Append(m.kids[t], c) = 1..(Len(m.kids[t]) + 1)
              /\ Append(m.kids[t], c)[Len(m.kids[t]) + 1] = c
              /\ \A p \in 1..Len(m.kids[t]) : Append(m.kids[t], c)[p] = m.kids[t][p]
          BY <5>1
        <5>4. \A p \in 1..(Len(m.kids[t]) + 1) : p \in 1..Len(m.kids[t]) \/ p = Len(m.kids[t]) + 1
          BY <5>3
        <5>5. 1..Len(m.kids[t]) \subseteq 1..(Len(m.kids[t]) + 1)
              /\ Len(m.kids[t]) + 1 \in 1..(Len(m.kids[t]) + 1)
          BY <5>3
        <5>. QED
          BY <5>3, <5>4, <5>5 DEF Elements
      <4>2. Elements(m.kids[t]) \subseteq m.ids
        BY <1>5 DEF Clean
      <4>. QED
        BY <1>3, <1>5, <1>10, <3>1, <4>1, <4>2
    <3>2. CASE x # t
      BY <1>5, <1>8, <1>10, <3>2 DEF Clean
    <3>. QED
      BY <3>1, <3>2
  <2>. QED
    BY <1>7, <2>1 DEF Clean
<1>12. \A y \in T : id[y] \in Names(T) /\ id[y] # t /\ id[y] \in MainIds
  BY <1>2, <1>5 DEF Names, Background
<1>13. Built(m, r, T)
  BY <1>5, <1>7, <1>10, <1>11, <1>12 DEF Built
<1>14. \A x \in m.ids \ Names(T) : (x # t => r.kids[x] = m.kids[x]) /\ r.value[x] = m.value[x]
  BY <1>5, <1>7, <1>8, <1>10
<1>15. Appends(m, r, t, n)
  BY <1>10, <1>13, <1>14 DEF Appends, T, c
<1>. QED
  BY <1>15 DEF r

FirstKids(n, p) == UNION {Subtree(kids, kids[n][q]) : q \in 1..p}
BelowKids(n) == FirstKids(n, Len(kids[n]))

\* The first p children of n have been built below t.
Filled(m, r, t, n, p) ==
  /\ Built(m, r, FirstKids(n, p))
  /\ Len(r.kids[t]) = p /\ \A q \in 1..p : r.kids[t][q] = id[kids[n][q]]
  /\ \A x \in m.ids \ Names(FirstKids(n, p)) : (x # t => r.kids[x] = m.kids[x]) /\ r.value[x] = m.value[x]

LEMMA FillStep ==
  ASSUME Background, NEW n \in Nodes, NEW p \in 0..Len(kids[n]), p + 1 <= Len(kids[n]),
         Reconstructs(kids[n][p + 1]),
         NEW m, CanBuild(m, BelowKids(n)), NEW t \in m.ids, t \notin Names(BelowKids(n)), NEW a, Filled(m, a, t, n, p), NEW r,
         r = snapshotPatchApply(a, ChildOps(t, reconstruct(kids[n][p + 1]), kids[n][p + 1]))
  PROVE  Filled(m, r, t, n, p + 1)
<1>. DEFINE c == kids[n][p + 1]
            T == FirstKids(n, p)
            U == Subtree(kids, c)
            B == BelowKids(n)
<1>1. /\ Tree(kids) /\ n \in Places /\ kids[n] \in Seq(Nodes) /\ Distinct(kids[n])
      /\ Elements(kids[n]) \subseteq Nodes
      /\ Len(kids[n]) \in Nat /\ DOMAIN kids[n] = 1..Len(kids[n])
      /\ p + 1 \in 1..Len(kids[n]) /\ p \in Nat
  <2>1. Tree(kids) /\ n \in Places
    BY DEF Background, Places
  <2>2. kids[n] \in Seq(Nodes) /\ Distinct(kids[n])
    BY <2>1 DEF Tree
  <2>. QED
    BY <2>1, <2>2, ElementFacts
<1>2. c \in Elements(kids[n]) /\ \A q \in 1..p : kids[n][q] \in Elements(kids[n]) /\ kids[n][q] # c
  BY <1>1 DEF Elements, Distinct
<1>3. /\ T \cap U = {} /\ c \in Nodes /\ U \subseteq Nodes /\ T \subseteq Nodes /\ c \in U
      /\ Closed(kids, T)
  <2>1. \A q \in 1..p : Subtree(kids, kids[n][q]) \cap U = {}
    BY <1>1, <1>2, SiblingsDisjoint
  <2>2. \A q \in 1..p : Subtree(kids, kids[n][q]) \subseteq Nodes
    BY <1>1, <1>2, TreeFacts
  <2>3. c \in Nodes /\ U \subseteq Nodes /\ c \in U
    BY <1>1, <1>2, TreeFacts DEF Places
  <2>4. \A q \in 1..p : Closed(kids, Subtree(kids, kids[n][q]))
    BY <1>1, <1>2, TreeFacts DEF IsSubtree, Places
  <2>. QED
    BY <2>1, <2>2, <2>3, <2>4 DEF FirstKids, Closed
<1>4. FirstKids(n, p + 1) = T \cup U /\ T \cup U \subseteq B
  <2>1. 1..(p + 1) = 1..p \cup {p + 1} /\ 1..(p + 1) \subseteq 1..Len(kids[n])
    BY <1>1
  <2>. QED
    BY <2>1 DEF FirstKids, BelowKids
\* What is below another child has no child in U.
<1>20. B \subseteq Nodes /\ \A y \in B \ U : Elements(kids[y]) \cap U = {}
  <2>1. ASSUME NEW y \in B PROVE y \in Nodes /\ (y \notin U => Elements(kids[y]) \cap U = {})
    <3>1. PICK q \in 1..Len(kids[n]) : y \in Subtree(kids, kids[n][q])
      BY <2>1 DEF BelowKids, FirstKids
    <3>2. kids[n][q] \in Elements(kids[n]) /\ kids[n][q] \in Places /\ kids[n][q] \in Nodes
      BY <1>1 DEF Elements, Places
    <3>3. y \in Nodes
      BY <1>1, <3>1, <3>2, TreeFacts
    <3>4. Elements(kids[y]) \subseteq Subtree(kids, kids[n][q])
      BY <1>1, <3>1, <3>2, ChildIn
    <3>5. CASE kids[n][q] = c
      BY <3>1, <3>3, <3>5
    <3>6. CASE kids[n][q] # c
      BY <1>1, <1>2, <3>2, <3>3, <3>4, <3>6, SiblingsDisjoint
    <3>. QED
      BY <3>5, <3>6
  <2>. QED
    BY <2>1
<1>. HIDE DEF c, T, U, B
<1>5. /\ a.ids = m.ids \cup Names(T) /\ a.errors = m.errors /\ a \in MainStates /\ Clean(a)
      /\ \A y \in T : a.kids[id[y]] = Renamed(id, kids[y]) /\ a.value[id[y]] = value[y]
      /\ Len(a.kids[t]) = p /\ \A q \in 1..p : a.kids[t][q] = id[kids[n][q]]
      /\ \A x \in m.ids \ Names(T) : (x # t => a.kids[x] = m.kids[x]) /\ a.value[x] = m.value[x]
  BY DEF Filled, Built, T
<1>6. /\ t \notin Names(T) /\ t \notin Names(U) /\ Names(T) \cap Names(U) = {}
      /\ Names(T) \subseteq Names(B) /\ Names(U) \subseteq Names(B)
  <2>1. /\ t \notin Names(T) /\ t \notin Names(U)
        /\ Names(T) \subseteq Names(B) /\ Names(U) \subseteq Names(B)
    BY <1>4 DEF Names, B
  <2>2. \A x \in T, y \in U : id[x] # id[y]
    <3>1. T \cap U = {} /\ T \subseteq Nodes /\ U \subseteq Nodes
      BY <1>3
    <3>. QED
      BY <3>1 DEF Background, OneToOne
  <2>3. Names(T) \cap Names(U) = {}
    BY <2>2 DEF Names
  <2>. QED
    BY <2>1, <2>3
<1>21. \A y \in Nodes, z \in U : id[y] = id[z] => y \in U
  BY <1>3 DEF Background, OneToOne
<1>22. \A y \in Nodes : Elements(kids[y]) \subseteq Nodes /\ Image(id, Elements(kids[y])) = Elements(Renamed(id, kids[y]))
  <2>1. ASSUME NEW y \in Nodes
        PROVE  Elements(kids[y]) \subseteq Nodes /\ Image(id, Elements(kids[y])) = Elements(Renamed(id, kids[y]))
    <3>1. kids[y] \in Seq(Nodes) /\ Maps(id, Nodes, MainIds) /\ Elements(kids[y]) \subseteq Nodes
      BY <1>1, TreeFacts DEF Tree, Places, Background, Maps
    <3>. QED
      BY <3>1, RenamedFacts DEF Image
  <2>. QED
    BY <2>1
<1>23. \A y \in B \ U : Image(id, Elements(kids[y])) \cap Names(U) = {}
  BY <1>20, <1>21, <1>22 DEF Image, Names
<1>24. ASSUME NEW x \in a.ids \ Names(U) PROVE Elements(a.kids[x]) \cap Names(U) = {}
  <2>1. CASE x = t
    <3>1. \A q \in 1..p : kids[n][q] \in Nodes /\ kids[n][q] \notin U
      <4>1. \A q \in 1..p : kids[n][q] \in T
        BY <1>1, <1>2, TreeFacts DEF T, FirstKids, Places
      <4>. QED
        BY <1>3, <4>1
    <3>2. a.kids[t] \in Seq(MainIds)
      BY <1>5, StateFacts
    <3>3. DOMAIN a.kids[t] = 1..p
      BY <1>5, <3>2
    <3>. QED
      BY <1>5, <1>21, <2>1, <3>1, <3>3 DEF Elements, Names
  <2>2. CASE x \in Names(T)
    <3>1. PICK y \in T : x = id[y]
      BY <2>2 DEF Names
    <3>2. a.kids[x] = Renamed(id, kids[y]) /\ y \in B \ U
      BY <1>3, <1>4, <1>5, <3>1
    <3>. QED
      BY <1>20, <1>22, <1>23, <3>2
  <2>3. CASE x # t /\ x \in m.ids \ Names(T)
    <3>1. a.kids[x] = m.kids[x]
      BY <1>5, <2>3
    <3>2. CASE x \notin Names(B)
      BY <1>6, <2>3, <3>1, <3>2 DEF CanBuild, B
    <3>3. CASE x \in Names(B)
      <4>1. PICK y \in B : x = id[y]
        BY <3>3 DEF Names
      <4>2. y \notin U
        BY <1>24, <4>1 DEF Names
      <4>3. Elements(m.kids[x]) \subseteq Image(id, Elements(kids[y]))
        BY <2>3, <4>1 DEF CanBuild, B
      <4>. QED
        BY <1>23, <3>1, <4>1, <4>2, <4>3
    <3>. QED
      BY <3>2, <3>3
  <2>. QED
    BY <1>5, <2>1, <2>2, <2>3
<1>25. \A y \in U : id[y] \in a.ids => Elements(a.kids[id[y]]) \subseteq Image(id, Elements(kids[y]))
  <2>1. \A y \in U : y \in B /\ id[y] \in Names(U) /\ id[y] # t /\ id[y] \notin Names(T)
    BY <1>4, <1>6 DEF Names
  <2>. QED
    BY <1>5, <2>1 DEF CanBuild, B
<1>7. CanBuild(a, U) /\ t \in a.ids
  BY <1>5, <1>24, <1>25 DEF CanBuild
<1>8. Appends(a, r, t, c)
  BY <1>3, <1>6, <1>7, AppendChild DEF c, U
<1>9. /\ r \in MainStates /\ Clean(r) /\ r.errors = a.errors /\ r.ids = a.ids \cup Names(U)
      /\ \A y \in U : r.kids[id[y]] = Renamed(id, kids[y]) /\ r.value[id[y]] = value[y]
      /\ r.kids[t] = Append(a.kids[t], id[c])
      /\ \A x \in a.ids \ Names(U) : (x # t => r.kids[x] = a.kids[x]) /\ r.value[x] = a.value[x]
  BY <1>8 DEF Appends, Built, U
<1>10. \A y \in T : id[y] \in a.ids \ Names(U) /\ id[y] # t
  <2>1. \A y \in T : id[y] \in Names(T) /\ id[y] \notin Names(U) /\ id[y] # t
    BY <1>6 DEF Names
  <2>. QED
    BY <1>5, <2>1
<1>11. Built(m, r, FirstKids(n, p + 1))
  <2>1. r.ids = m.ids \cup Names(T \cup U)
    BY <1>5, <1>9 DEF Names
  <2>2. \A y \in T \cup U : r.kids[id[y]] = Renamed(id, kids[y]) /\ r.value[id[y]] = value[y]
    BY <1>5, <1>9, <1>10
  <2>. QED
    BY <1>4, <1>5, <1>9, <2>1, <2>2 DEF Built
<1>12. Len(r.kids[t]) = p + 1 /\ \A q \in 1..(p + 1) : r.kids[t][q] = id[kids[n][q]]
  <2>1. t \in MainIds /\ a.kids[t] \in Seq(MainIds) /\ id[c] \in MainIds
    BY <1>3, <1>5, <1>7, StateFacts DEF Background
  <2>2. /\ Len(r.kids[t]) = p + 1 /\ r.kids[t][p + 1] = id[c]
        /\ \A q \in 1..p : r.kids[t][q] = a.kids[t][q]
    BY <1>5, <1>9, <2>1
  <2>3. \A q \in 1..(p + 1) : q \in 1..p \/ q = p + 1
    BY <1>1
  <2>. QED
    BY <1>5, <2>2, <2>3 DEF c
<1>13. \A x \in m.ids \ Names(FirstKids(n, p + 1)) :
         (x # t => r.kids[x] = m.kids[x]) /\ r.value[x] = m.value[x]
  <2>1. Names(FirstKids(n, p + 1)) = Names(T) \cup Names(U)
    BY <1>4 DEF Names
  <2>. QED
    BY <1>5, <1>9, <2>1
<1>. QED
  BY <1>11, <1>12, <1>13 DEF Filled

KidsBelow(t, n) ==
  [p \in DOMAIN kids[n] |-> ChildOps(t, reconstruct(kids[n][p]), kids[n][p])]

LEMMA KidsBelowType ==
  ASSUME Background, NEW n \in Places, NEW t \in MainIds
  PROVE  /\ KidsBelow(t, n) \in Seq(Seq(Ops)) /\ Len(KidsBelow(t, n)) = Len(kids[n])
         /\ \A p \in 1..Len(kids[n]) :
              KidsBelow(t, n)[p] = ChildOps(t, reconstruct(kids[n][p]), kids[n][p])
<1>1. kids[n] \in Seq(Nodes)
  BY DEF Background, Tree
<1>2. \A p \in 1..Len(kids[n]) : kids[n][p] \in Nodes
  BY <1>1
<1>3. \A p \in 1..Len(kids[n]) : ChildOps(t, reconstruct(kids[n][p]), kids[n][p]) \in Seq(Ops)
  BY <1>2, ChildOpsType, ReconstructType
<1>. QED
  BY <1>1, <1>3 DEF KidsBelow

LEMMA AppendChildren ==
  ASSUME Background, NEW n \in Nodes, \A c \in Elements(kids[n]) : Reconstructs(c),
         NEW m, CanBuild(m, BelowKids(n)), NEW t \in m.ids, t \notin Names(BelowKids(n)),
         m.kids[t] = <<>>, NEW r,
         r = snapshotPatchApply(m, FlattenSeq(KidsBelow(t, n)))
  PROVE  /\ Built(m, r, BelowKids(n)) /\ r.kids[t] = Renamed(id, kids[n])
         /\ \A x \in m.ids \ Names(BelowKids(n)) :
              (x # t => r.kids[x] = m.kids[x]) /\ r.value[x] = m.value[x]
<1>. DEFINE L == Len(kids[n])
            ss == KidsBelow(t, n)
<1>1. /\ n \in Places /\ kids[n] \in Seq(Nodes) /\ L \in Nat /\ DOMAIN kids[n] = 1..L
      /\ Tree(kids)
  <2>1. Tree(kids) /\ n \in Places
    BY DEF Background, Places
  <2>2. kids[n] \in Seq(Nodes)
    BY <2>1 DEF Tree
  <2>. QED
    BY <2>1, <2>2
<1>2. t \in MainIds /\ m \in MainStates
  BY StateFacts DEF CanBuild
<1>3. ss \in Seq(Seq(Ops)) /\ Len(ss) = L
      /\ \A p \in 1..L : ss[p] = ChildOps(t, reconstruct(kids[n][p]), kids[n][p])
  BY <1>1, <1>2, KidsBelowType
<1>4. PICK g : /\ g[0] = m
               /\ \A p \in 1..L : g[p] = snapshotPatchApply(g[p - 1], ss[p])
               /\ r = g[L]
  <2>. HIDE DEF ss, L
  <2>1. ss \in Seq(Seq(Ops))
    BY <1>3
  <2>2. PICK g : Replays(m, ss, g)
    BY <2>1, ApplyFlattened
  <2>3. g[0] = m /\ \A p \in 1..L : g[p] = snapshotPatchApply(g[p - 1], ss[p])
    BY <1>3, <2>2 DEF Replays
  <2>4. r = g[L]
    BY <1>3, <2>2 DEF Replays, ss
  <2>. QED
    BY <2>3, <2>4
<1>. HIDE DEF ss
<1>. DEFINE S == {p \in 0..L : Filled(m, g[p], t, n, p)}
<1>5. 0 \in S
  <2>1. FirstKids(n, 0) = {} /\ 0 \in 0..L
    BY <1>1 DEF FirstKids
  <2>2. Built(m, m, {})
    <3>1. Names({}) = {}
      BY DEF Names
    <3>. QED
      BY <3>1 DEF Built, CanBuild
  <2>3. Filled(m, m, t, n, 0)
    <3>1. Built(m, m, FirstKids(n, 0))
      BY <2>1, <2>2
    <3>2. Len(m.kids[t]) = 0 /\ \A q \in 1..0 : m.kids[t][q] = id[kids[n][q]]
      OBVIOUS
    <3>. QED
      BY <3>1, <3>2 DEF Filled
  <2>. QED
    BY <1>4, <2>1, <2>3
<1>6. ASSUME NEW p \in 0..L, p + 1 <= L, p \in S PROVE p + 1 \in S
  <2>1. p + 1 \in 1..L /\ p + 1 \in 0..L /\ (p + 1) - 1 = p
    BY <1>1, <1>6
  <2>2. kids[n][p + 1] \in Elements(kids[n])
    BY <1>1, <2>1 DEF Elements
  <2>3. g[p + 1] = snapshotPatchApply(g[p], ChildOps(t, reconstruct(kids[n][p + 1]), kids[n][p + 1]))
    BY <1>3, <1>4, <2>1
  <2>4. Filled(m, g[p + 1], t, n, p + 1)
    BY <1>6, <2>2, <2>3, FillStep
  <2>. QED
    BY <2>1, <2>4
<1>7. L \in S
  <2>. HIDE DEF S, L
  <2>1. L \in 0..L
    BY <1>1
  <2>. QED
    BY <1>1, <1>5, <1>6, <2>1, UpTo
<1>8. Filled(m, r, t, n, L)
  BY <1>4, <1>7
<1>9. r.kids[t] = Renamed(id, kids[n])
  <2>1. r.kids[t] \in Seq(MainIds) /\ Len(r.kids[t]) = L
        /\ \A q \in 1..L : r.kids[t][q] = id[kids[n][q]]
    BY <1>2, <1>8, StateFacts DEF Filled, Built
  <2>2. r.kids[t] = [q \in 1..L |-> r.kids[t][q]]
    BY <2>1
  <2>. HIDE DEF L
  <2>. QED
    BY <1>1, <2>1, <2>2 DEF Renamed
<1>. QED
  BY <1>8, <1>9 DEF Filled, BelowKids

\* An instance without its children.
LEMMA ApplyElement ==
  ASSUME Background, NEW n \in Nodes, NEW m \in MainStates, Clean(m), NEW r,
         r = snapshotPatchApply(m, ElementOps(n))
  PROVE  /\ r \in MainStates /\ Clean(r) /\ r.errors = m.errors /\ r.ids = m.ids \cup {id[n]}
         /\ r.kids[id[n]] = <<>> /\ r.value[id[n]] = value[n]
         /\ \A x \in m.ids \ {id[n]} : r.kids[x] = m.kids[x] /\ r.value[x] = m.value[x]
<1>. DEFINE c == id[n]
            v == value[n]
            a == ApplyOp(m, CreateElement(c))
<1>1. c \in MainIds /\ v \in Int
  BY DEF Background
<1>. HIDE DEF c, v
<1>2. /\ a \in MainStates /\ a.ids = m.ids \cup {c} /\ a.errors = m.errors
      /\ a.kids = [m.kids EXCEPT ![c] = <<>>] /\ a.value = [m.value EXCEPT ![c] = Unset]
  BY <1>1, ApplyCreate
<1>. HIDE DEF a
<1>3. m.kids \in [MainIds -> Seq(MainIds)] /\ m.value \in [MainIds -> Int] /\ m.ids \subseteq MainIds
  BY StateFacts
<1>4. /\ a.kids[c] = <<>> /\ a.value[c] = Unset
      /\ \A x \in m.ids \ {c} : a.kids[x] = m.kids[x] /\ a.value[x] = m.value[x]
  BY <1>1, <1>2, <1>3 DEF c
<1>5. /\ r \in MainStates /\ r.errors = m.errors /\ r.ids = m.ids \cup {c}
      /\ r.kids = a.kids /\ r.value[c] = v
      /\ \A x \in m.ids \ {c} : r.value[x] = m.value[x]
  <2>1. CASE v = Unset
    <3>1. ElementOps(n) = <<CreateElement(c)>> \o <<>>
      BY <2>1 DEF ElementOps, c, v
    <3>2. ElementOps(n) = <<CreateElement(c)>>
      BY <3>1
    <3>3. r = a
      BY <3>2, ApplyOne DEF a
    <3>. QED
      BY <1>2, <1>4, <2>1, <3>3
  <2>2. CASE v # Unset
    <3>. DEFINE s == <<CreateElement(c)>>
                u == <<SetAttribute(c, v)>>
    <3>1. ElementOps(n) = s \o u
      BY <2>2 DEF ElementOps, c, v
    <3>2. s \in Seq(Ops) /\ u \in Seq(Ops)
      <4>1. CreateElement(c) \in Ops /\ SetAttribute(c, v) \in Ops
        BY <1>1, OpFacts
      <4>. QED
        BY <4>1
    <3>3. snapshotPatchApply(m, s) = a /\ snapshotPatchApply(a, u) = ApplyOp(a, SetAttribute(c, v))
      BY ApplyOne DEF a
    <3>. HIDE DEF s, u
    <3>4. r = ApplyOp(a, SetAttribute(c, v))
      BY <3>1, <3>2, <3>3, ApplyConcat
    <3>5. /\ r \in MainStates /\ r.ids = a.ids /\ r.errors = a.errors
          /\ r.kids = a.kids /\ r.value = [a.value EXCEPT ![c] = v]
      BY <1>1, <1>2, <3>4, ApplySet
    <3>6. a.value \in [MainIds -> Int]
      BY <1>2, StateFacts
    <3>7. r.value[c] = v /\ \A x \in m.ids \ {c} : r.value[x] = m.value[x]
      BY <1>1, <1>3, <1>4, <3>5, <3>6
    <3>. QED
      BY <1>2, <3>5, <3>7
  <2>. QED
    BY <2>1, <2>2
<1>6. Clean(r)
  <2>1. Elements(<<>>) = {}
    BY DEF Elements
  <2>2. ASSUME NEW x \in m.ids \ {c} PROVE Elements(r.kids[x]) \subseteq r.ids
    BY <1>4, <1>5 DEF Clean
  <2>3. Elements(r.kids[c]) \subseteq r.ids
    BY <1>4, <1>5, <2>1
  <2>. QED
    BY <1>5, <2>2, <2>3 DEF Clean
<1>. QED
  BY <1>4, <1>5, <1>6 DEF c, v

\* A subtree is its top and what is below its children.
LEMMA BelowFacts ==
  ASSUME Tree(kids), NEW n \in Places
  PROVE  /\ Subtree(kids, n) = {n} \cup BelowKids(n) /\ n \notin BelowKids(n)
         /\ Subtree(kids, n) \subseteq Places
<1>. DEFINE T == Subtree(kids, n)
            B == BelowKids(n)
<1>1. /\ IsSubtree(kids, n, T) /\ n \in T /\ T \subseteq Places /\ DOMAIN kids = Places
      /\ Elements(kids[n]) \subseteq Nodes
  <2>1. IsSubtree(kids, n, T) /\ DOMAIN kids = Places /\ Elements(kids[n]) \subseteq Nodes
    BY TreeFacts
  <2>. HIDE DEF T
  <2>. QED
    BY <2>1 DEF IsSubtree, Closed
<1>2. B = UNION {Subtree(kids, c) : c \in Elements(kids[n])}
  <2>1. DOMAIN kids[n] = 1..Len(kids[n])
    <3>1. kids[n] \in Seq(Nodes)
      BY DEF Tree
    <3>. QED
      BY <3>1
  <2>. QED
    BY <2>1 DEF BelowKids, FirstKids, Elements
<1>3. \A c \in Elements(kids[n]) :
        IsSubtree(kids, c, Subtree(kids, c)) /\ n \notin Subtree(kids, c) /\ c \in T
  BY <1>1, SiblingsDisjoint, TreeFacts DEF Places, IsSubtree, Closed
<1>4. B \subseteq T
  <2>1. \A c \in Elements(kids[n]) : Subtree(kids, c) \subseteq T
    BY <1>1, <1>3, SubtreeWithin
  <2>. QED
    BY <1>2, <2>1
<1>5. T \subseteq {n} \cup B
  <2>. DEFINE U == {n} \cup B
  <2>1. U \subseteq DOMAIN kids
    BY <1>1, <1>4 DEF Places
  <2>2. ASSUME NEW x \in U, NEW y \in Elements(kids[x]) PROVE y \in U
    <3>1. CASE x = n
      BY <1>2, <1>3, <3>1 DEF IsSubtree
    <3>2. CASE x # n
      BY <1>2, <1>3, <3>2 DEF IsSubtree, Closed
    <3>. QED
      BY <3>1, <3>2
  <2>3. Closed(kids, U)
    BY <2>1, <2>2 DEF Closed
  <2>. HIDE DEF T, B
  <2>. QED
    BY <1>1, <2>1, <2>3 DEF IsSubtree
<1>. QED
  BY <1>1, <1>2, <1>3, <1>4, <1>5

\* reconstructInstanceTree builds the whole subtree, also over what is left of it, and
\* touches nothing else.
LEMMA ReconstructBuilds ==
  ASSUME Background
  PROVE  \A n \in Nodes : Reconstructs(n)
<1>. DEFINE S == {n \in Nodes : ~ Reconstructs(n)}
<1>1. SUFFICES ASSUME S # {} PROVE FALSE
  OBVIOUS
<1>2. S \in SUBSET Places /\ Tree(kids)
  BY DEF Places, Background
<1>3. PICK n \in S : Elements(kids[n]) \cap S = {}
  BY <1>1, <1>2 DEF Tree, Acyclic
<1>4. n \in Nodes /\ n \in Places /\ Elements(kids[n]) \subseteq Nodes
  BY <1>2, <1>3, TreeFacts
<1>5. \A c \in Elements(kids[n]) : Reconstructs(c)
  BY <1>3, <1>4
<1>. DEFINE T == Subtree(kids, n)
            B == BelowKids(n)
<1>6. T = {n} \cup B /\ n \notin B /\ T \subseteq Nodes
  BY <1>2, <1>4, BelowFacts, TreeFacts
<1>. HIDE DEF T, B
<1>7. ASSUME NEW m, CanBuild(m, T)
      PROVE  Builds(m, snapshotPatchApply(m, reconstruct(n)), T)
  <2>. DEFINE a == snapshotPatchApply(m, ElementOps(n))
              r == snapshotPatchApply(m, reconstruct(n))
              t == id[n]
  <2>1. /\ m \in MainStates /\ Clean(m) /\ Names(T) = {t} \cup Names(B)
        /\ \A x \in m.ids \ Names(T) : Elements(m.kids[x]) \cap Names(T) = {}
        /\ \A y \in T : id[y] \in m.ids =>
             Elements(m.kids[id[y]]) \subseteq Image(id, Elements(kids[y]))
    BY <1>6, <1>7 DEF CanBuild, Names
  <2>. HIDE DEF a
  <2>2. /\ a \in MainStates /\ Clean(a) /\ a.errors = m.errors /\ a.ids = m.ids \cup {t}
        /\ a.kids[t] = <<>> /\ a.value[t] = value[n]
        /\ \A x \in m.ids \ {t} : a.kids[x] = m.kids[x] /\ a.value[x] = m.value[x]
    BY <1>4, <2>1, ApplyElement DEF a
  <2>3. r = snapshotPatchApply(a, FlattenSeq(KidsBelow(t, n)))
    <3>1. KidsBelow(t, n) = KidOps(n)
      BY DEF KidsBelow, KidOps
    <3>2. reconstruct(n) = ElementOps(n) \o FlattenSeq(KidOps(n))
      BY <1>2, <1>4, ReconstructUnfolds
    <3>3. ElementOps(n) \in Seq(Ops) /\ KidOps(n) \in Seq(Seq(Ops))
      BY <1>4, ElementOpsType, ReconstructType
    <3>4. FlattenSeq(KidOps(n)) \in Seq(Ops)
      <4>1. PICK f : Flattening(KidOps(n), f)
        BY <3>3, FlatteningThere
      <4>. QED
        BY <3>3, <4>1, FlattenIs
    <3>. DEFINE u == ElementOps(n)
                v == FlattenSeq(KidOps(n))
    <3>5. r = snapshotPatchApply(m, u \o v) /\ a = snapshotPatchApply(m, u)
      BY <3>2 DEF a
    <3>6. u \in Seq(Ops) /\ v \in Seq(Ops)
      BY <3>3, <3>4
    <3>. HIDE DEF u, v, r
    <3>7. r = snapshotPatchApply(a, v)
      BY <3>5, <3>6, ApplyConcat
    <3>. QED
      BY <3>1, <3>7 DEF v
  <2>. HIDE DEF r, t
  <2>4. t \notin Names(B) /\ \A y \in B : id[y] # t /\ y \in T
    BY <1>6 DEF Background, OneToOne, Names, t
  <2>5. CanBuild(a, B) /\ t \in a.ids
    <3>1. \A x \in a.ids \ Names(B) : Elements(a.kids[x]) \cap Names(B) = {}
      <4>1. Elements(<<>>) = {}
        BY DEF Elements
      <4>. QED
        BY <2>1, <2>2, <4>1
    <3>2. \A y \in B : id[y] \in a.ids => Elements(a.kids[id[y]]) \subseteq Image(id, Elements(kids[y]))
      BY <2>1, <2>2, <2>4
    <3>. QED
      BY <2>2, <3>1, <3>2 DEF CanBuild
  <2>6. /\ Built(a, r, B) /\ r.kids[t] = Renamed(id, kids[n])
        /\ \A x \in a.ids \ Names(B) : (x # t => r.kids[x] = a.kids[x]) /\ r.value[x] = a.value[x]
    BY <1>4, <1>5, <2>2, <2>3, <2>4, <2>5, AppendChildren DEF B
  <2>7. r.ids = m.ids \cup Names(T)
    BY <1>6, <2>2, <2>6 DEF Built, Names, t
  <2>8. \A y \in T : r.kids[id[y]] = Renamed(id, kids[y]) /\ r.value[id[y]] = value[y]
    BY <1>6, <2>2, <2>4, <2>5, <2>6 DEF Built, t
  <2>9. \A x \in m.ids \ Names(T) : r.kids[x] = m.kids[x] /\ r.value[x] = m.value[x]
    BY <2>1, <2>2, <2>6
  <2>10. Builds(m, r, T)
    BY <2>2, <2>6, <2>7, <2>8, <2>9 DEF Builds, Built
  <2>. QED
    BY <2>10 DEF r
<1>8. Reconstructs(n)
  BY <1>7 DEF Reconstructs, T
<1>. QED
  BY <1>3, <1>8

-----------------------------------------------------------------------------
(* The main thread shows a tree of the background thread *)

\* The names of the places on the main thread, and their values.
Naming(i) == [y \in Places \cup {None} |-> IF y \in {Root, None} THEN y ELSE i[y]]
Worth(v) == [y \in Places |-> IF y = Root THEN Unset ELSE v[y]]

Renaming(f) ==
  /\ Maps(f, Places, MainIds) /\ OneToOne(f, Places \cup {None})
  /\ f[Root] = Root /\ f[None] = None

\* The places of D are the instances of m, under their names.
Shows(m, f, k, w, D) ==
  /\ m \in MainStates /\ m.ids = Image(f, D)
  /\ \A y \in D : m.kids[f[y]] = Renamed(f, k[y]) /\ m.value[f[y]] = w[y]

\* The tree below the root, under these names.
TreeOf(f, k, w) ==
  {[id |-> f[y], value |-> w[y], kids |-> Renamed(f, k[y])] : y \in Subtree(k, Root)}

LEMMA NamingFacts ==
  ASSUME NEW i \in [Nodes -> MainIds \ {Root}], OneToOne(i, Nodes)
  PROVE  /\ Renaming(Naming(i)) /\ Maps(i, Nodes, MainIds)
         /\ \A n \in Nodes : Naming(i)[n] = i[n]
         /\ \A q \in Seq(Nodes) : Renamed(Naming(i), q) = Renamed(i, q)
<1>. DEFINE f == Naming(i)
<1>1. f[Root] = Root /\ f[None] = None /\ \A n \in Nodes : f[n] = i[n]
  BY NodeFacts DEF Naming, Places
<1>2. \A n \in Nodes : i[n] \in MainIds /\ i[n] # Root /\ i[n] # None
  BY IdFacts
<1>. HIDE DEF f
<1>3. Maps(f, Places, MainIds) /\ Maps(i, Nodes, MainIds)
  BY <1>1, <1>2, IdFacts DEF Maps, Places
<1>4. OneToOne(f, Places \cup {None})
  BY <1>1, <1>2, NodeFacts, IdFacts DEF OneToOne, Places
<1>5. ASSUME NEW q \in Seq(Nodes) PROVE Renamed(f, q) = Renamed(i, q)
  <2>1. \A p \in DOMAIN q : f[q[p]] = i[q[p]]
    BY <1>1
  <2>. QED
    BY <2>1 DEF Renamed
<1>. QED
  BY <1>1, <1>3, <1>4, <1>5 DEF f, Renaming

\* The children on the main thread are those on the background thread.
LEMMA ShownKids ==
  ASSUME NEW f, Renaming(f), NEW k, Tree(k), NEW D, D \subseteq Places, Closed(k, D),
         NEW m, NEW w, Shows(m, f, k, w, D)
  PROVE  /\ \A y \in D : /\ f[y] \in MainIds /\ f[y] \in m.ids
                         /\ Elements(m.kids[f[y]]) = Image(f, Elements(k[y]))
         /\ Clean(m)
<1>1. ASSUME NEW y \in D
      PROVE  /\ f[y] \in MainIds /\ f[y] \in m.ids
             /\ Elements(m.kids[f[y]]) = Image(f, Elements(k[y]))
  <2>1. k[y] \in Seq(Nodes) /\ Maps(f, Nodes, MainIds)
    BY DEF Tree, Renaming, Maps, Places
  <2>2. m.kids[f[y]] = Renamed(f, k[y]) /\ f[y] \in m.ids /\ f[y] \in MainIds
    BY DEF Shows, Renaming, Maps, Image
  <2>3. Elements(Renamed(f, k[y])) = Image(f, Elements(k[y]))
    BY <2>1, RenamedFacts DEF Image
  <2>. QED
    BY <2>2, <2>3
<1>2. ASSUME NEW x \in m.ids PROVE Elements(m.kids[x]) \subseteq m.ids
  <2>1. PICK y \in D : x = f[y]
    BY DEF Shows, Image
  <2>2. Elements(m.kids[x]) = Image(f, Elements(k[y])) /\ Elements(k[y]) \subseteq D
    BY <1>1, <2>1 DEF Closed
  <2>. QED
    BY <2>2 DEF Shows, Image
<1>. QED
  BY <1>1, <1>2 DEF Clean

\* So the subtrees correspond.
LEMMA ShownSubtree ==
  ASSUME NEW f, Renaming(f), NEW k, Tree(k), NEW D, D \subseteq Places, Closed(k, D),
         NEW m, NEW w, Shows(m, f, k, w, D), NEW a \in D
  PROVE  Subtree(m.kids, f[a]) = Image(f, Subtree(k, a))
<1>. DEFINE T == Subtree(k, a)
            l == m.kids
<1>1. IsSubtree(k, a, T) /\ DOMAIN k = Places
  BY TreeFacts
<1>2. T \subseteq D /\ \A x \in D : Elements(k[x]) \subseteq D
  BY <1>1 DEF IsSubtree, Closed
<1>3. /\ \A y \in D : /\ f[y] \in MainIds /\ f[y] \in m.ids
                      /\ Elements(l[f[y]]) = Image(f, Elements(k[y]))
      /\ Clean(m)
  BY ShownKids
<1>4. l \in [MainIds -> Seq(MainIds)] /\ m.ids = Image(f, D) /\ m.ids \subseteq MainIds
  BY StateFacts DEF Shows
<1>5. OneToOne(f, D) /\ OneToOne(f, T)
  BY <1>2 DEF Renaming, OneToOne
<1>6. Acyclic(k, D)
  BY DEF Tree, Acyclic
<1>. HIDE DEF T, l
<1>7. Closed(l, DOMAIN l)
  <2>1. \A x \in MainIds : Elements(l[x]) \subseteq MainIds
    BY <1>4, ElementFacts
  <2>. QED
    BY <1>4, <2>1 DEF Closed
<1>8. Closed(l, m.ids)
  BY <1>3, <1>4 DEF Closed, Clean, l
<1>9. Acyclic(l, m.ids)
  <2>1. Corresponds(k, D, f, l)
    BY <1>3 DEF Corresponds
  <2>. QED
    BY <1>4, <1>5, <1>6, <2>1, AcyclicRenamed
<1>10. IsSubtree(l, f[a], Subtree(l, f[a]))
  BY <1>3, <1>7, <1>8, <1>9, SubtreeIs
<1>11. IsSubtree(l, f[a], Image(f, T))
  <2>1. Maps(f, T, MainIds) /\ DOMAIN l = MainIds
    BY <1>2, <1>3, <1>4 DEF Maps
  <2>2. Corresponds(k, T, f, l)
    BY <1>2, <1>3 DEF Corresponds
  <2>. QED
    BY <1>1, <1>5, <2>1, <2>2, SubtreeRenamed
<1>. QED
  BY <1>10, <1>11, OneSubtree DEF T, l

LEMMA ShownTree ==
  ASSUME NEW f, Renaming(f), NEW k, Tree(k), NEW D, D \subseteq Places, Closed(k, D), Root \in D,
         NEW m, NEW w, Shows(m, f, k, w, D)
  PROVE  MainTree(m) = TreeOf(f, k, w)
<1>1. Subtree(m.kids, Root) = Image(f, Subtree(k, Root))
  <2>1. Subtree(m.kids, f[Root]) = Image(f, Subtree(k, Root))
    BY ShownSubtree
  <2>. QED
    BY <2>1 DEF Renaming
<1>2. Subtree(k, Root) \subseteq D
  <2>1. IsSubtree(k, Root, Subtree(k, Root)) /\ DOMAIN k = Places
    BY TreeFacts DEF Places
  <2>. QED
    BY <2>1 DEF IsSubtree
<1>3. \A y \in Subtree(k, Root) : m.kids[f[y]] = Renamed(f, k[y]) /\ m.value[f[y]] = w[y]
  BY <1>2 DEF Shows
<1>4. MainTree(m) = {[id |-> f[y], value |-> m.value[f[y]], kids |-> m.kids[f[y]]]
                     : y \in Subtree(k, Root)}
  BY <1>1 DEF MainTree, Image
<1>. QED
  BY <1>3, <1>4 DEF TreeOf

\* What the operations of a patch make of a main thread that shows the tree.
LEMMA NameFacts ==
  ASSUME NEW f, Renaming(f), NEW D, D \subseteq Places
  PROVE  /\ \A x \in D : f[x] \in MainIds /\ f[x] \in Image(f, D)
         /\ \A x \in D, y \in Places : f[x] = f[y] => x = y
         /\ \A y \in Places : f[y] \in Image(f, D) => y \in D
         /\ Image(f, D) \subseteq MainIds
BY DEF Renaming, Maps, OneToOne, Image

\* In m, that has the places of D, the new n is created: m becomes a.
CreatesIn(f, k, D, m, w, n, a) ==
  /\ Renaming(f) /\ D \subseteq Places /\ Shows(m, f, k, w, D)
  /\ n \in Places /\ n \notin D /\ k[n] = <<>> /\ w[n] = Unset
  /\ a = ApplyOp(m, CreateElement(f[n]))

LEMMA ShowsCreate ==
  ASSUME NEW f, NEW k, NEW D, NEW m, NEW w, NEW n, NEW a, CreatesIn(f, k, D, m, w, n, a)
  PROVE  Shows(a, f, k, w, D \cup {n}) /\ a.errors = m.errors
<1>. USE DEF CreatesIn
<1>. DEFINE c == f[n]
            r == ApplyOp(m, CreateElement(c))
<1>1. c \in MainIds /\ m \in MainStates /\ m.ids = Image(f, D)
  BY DEF Shows, Renaming, Maps
<1>2. \A x \in D : f[x] \in MainIds /\ f[x] # c
  BY NameFacts
<1>3. m.kids \in [MainIds -> Seq(MainIds)] /\ m.value \in [MainIds -> Int]
  BY <1>1, StateFacts
<1>. HIDE DEF c
<1>4. /\ r \in MainStates /\ r.ids = m.ids \cup {c} /\ r.errors = m.errors
      /\ r.kids = [m.kids EXCEPT ![c] = <<>>] /\ r.value = [m.value EXCEPT ![c] = Unset]
  BY <1>1, ApplyCreate
<1>. HIDE DEF r
<1>5. r.ids = Image(f, D \cup {n})
  BY <1>1, <1>4 DEF Image, c
<1>6. r.kids[c] = Renamed(f, k[n]) /\ r.value[c] = w[n]
  <2>1. Renamed(f, <<>>) = <<>>
    BY DEF Renamed
  <2>. QED
    BY <1>1, <1>3, <1>4, <2>1
<1>7. \A y \in D : r.kids[f[y]] = Renamed(f, k[y]) /\ r.value[f[y]] = w[y]
  <2>1. \A y \in D : r.kids[f[y]] = m.kids[f[y]] /\ r.value[f[y]] = m.value[f[y]]
    BY <1>1, <1>2, <1>3, <1>4
  <2>. QED
    BY <2>1 DEF Shows
<1>. QED
  BY <1>1, <1>4, <1>5, <1>6, <1>7 DEF Shows, c, r

LEMMA ShowsSet ==
  ASSUME NEW f, Renaming(f), NEW k, NEW D, D \subseteq Places,
         NEW m, NEW w, Shows(m, f, k, w, D), NEW n \in D, NEW v \in Int, NEW u,
         u[n] = v, \A y \in D : y # n => u[y] = w[y]
  PROVE  /\ Shows(ApplyOp(m, SetAttribute(f[n], v)), f, k, u, D)
         /\ ApplyOp(m, SetAttribute(f[n], v)).errors = m.errors
<1>. DEFINE c == f[n]
            r == ApplyOp(m, SetAttribute(c, v))
<1>1. c \in MainIds /\ m \in MainStates /\ m.ids = Image(f, D) /\ c \in m.ids
  BY NameFacts DEF Shows
<1>2. \A x \in D : f[x] \in MainIds /\ (f[x] = c => x = n)
  BY NameFacts
<1>3. m.value \in [MainIds -> Int]
  BY <1>1, StateFacts
<1>. HIDE DEF c
<1>4. /\ r \in MainStates /\ r.ids = m.ids /\ r.errors = m.errors
      /\ r.kids = m.kids /\ r.value = [m.value EXCEPT ![c] = v]
  BY <1>1, ApplySet
<1>. HIDE DEF r
<1>5. \A y \in D : r.kids[f[y]] = Renamed(f, k[y]) /\ r.value[f[y]] = u[y]
  <2>1. \A y \in D : y # n => r.value[f[y]] = w[y]
    BY <1>2, <1>3, <1>4 DEF Shows
  <2>2. r.value[c] = v
    BY <1>1, <1>3, <1>4
  <2>. QED
    BY <1>4, <2>1, <2>2 DEF Shows, c
<1>. QED
  BY <1>1, <1>4, <1>5 DEF Shows, c, r

LEMMA ShowsPlace ==
  ASSUME NEW f, Renaming(f), NEW k, Tree(k), NEW D, D \subseteq Places, Closed(k, D),
         NEW m, NEW w, Shows(m, f, k, w, D),
         NEW p \in D, NEW n \in Nodes, n \in D, NEW b \in Nodes \cup {None},
         \A x \in Places : n \in Elements(k[x]) => x = p
  PROVE  /\ Shows(ApplyOp(m, InsertBefore(f[p], f[n], f[b])),
                  f, [k EXCEPT ![p] = Placed(k[p], n, b)], w, D)
         /\ ApplyOp(m, InsertBefore(f[p], f[n], f[b])).errors = m.errors
<1>. DEFINE t == f[p]
            c == f[n]
            r == ApplyOp(m, InsertBefore(t, c, f[b]))
            l == [k EXCEPT ![p] = Placed(k[p], n, b)]
            A == Nodes \cup {None}
<1>1. /\ m \in MainStates /\ m.ids = Image(f, D) /\ t \in m.ids /\ c \in m.ids
      /\ t \in MainIds
  BY NameFacts DEF Shows
<1>2. \A x \in D : f[x] \in MainIds /\ f[x] \in m.ids /\ (f[x] = t => x = p)
  BY <1>1, NameFacts
<1>3. m.kids \in [MainIds -> Seq(MainIds)]
  BY <1>1, StateFacts
<1>4. /\ \A x \in Places : k[x] \in Seq(Nodes) /\ Distinct(k[x])
      /\ DOMAIN k = Places
  BY DEF Tree
<1>5. \A q \in m.ids : c \in Elements(m.kids[q]) => q = t
  <2>1. SUFFICES ASSUME NEW q \in m.ids, c \in Elements(m.kids[q]) PROVE q = t
    OBVIOUS
  <2>2. PICK x \in D : q = f[x]
    BY <1>1 DEF Image
  <2>3. Elements(m.kids[f[x]]) = Image(f, Elements(k[x])) /\ Elements(k[x]) \subseteq Places
    BY ShownKids DEF Closed
  <2>4. PICK y \in Elements(k[x]) : c = f[y]
    BY <2>1, <2>2, <2>3 DEF Image
  <2>5. y = n
    BY <2>3, <2>4, NameFacts
  <2>. QED
    BY <2>2, <2>4, <2>5
<1>6. Renamed(f, Placed(k[p], n, b)) = Placed(Renamed(f, k[p]), c, f[b])
  <2>1. Maps(f, A, MainIds \cup {None}) /\ OneToOne(f, A)
    BY DEF Renaming, Maps, OneToOne, Places
  <2>2. k[p] \in Seq(A) /\ Distinct(k[p])
    <3>1. k[p] \in Seq(Nodes)
      BY <1>4
    <3>2. \A s \in Seq(Nodes) : s \in Seq(A)
      OBVIOUS
    <3>. QED
      BY <1>4, <3>1, <3>2
  <2>3. n \in A /\ b \in A
    OBVIOUS
  <2>. HIDE DEF A
  <2>. QED
    BY <2>1, <2>2, <2>3, RenamedPlaced
<1>7. /\ r \in MainStates /\ r.ids = m.ids /\ r.errors = m.errors /\ r.value = m.value
      /\ r.kids = [m.kids EXCEPT ![t] = Placed(m.kids[t], c, f[b])]
  <2>. HIDE DEF t, c
  <2>. QED
    BY <1>1, <1>5, ApplyInsert
<1>. HIDE DEF r, t, c
<1>8. ASSUME NEW y \in D PROVE r.kids[f[y]] = Renamed(f, l[y])
  <2>1. CASE y = p
    <3>1. l[p] = Placed(k[p], n, b) /\ m.kids[t] = Renamed(f, k[p])
      BY <1>4 DEF Shows, t
    <3>2. r.kids[t] = Placed(Renamed(f, k[p]), c, f[b])
      BY <1>1, <1>3, <1>7, <3>1
    <3>. QED
      BY <1>6, <2>1, <3>1, <3>2 DEF t
  <2>2. CASE y # p
    <3>1. l[y] = k[y] /\ m.kids[f[y]] = Renamed(f, k[y])
      BY <1>4, <2>2 DEF Shows
    <3>2. r.kids[f[y]] = m.kids[f[y]]
      BY <1>2, <1>3, <1>7, <2>2
    <3>. QED
      BY <3>1, <3>2
  <2>. QED
    BY <2>1, <2>2
<1>. QED
  BY <1>1, <1>7, <1>8 DEF Shows, r, t, c

\* In m, that has the places of D, the child n of p is removed: k becomes g and m becomes a.
RemovesFrom(f, k, D, m, w, p, n, g, a) ==
  /\ Renaming(f) /\ Tree(k) /\ D \subseteq Places /\ Closed(k, D) /\ Shows(m, f, k, w, D)
  /\ p \in D /\ n \in Elements(k[p]) /\ g = [k EXCEPT ![p] = Without(k[p], n)]
  /\ a = ApplyOp(m, RemoveChild(f[p], f[n]))

LEMMA ShowsRemove ==
  ASSUME NEW f, NEW k, NEW D, NEW m, NEW w, NEW p, NEW n, NEW g, NEW a,
         RemovesFrom(f, k, D, m, w, p, n, g, a)
  PROVE  Shows(a, f, g, w, D \ Subtree(k, n)) /\ a.errors = m.errors
<1>. USE DEF RemovesFrom
<1>. DEFINE t == f[p]
            c == f[n]
            r == ApplyOp(m, RemoveChild(t, c))
            l == [k EXCEPT ![p] = Without(k[p], n)]
<1>1. /\ m \in MainStates /\ m.ids = Image(f, D) /\ t \in m.ids
      /\ t \in MainIds
  BY NameFacts DEF Shows
<1>2. \A x \in D : f[x] \in MainIds /\ f[x] \in m.ids /\ (f[x] = t => x = p)
  BY <1>1, NameFacts
<1>3. m.kids \in [MainIds -> Seq(MainIds)]
  BY <1>1, StateFacts
<1>4. /\ \A x \in Places : k[x] \in Seq(Nodes) /\ Distinct(k[x])
      /\ DOMAIN k = Places
  BY DEF Tree
<1>5. n \in D /\ n \in Nodes /\ c \in m.ids
  <2>1. n \in Nodes
    BY <1>4, ElementFacts
  <2>2. n \in D
    BY DEF Closed
  <2>. QED
    BY <1>2, <2>1, <2>2
<1>6. c \in Elements(m.kids[t])
  BY ShownKids DEF Image
<1>7. Subtree(m.kids, c) = Image(f, Subtree(k, n))
  BY <1>5, ShownSubtree
<1>8. Subtree(k, n) \subseteq Places
  <2>1. IsSubtree(k, n, Subtree(k, n)) /\ DOMAIN k = Places
    BY <1>5, TreeFacts DEF Places
  <2>. QED
    BY <2>1 DEF IsSubtree, Closed
<1>9. Renamed(f, Without(k[p], n)) = Without(Renamed(f, k[p]), c)
  <2>1. Maps(f, Nodes, MainIds) /\ OneToOne(f, Nodes)
    BY DEF Renaming, Maps, OneToOne, Places
  <2>2. k[p] \in Seq(Nodes) /\ Distinct(k[p])
    BY <1>4
  <2>. QED
    BY <1>5, <2>1, <2>2, RenamedWithout
<1>10. /\ r \in MainStates /\ r.ids = m.ids \ Subtree(m.kids, c) /\ r.errors = m.errors
       /\ r.value = m.value /\ r.kids = [m.kids EXCEPT ![t] = Without(m.kids[t], c)]
  <2>. HIDE DEF t, c
  <2>. QED
    BY <1>1, <1>5, <1>6, ApplyRemove
<1>. HIDE DEF r, t, c
<1>11. r.ids = Image(f, D \ Subtree(k, n))
  <2>1. \A x \in D, y \in Subtree(k, n) : f[x] = f[y] => x = y
    BY <1>8, NameFacts
  <2>. QED
    BY <1>1, <1>7, <1>10, <2>1 DEF Image
<1>12. ASSUME NEW y \in D PROVE r.kids[f[y]] = Renamed(f, l[y])
  <2>1. CASE y = p
    <3>1. l[p] = Without(k[p], n) /\ m.kids[t] = Renamed(f, k[p])
      BY <1>4 DEF Shows, t
    <3>2. r.kids[t] = Without(Renamed(f, k[p]), c)
      BY <1>1, <1>3, <1>10, <3>1
    <3>. QED
      BY <1>9, <2>1, <3>1, <3>2 DEF t
  <2>2. CASE y # p
    <3>1. l[y] = k[y] /\ m.kids[f[y]] = Renamed(f, k[y])
      BY <1>4, <2>2 DEF Shows
    <3>2. r.kids[f[y]] = m.kids[f[y]]
      BY <1>2, <1>3, <1>10, <2>2
    <3>. QED
      BY <3>1, <3>2
  <2>. QED
    BY <2>1, <2>2
<1>13. \A y \in D : r.value[f[y]] = w[y]
  BY <1>10 DEF Shows
<1>. QED
  BY <1>1, <1>10, <1>11, <1>12, <1>13 DEF Shows, r, t, c

\* What is built anew is shown, with what was left of it.
LEMMA ShowsRebuild ==
  ASSUME Background, NEW D, D \subseteq Places, Closed(kids, D),
         NEW m, Shows(m, Naming(id), kids, Worth(value), D),
         NEW n \in Nodes, Parentless(kids, n)
  PROVE  LET r == snapshotPatchApply(m, reconstruct(n))
         IN  /\ Shows(r, Naming(id), kids, Worth(value), D \cup Subtree(kids, n))
             /\ r.errors = m.errors
<1>. DEFINE f == Naming(id)
            w == Worth(value)
            T == Subtree(kids, n)
            r == snapshotPatchApply(m, reconstruct(n))
<1>1. /\ Tree(kids) /\ Renaming(f) /\ Maps(id, Nodes, MainIds)
      /\ \A x \in Nodes : f[x] = id[x]
      /\ \A q \in Seq(Nodes) : Renamed(f, q) = Renamed(id, q)
  BY NamingFacts DEF Background
<1>2. /\ \A x \in Places : kids[x] \in Seq(Nodes) /\ Elements(kids[x]) \subseteq Nodes
      /\ DOMAIN kids = Places /\ n \in Places
  BY <1>1, TreeFacts DEF Tree, Places
<1>3. T \subseteq Nodes /\ T \subseteq Places /\ \A x \in T : w[x] = value[x]
  <2>1. T \subseteq Nodes
    BY <1>1, TreeFacts
  <2>. QED
    BY <2>1, NodeFacts DEF Worth, Places
\* No other instance has a child there.
<1>4. ASSUME NEW x \in Places, x \notin T PROVE Elements(kids[x]) \cap T = {}
  <2>1. SUFFICES ASSUME NEW c \in Elements(kids[x]), c \in T PROVE FALSE
    OBVIOUS
  <2>2. c # n
    BY <1>4, <2>1 DEF Parentless
  <2>. QED
    BY <1>1, <1>2, <1>4, <2>1, <2>2, ParentIn
<1>. HIDE DEF f, w, T
<1>5. Shows(m, f, kids, w, D)
  BY DEF f, w
<1>6. /\ m \in MainStates /\ m.ids = Image(f, D) /\ Clean(m)
      /\ \A y \in D : Elements(m.kids[f[y]]) = Image(f, Elements(kids[y]))
  BY <1>1, <1>5, ShownKids DEF Shows
<1>7. Names(T) = Image(f, T)
  BY <1>1, <1>3 DEF Names, Image
<1>8. \A x, y \in Places : f[x] = f[y] => x = y
  BY <1>1 DEF Renaming, OneToOne
<1>9. \A x \in m.ids \ Names(T) : Elements(m.kids[x]) \cap Names(T) = {}
  <2>1. SUFFICES ASSUME NEW x \in m.ids, x \notin Names(T)
                 PROVE  Elements(m.kids[x]) \cap Names(T) = {}
    OBVIOUS
  <2>2. PICK y \in D : x = f[y]
    BY <1>6 DEF Image
  <2>3. y \in Places /\ y \notin T
    BY <1>7, <2>1, <2>2 DEF Image
  <2>4. Elements(kids[y]) \cap T = {} /\ Elements(kids[y]) \subseteq Places
    BY <1>2, <1>4, <2>3 DEF Places
  <2>5. Elements(m.kids[x]) = Image(f, Elements(kids[y]))
    BY <1>6, <2>2
  <2>. QED
    BY <1>3, <1>7, <1>8, <2>4, <2>5 DEF Image
<1>10. \A y \in T : id[y] \in m.ids => Elements(m.kids[id[y]]) \subseteq Image(id, Elements(kids[y]))
  <2>1. SUFFICES ASSUME NEW y \in T, id[y] \in m.ids
                 PROVE  Elements(m.kids[id[y]]) \subseteq Image(id, Elements(kids[y]))
    OBVIOUS
  <2>2. y \in Places /\ y \in Nodes /\ f[y] = id[y]
    BY <1>1, <1>3
  <2>3. y \in D
    BY <1>6, <1>8, <2>1, <2>2 DEF Image
  <2>4. Image(f, Elements(kids[y])) = Image(id, Elements(kids[y]))
    BY <1>1, <1>2, <2>2 DEF Image
  <2>. QED
    BY <1>6, <2>2, <2>3, <2>4
<1>11. Builds(m, r, T)
  <2>1. CanBuild(m, Subtree(kids, n))
    BY <1>6, <1>9, <1>10 DEF CanBuild, T
  <2>. QED
    BY <2>1, ReconstructBuilds DEF Reconstructs, T
<1>. HIDE DEF r
<1>12. r \in MainStates /\ r.errors = m.errors /\ r.ids = Image(f, D \cup T)
  <2>1. Image(f, D \cup T) = Image(f, D) \cup Image(f, T)
    BY DEF Image
  <2>. QED
    BY <1>6, <1>7, <1>11, <2>1 DEF Builds, Built
<1>13. ASSUME NEW y \in D \cup T PROVE r.kids[f[y]] = Renamed(f, kids[y]) /\ r.value[f[y]] = w[y]
  <2>1. CASE y \in T
    <3>1. r.kids[id[y]] = Renamed(id, kids[y]) /\ r.value[id[y]] = value[y]
      BY <1>11, <2>1 DEF Builds, Built
    <3>2. f[y] = id[y] /\ Renamed(f, kids[y]) = Renamed(id, kids[y])
      BY <1>1, <1>2, <1>3, <2>1
    <3>. QED
      BY <1>3, <2>1, <3>1, <3>2
  <2>2. CASE y \in D /\ y \notin T
    <3>1. f[y] \in m.ids /\ f[y] \notin Names(T)
      BY <1>3, <1>6, <1>7, <1>8, <2>2 DEF Image
    <3>2. r.kids[f[y]] = m.kids[f[y]] /\ r.value[f[y]] = m.value[f[y]]
      BY <1>11, <3>1 DEF Builds
    <3>. QED
      BY <1>5, <2>2, <3>2 DEF Shows
  <2>. QED
    BY <2>1, <2>2
<1>. QED
  BY <1>12, <1>13 DEF Shows, f, w, T, r

\* Below p it is the last child.
LEMMA ShowsGrow ==
  ASSUME Background, NEW D, D \subseteq Places, Closed(kids, D),
         NEW m, Shows(m, Naming(id), kids, Worth(value), D),
         NEW p \in D, NEW n \in Nodes, Parentless(kids, n)
  PROVE  LET r == snapshotPatchApply(m, ChildOps(Naming(id)[p], reconstruct(n), n))
         IN  /\ Shows(r, Naming(id), [kids EXCEPT ![p] = Placed(kids[p], n, None)],
                      Worth(value), D \cup Subtree(kids, n))
             /\ r.errors = m.errors
<1>. DEFINE f == Naming(id)
            w == Worth(value)
            T == Subtree(kids, n)
            t == f[p]
            u == reconstruct(n)
            v == <<InsertBefore(t, id[n], None)>>
            a == snapshotPatchApply(m, u)
            r == snapshotPatchApply(m, ChildOps(t, u, n))
<1>1. Tree(kids) /\ Renaming(f) /\ f[n] = id[n] /\ f[None] = None /\ t \in MainIds /\ id[n] \in MainIds
  BY NamingFacts DEF Background, Renaming, Maps
<1>2. T \subseteq Places /\ n \in T /\ Closed(kids, T)
  BY <1>1, TreeFacts DEF IsSubtree, Places
<1>3. Shows(a, f, kids, w, D \cup T) /\ a.errors = m.errors
  BY ShowsRebuild
<1>4. u \in Seq(Ops) /\ v \in Seq(Ops)
  <2>1. u \in Seq(Ops)
    BY ReconstructType
  <2>2. InsertBefore(t, id[n], None) \in Ops
    BY <1>1, OpFacts, IdFacts
  <2>. QED
    BY <2>1, <2>2
<1>5. ChildOps(t, u, n) = u \o v /\ snapshotPatchApply(a, v) = ApplyOp(a, InsertBefore(f[p], f[n], f[None]))
  <2>1. snapshotPatchApply(a, v) = ApplyOp(a, InsertBefore(t, id[n], None))
    BY ApplyOne
  <2>. QED
    BY <1>1, <2>1 DEF ChildOps
<1>6. m \in MainStates
  BY DEF Shows
<1>7. r = ApplyOp(a, InsertBefore(f[p], f[n], f[None]))
  <2>. HIDE DEF u, v
  <2>1. snapshotPatchApply(m, u \o v) = snapshotPatchApply(a, v)
    BY <1>4, <1>6, ApplyConcat
  <2>. QED
    BY <1>5, <2>1
<1>. HIDE DEF f, w, T, a, r, u, v
<1>8. D \cup T \subseteq Places /\ Closed(kids, D \cup T)
  BY <1>2 DEF Closed
<1>9. /\ Shows(r, f, [kids EXCEPT ![p] = Placed(kids[p], n, None)], w, D \cup T)
      /\ r.errors = a.errors
  <2>1. \A x \in Places : n \in Elements(kids[x]) => x = p
    BY DEF Parentless
  <2>. QED
    BY <1>1, <1>2, <1>3, <1>7, <1>8, <2>1, ShowsPlace
<1>. QED
  BY <1>3, <1>9 DEF f, w, T, r, t, u

\* An operation on an instance that is not there is reported and changes nothing.
LEMMA ShowsError ==
  ASSUME NEW f, NEW k, NEW D, NEW m, NEW w, Shows(m, f, k, w, D)
  PROVE  Shows(WithError(m), f, k, w, D) /\ WithError(m).errors = m.errors + 1
<1>1. /\ m.ids \in SUBSET MainIds /\ m.kids \in [MainIds -> Seq(MainIds)]
      /\ m.value \in [MainIds -> Int] /\ m.errors \in Nat
      /\ DOMAIN m = {"ids", "kids", "value", "errors"}
  BY StateFacts DEF Shows
<1>. DEFINE e == m.errors + 1
            r == WithError(m)
<1>2. e \in Nat /\ r = [m EXCEPT !.errors = e]
  BY <1>1 DEF WithError
<1>. HIDE DEF e, r
<1>3. r.ids = m.ids /\ r.kids = m.kids /\ r.value = m.value /\ r.errors = e
  BY <1>1, <1>2
<1>4. r \in MainStates
  BY <1>1, <1>2 DEF MainStates, Shows
<1>5. Shows(r, f, k, w, D)
  BY <1>3, <1>4 DEF Shows
<1>. QED
  BY <1>3, <1>5 DEF e, r

-----------------------------------------------------------------------------
(* Hydration.  The elements below the root, and what it makes of them *)

Top(i) == kids[Root][i]
TopCount == Len(kids[Root])
Matched == 1..(IF TopCount < FirstScreen THEN TopCount ELSE FirstScreen)
NewId ==
  [n \in Nodes |-> IF \E i \in Matched : Top(i) = n
                   THEN AdoptedId(CHOOSE i \in Matched : Top(i) = n) ELSE id[n]]
Adopted == Naming(NewId)
Unhydrated == Background /\ id = [n \in Nodes |-> n]

LEMMA TopFacts ==
  ASSUME Background
  PROVE  /\ Tree(kids) /\ Root \in Places /\ TopCount \in Nat /\ kids[Root] \in Seq(Nodes)
         /\ \A i \in 1..TopCount : Top(i) \in Nodes /\ Top(i) \in Elements(kids[Root])
         /\ \A i, j \in 1..TopCount : Top(i) = Top(j) => i = j
         /\ Matched \subseteq 1..TopCount /\ Matched \subseteq 1..FirstScreen
<1>1. Tree(kids) /\ Root \in Places /\ kids[Root] \in Seq(Nodes) /\ Distinct(kids[Root])
  BY DEF Background, Tree, Places
<1>2. TopCount \in Nat /\ DOMAIN kids[Root] = 1..TopCount
  BY <1>1 DEF TopCount
<1>3. Matched \subseteq 1..TopCount /\ Matched \subseteq 1..FirstScreen
  BY <1>2, ConstantsAssumption DEF Matched
<1>. QED
  BY <1>1, <1>2, <1>3 DEF Top, Distinct, Elements

LEMMA FirstNames ==
  \A i \in 1..FirstScreen : -i \in MainIds /\ -i # Root /\ -i \notin Nodes /\ -i \in Int
BY ConstantsAssumption DEF MainIds, Root, Nodes

LEMMA AdoptedFacts ==
  ASSUME Unhydrated
  PROVE  /\ NewId \in [Nodes -> MainIds \ {Root}] /\ OneToOne(NewId, Nodes)
         /\ Renaming(Adopted)
         /\ \A n \in Nodes : Adopted[n] = NewId[n]
         /\ \A i \in Matched : Adopted[Top(i)] = -i
         /\ \A n \in Nodes : (\A i \in Matched : Top(i) # n) => Adopted[n] = n
         /\ \A y \in Nodes : Renamed(Adopted, kids[y]) = Renamed(id, kids[y])
<1>1. Background /\ \A n \in Nodes : id[n] = n
  BY DEF Unhydrated
<1>2. ASSUME NEW i \in Matched PROVE NewId[Top(i)] = -i
  <2>1. (CHOOSE j \in Matched : Top(j) = Top(i)) = i
    <3>1. \A j \in Matched : Top(j) = Top(i) => j = i
      BY <1>1, TopFacts
    <3>. QED
      BY <3>1
  <2>2. Top(i) \in Nodes
    BY <1>1, TopFacts
  <2>. QED
    BY <2>1, <2>2 DEF NewId, AdoptedId
<1>3. ASSUME NEW n \in Nodes, \A i \in Matched : Top(i) # n PROVE NewId[n] = n
  BY <1>1, <1>3 DEF NewId
<1>4. \A n \in Nodes : (\E i \in Matched : Top(i) = n /\ NewId[n] = -i) \/ NewId[n] = n
  BY <1>2, <1>3
<1>5. NewId \in [Nodes -> MainIds \ {Root}]
  <2>1. NewId = [n \in Nodes |-> NewId[n]]
    BY DEF NewId
  <2>2. \A n \in Nodes : NewId[n] \in MainIds \ {Root}
    BY <1>1, <1>4, TopFacts, FirstNames, IdFacts, NodeFacts
  <2>. HIDE DEF NewId
  <2>. QED
    BY <2>1, <2>2
<1>6. OneToOne(NewId, Nodes)
  <2>1. SUFFICES ASSUME NEW x \in Nodes, NEW y \in Nodes, NewId[x] = NewId[y] PROVE x = y
    BY DEF OneToOne
  <2>2. CASE \E i \in Matched : Top(i) = x /\ NewId[x] = -i
    <3>1. PICK i \in Matched : Top(i) = x /\ NewId[x] = -i
      BY <2>2
    <3>2. i \in 1..FirstScreen /\ -i \notin Nodes
      BY <1>1, TopFacts, FirstNames
    <3>3. PICK j \in Matched : Top(j) = y /\ NewId[y] = -j
      BY <1>4, <2>1, <3>1, <3>2
    <3>4. j \in 1..FirstScreen
      BY <1>1, TopFacts
    <3>5. i = j
      <4>1. -i = -j
        BY <2>1, <3>1, <3>3
      <4>2. i \in Int /\ j \in Int
        BY <3>2, <3>4, ConstantsAssumption
      <4>. QED
        BY <4>1, <4>2
    <3>. QED
      BY <3>1, <3>3, <3>5
  <2>3. CASE NewId[x] = x
    <3>1. \A i \in Matched : -i \notin Nodes
      BY <1>1, TopFacts, FirstNames
    <3>2. NewId[y] \in Nodes
      BY <2>1, <2>3
    <3>3. NewId[y] = y
      BY <1>4, <3>1, <3>2
    <3>. QED
      BY <2>1, <2>3, <3>3
  <2>. QED
    BY <1>4, <2>2, <2>3
<1>7. /\ Renaming(Adopted) /\ \A n \in Nodes : Adopted[n] = NewId[n]
      /\ \A q \in Seq(Nodes) : Renamed(Adopted, q) = Renamed(NewId, q)
  BY <1>5, <1>6, NamingFacts DEF Adopted
<1>8. ASSUME NEW y \in Nodes PROVE Renamed(Adopted, kids[y]) = Renamed(id, kids[y])
  <2>1. kids[y] \in Seq(Nodes) /\ y \in DOMAIN kids /\ Root \in DOMAIN kids
    BY <1>1 DEF Background, Tree, Places
  <2>2. \A p \in DOMAIN kids[y] : \A i \in Matched : Top(i) # kids[y][p]
    <3>1. \A p \in DOMAIN kids[y] : kids[y][p] \in Elements(kids[y])
      BY DEF Elements
    <3>2. Elements(kids[y]) \cap Elements(kids[Root]) = {}
      BY <1>1, <2>1, NodeFacts DEF Background, Tree, OneParent
    <3>. QED
      BY <1>1, <3>1, <3>2, TopFacts
  <2>3. \A p \in DOMAIN kids[y] : kids[y][p] \in Nodes
    BY <2>1
  <2>4. \A p \in DOMAIN kids[y] : NewId[kids[y][p]] = id[kids[y][p]]
    BY <1>1, <1>3, <2>2, <2>3
  <2>5. Renamed(NewId, kids[y]) = Renamed(id, kids[y])
    BY <2>4 DEF Renamed
  <2>. QED
    BY <1>7, <2>1, <2>5
<1>. QED
  BY <1>1, <1>2, <1>3, <1>5, <1>6, <1>7, <1>8, TopFacts

\* The first i + 1 elements below the root are the first i and one more.
Above(i) == FirstKids(Root, i)

LEMMA AboveFacts ==
  ASSUME Background, NEW i \in 0..TopCount, i + 1 <= TopCount, NEW c, c = Top(i + 1)
  PROVE  /\ c \in Nodes /\ i + 1 \in 1..TopCount
         /\ Above(i + 1) = Above(i) \cup Subtree(kids, c)
         /\ Above(i) \cap Subtree(kids, c) = {}
         /\ Subtree(kids, c) = {c} \cup BelowKids(c) /\ c \notin BelowKids(c)
         /\ Above(i + 1) \subseteq Nodes
         /\ \A j \in 1..TopCount : Top(j) \notin BelowKids(c)
<1>1. /\ Tree(kids) /\ Root \in Places /\ TopCount \in Nat
      /\ \A j \in 1..TopCount : Top(j) \in Nodes /\ Top(j) \in Elements(kids[Root])
      /\ \A j, k \in 1..TopCount : Top(j) = Top(k) => j = k
  BY TopFacts
<1>2. c \in Nodes /\ c \in Elements(kids[Root]) /\ c \in Places /\ i + 1 \in 1..TopCount
  BY <1>1 DEF Places
<1>3. 1..(i + 1) = 1..i \cup {i + 1} /\ \A j \in 1..i : j \in 1..TopCount /\ j # i + 1
  BY <1>1
<1>4. Above(i + 1) = Above(i) \cup Subtree(kids, c)
  BY <1>3 DEF Above, FirstKids, Top
<1>5. ASSUME NEW j \in 1..TopCount, j # i + 1
      PROVE  Subtree(kids, Top(j)) \cap Subtree(kids, c) = {} /\ Top(j) \notin Subtree(kids, c)
  <2>1. Top(j) # c /\ Top(j) \in Elements(kids[Root])
    BY <1>1, <1>2, <1>5
  <2>2. Subtree(kids, Top(j)) \cap Subtree(kids, c) = {}
    BY <1>1, <1>2, <2>1, SiblingsDisjoint
  <2>3. Top(j) \in Places /\ IsSubtree(kids, Top(j), Subtree(kids, Top(j)))
    BY <1>1, TreeFacts DEF Places
  <2>. QED
    BY <2>2, <2>3 DEF IsSubtree
<1>6. Above(i) \cap Subtree(kids, c) = {}
  <2>1. \A j \in 1..i : Subtree(kids, Top(j)) \cap Subtree(kids, c) = {}
    BY <1>3, <1>5
  <2>. QED
    BY <2>1 DEF Above, FirstKids, Top
<1>7. Subtree(kids, c) = {c} \cup BelowKids(c) /\ c \notin BelowKids(c)
  BY <1>1, <1>2, BelowFacts
<1>8. Above(i + 1) \subseteq Nodes
  <2>1. \A j \in 1..(i + 1) : Subtree(kids, Top(j)) \subseteq Nodes
    BY <1>1, <1>2, <1>3, TreeFacts
  <2>. QED
    BY <2>1 DEF Above, FirstKids, Top
<1>9. \A j \in 1..TopCount : Top(j) \notin BelowKids(c)
  BY <1>2, <1>5, <1>7
<1>. QED
  BY <1>2, <1>4, <1>6, <1>7, <1>8, <1>9

FirstIds == {-j : j \in 1..FirstScreen}

MatchedOps(i) ==
  (IF value[Top(i)] = Unset THEN <<>> ELSE <<SetAttribute(-i, value[Top(i)])>>)
  \o FlattenSeq(KidsBelow(-i, Top(i)))
NewOps(i) == ChildOps(Root, reconstruct(Top(i)), Top(i))

\* The instances of D are on the main thread, and the elements of the first screen.
Holding(m, D) ==
  /\ m \in MainStates /\ m.errors = 0 /\ m.value[Root] = Unset
  /\ \A y \in D : m.kids[Adopted[y]] = Renamed(id, kids[y]) /\ m.value[Adopted[y]] = value[y]

\* The first i elements below the root have been hydrated.
Half(m, i) ==
  /\ Holding(m, Above(i)) /\ Clean(m)
  /\ m.ids = {Root} \cup FirstIds \cup Image(Adopted, Above(i))
  /\ Len(m.kids[Root]) = (IF i < FirstScreen THEN FirstScreen ELSE i)
  /\ \A q \in 1..Len(m.kids[Root]) :
       m.kids[Root][q] = IF q <= FirstScreen THEN -q ELSE Adopted[Top(q)]
  /\ \A j \in 1..FirstScreen : j > i => m.kids[-j] = <<>> /\ m.value[-j] = Unset

\* The names of an element and of what is below it are not those of the elements before it.
LEMMA NextNames ==
  ASSUME Unhydrated, NEW i \in 0..TopCount, i + 1 <= TopCount, NEW c, c = Top(i + 1)
  PROVE  /\ \A y \in BelowKids(c) : Adopted[y] = y /\ id[y] = y /\ y \in Nodes
         /\ \A y \in Above(i), x \in Subtree(kids, c) : Adopted[y] # Adopted[x]
         /\ \A y \in Above(i) : Adopted[y] \in MainIds
<1>1. /\ c \in Nodes /\ Above(i) \cap Subtree(kids, c) = {}
      /\ Above(i + 1) = Above(i) \cup Subtree(kids, c) /\ Above(i + 1) \subseteq Nodes
      /\ Subtree(kids, c) = {c} \cup BelowKids(c)
      /\ \A j \in 1..TopCount : Top(j) \notin BelowKids(c)
  BY AboveFacts DEF Unhydrated
<1>2. \A y \in BelowKids(c) : Adopted[y] = y
  <2>1. \A y \in BelowKids(c) : y \in Nodes /\ \A j \in Matched : Top(j) # y
    BY <1>1, TopFacts DEF Unhydrated
  <2>. QED
    BY <2>1, AdoptedFacts
<1>3. \A y \in Above(i), x \in Subtree(kids, c) : Adopted[y] # Adopted[x]
  BY <1>1, AdoptedFacts, NameFacts DEF Places
<1>4. \A y \in Above(i) : Adopted[y] \in MainIds
  BY <1>1, AdoptedFacts, NameFacts DEF Places
<1>. QED
  BY <1>1, <1>2, <1>3, <1>4 DEF Unhydrated

\* An element that takes the place of one of the first screen.
LEMMA AdoptStep ==
  ASSUME Unhydrated, NEW i \in 0..TopCount, i + 1 \in Matched, NEW m, Half(m, i), NEW r,
         r = snapshotPatchApply(m, MatchedOps(i + 1))
  PROVE  Half(r, i + 1)
<1>. DEFINE c == Top(i + 1)
            t == -(i + 1)
            A == Above(i)
            B == BelowKids(c)
            v == value[c]
            ss == KidsBelow(t, c)
            u == IF v = Unset THEN <<>> ELSE <<SetAttribute(t, v)>>
            a == snapshotPatchApply(m, u)
<1>1. /\ Background /\ i + 1 <= TopCount /\ i + 1 \in 1..FirstScreen /\ i \in Nat
      /\ i + 1 \in 1..TopCount
  BY TopFacts DEF Unhydrated
<1>2. /\ c \in Nodes /\ Above(i + 1) = A \cup {c} \cup B /\ c \notin A /\ c \notin B
      /\ A \cap B = {}
  BY <1>1, AboveFacts
<1>3. /\ \A y \in B : Adopted[y] = y /\ id[y] = y /\ y \in Nodes
      /\ \A y \in A : Adopted[y] # Adopted[c] /\ (\A x \in B : Adopted[y] # Adopted[x])
      /\ \A y \in A : Adopted[y] \in MainIds
  <2>1. Subtree(kids, c) = {c} \cup BelowKids(c)
    BY <1>1, AboveFacts
  <2>. QED
    BY <1>1, <2>1, NextNames
<1>4. /\ Adopted[c] = t /\ t \in MainIds /\ t # Root /\ t \in FirstIds /\ FirstIds \cap Nodes = {}
      /\ v \in Int /\ c \in Places
  <2>1. Adopted[c] = t
    BY AdoptedFacts
  <2>2. t \in MainIds /\ t # Root /\ t \in FirstIds
    BY <1>1, FirstNames DEF FirstIds
  <2>3. FirstIds \cap Nodes = {}
    BY FirstNames DEF FirstIds
  <2>. QED
    BY <1>1, <1>2, <2>1, <2>2, <2>3 DEF Background, Places
<1>. HIDE DEF c, t, A, B, v
<1>5. /\ m \in MainStates /\ Clean(m) /\ m.errors = 0 /\ m.value[Root] = Unset
      /\ m.ids = {Root} \cup FirstIds \cup Image(Adopted, A)
      /\ \A y \in A : m.kids[Adopted[y]] = Renamed(id, kids[y]) /\ m.value[Adopted[y]] = value[y]
      /\ m.kids[t] = <<>> /\ m.value[t] = Unset /\ t \in m.ids /\ Root \in m.ids
  <2>1. m.kids[t] = <<>> /\ m.value[t] = Unset
    BY <1>1 DEF Half, t
  <2>. QED
    BY <1>4, <2>1 DEF Half, Holding, A
<1>6. /\ a \in MainStates /\ a.ids = m.ids /\ a.errors = 0 /\ a.kids = m.kids
      /\ a.value[t] = v /\ \A x \in MainIds : x # t => a.value[x] = m.value[x]
  <2>1. CASE v = Unset
    <3>1. a = m
      BY <2>1, ApplyNone
    <3>. QED
      BY <1>5, <2>1, <3>1
  <2>2. CASE v # Unset
    <3>1. a = ApplyOp(m, SetAttribute(t, v))
      BY <2>2, ApplyOne
    <3>2. /\ a \in MainStates /\ a.ids = m.ids /\ a.errors = m.errors /\ a.kids = m.kids
          /\ a.value = [m.value EXCEPT ![t] = v]
      BY <1>4, <1>5, <3>1, ApplySet
    <3>3. m.value \in [MainIds -> Int]
      BY <1>5, StateFacts
    <3>. HIDE DEF a
    <3>. QED
      BY <1>4, <1>5, <3>2, <3>3
  <2>. QED
    BY <2>1, <2>2
<1>7. r = snapshotPatchApply(a, FlattenSeq(ss))
  <2>1. MatchedOps(i + 1) = u \o FlattenSeq(ss)
    BY DEF MatchedOps, c, t, v
  <2>2. u \in Seq(Ops)
    <3>1. SetAttribute(t, v) \in Ops
      BY <1>4, OpFacts
    <3>. QED
      BY <3>1
  <2>3. FlattenSeq(ss) \in Seq(Ops)
    <3>1. ss \in Seq(Seq(Ops))
      BY <1>1, <1>4, KidsBelowType
    <3>. HIDE DEF ss
    <3>2. PICK f : Flattening(ss, f)
      BY <3>1, FlatteningThere
    <3>. QED
      BY <3>1, <3>2, FlattenIs
  <2>. DEFINE z == FlattenSeq(ss)
  <2>. HIDE DEF u, z
  <2>4. MatchedOps(i + 1) = u \o z /\ z \in Seq(Ops)
    BY <2>1, <2>3 DEF z
  <2>5. snapshotPatchApply(m, u \o z) = snapshotPatchApply(snapshotPatchApply(m, u), z)
    BY <2>2, <2>4, ApplyConcat
  <2>. QED
    BY <2>4, <2>5 DEF z
<1>. HIDE DEF a
<1>8. Unused(a, BelowKids(c)) /\ t \in a.ids /\ a.kids[t] = <<>>
  <2>1. m.ids \cap Names(B) = {}
    <3>1. \A x \in m.ids : x = Root \/ x \in FirstIds \/ \E y \in A : x = Adopted[y]
      BY <1>5 DEF Image
    <3>2. \A x \in B : id[x] # Root /\ id[x] \notin FirstIds /\ \A y \in A : id[x] # Adopted[y]
      BY <1>3, <1>4, NodeFacts
    <3>. QED
      BY <3>1, <3>2 DEF Names
  <2>. QED
    BY <1>5, <1>6, <2>1 DEF Unused, B, Clean
<1>9. /\ Built(a, r, BelowKids(c)) /\ r.kids[t] = Renamed(id, kids[c])
      /\ \A x \in a.ids : (x # t => r.kids[x] = a.kids[x]) /\ r.value[x] = a.value[x]
  <2>1. \A x \in Elements(kids[c]) : Reconstructs(x)
    BY <1>1, <1>4, ReconstructBuilds, TreeFacts DEF Background
  <2>. QED
    <3>1. CanBuild(a, BelowKids(c)) /\ a.ids \ Names(BelowKids(c)) = a.ids
      BY <1>8, UnusedFacts
    <3>2. t \notin Names(BelowKids(c))
      BY <1>8, <3>1
    <3>. QED
      BY <1>1, <1>2, <1>7, <1>8, <2>1, <3>1, <3>2, AppendChildren
<1>. HIDE DEF ss, u
<1>10. /\ r \in MainStates /\ Clean(r) /\ r.errors = 0 /\ r.ids = m.ids \cup Names(B)
       /\ \A y \in B : r.kids[id[y]] = Renamed(id, kids[y]) /\ r.value[id[y]] = value[y]
       /\ r.kids[t] = Renamed(id, kids[c]) /\ r.value[t] = v
       /\ \A x \in m.ids : x # t => r.kids[x] = m.kids[x] /\ r.value[x] = m.value[x]
  <2>1. m.ids \subseteq MainIds
    BY <1>5, StateFacts
  <2>. QED
    BY <1>5, <1>6, <1>9, <2>1 DEF Built, B
<1>11. r.ids = {Root} \cup FirstIds \cup Image(Adopted, A \cup {c} \cup B)
  <2>1. Image(Adopted, A \cup {c} \cup B) = Image(Adopted, A) \cup {t} \cup Image(Adopted, B)
    BY <1>4 DEF Image
  <2>2. Image(Adopted, B) = Names(B)
    BY <1>3 DEF Image, Names
  <2>. QED
    BY <1>4, <1>5, <1>10, <2>1, <2>2
<1>12. Holding(r, A \cup {c} \cup B)
  <2>1. \A y \in A : Adopted[y] \in m.ids /\ Adopted[y] # t
    BY <1>3, <1>4, <1>5 DEF Image
  <2>2. ASSUME NEW y \in A \cup {c} \cup B
        PROVE  r.kids[Adopted[y]] = Renamed(id, kids[y]) /\ r.value[Adopted[y]] = value[y]
    <3>1. CASE y \in A
      BY <1>5, <1>10, <2>1, <3>1
    <3>2. CASE y = c
      BY <1>4, <1>10, <3>2 DEF v
    <3>3. CASE y \in B
      BY <1>3, <1>10, <3>3
    <3>. QED
      BY <3>1, <3>2, <3>3
  <2>. QED
    BY <1>4, <1>5, <1>10, <2>2 DEF Holding
<1>13. r.kids[Root] = m.kids[Root]
  BY <1>4, <1>5, <1>10
<1>14. \A j \in 1..FirstScreen : j > i + 1 => r.kids[-j] = <<>> /\ r.value[-j] = Unset
  <2>1. SUFFICES ASSUME NEW j \in 1..FirstScreen, j > i + 1
                 PROVE  r.kids[-j] = <<>> /\ r.value[-j] = Unset
    OBVIOUS
  <2>2. j \in Int /\ j > i /\ -j # t
    BY <1>1, <2>1, ConstantsAssumption DEF t
  <2>3. -j \in m.ids
    BY <1>5 DEF FirstIds
  <2>. QED
    BY <1>10, <2>2, <2>3 DEF Half
<1>15. Len(r.kids[Root]) = (IF i + 1 < FirstScreen THEN FirstScreen ELSE i + 1)
  <2>1. i < FirstScreen /\ (i + 1 < FirstScreen \/ i + 1 = FirstScreen)
    BY <1>1, ConstantsAssumption
  <2>. QED
    BY <1>13, <2>1 DEF Half
<1>. QED
  BY <1>2, <1>10, <1>11, <1>12, <1>13, <1>14, <1>15 DEF Half

\* An element that the first screen does not have.
LEMMA AddStep ==
  ASSUME Unhydrated, NEW i \in 0..TopCount, i + 1 <= TopCount, i + 1 \notin Matched,
         NEW m, Half(m, i), NEW r, r = snapshotPatchApply(m, NewOps(i + 1))
  PROVE  Half(r, i + 1)
<1>. DEFINE c == Top(i + 1)
            A == Above(i)
            T == Subtree(kids, c)
<1>1. Background /\ i \in Nat /\ TopCount \in Nat /\ FirstScreen \in Nat
  BY TopFacts, ConstantsAssumption DEF Unhydrated
<1>2. FirstScreen <= i
  BY <1>1 DEF Matched
<1>3. /\ c \in Nodes /\ Above(i + 1) = A \cup T /\ A \cap T = {} /\ i + 1 \in 1..TopCount
      /\ T = {c} \cup BelowKids(c)
  BY <1>1, AboveFacts
<1>4. /\ \A y \in T : Adopted[y] = y /\ id[y] = y /\ y \in Nodes
      /\ \A y \in A : Adopted[y] \in MainIds /\ \A x \in T : Adopted[y] # Adopted[x]
  <2>1. /\ \A y \in BelowKids(c) : Adopted[y] = y /\ id[y] = y /\ y \in Nodes
        /\ \A y \in A : Adopted[y] \in MainIds /\ \A x \in T : Adopted[y] # Adopted[x]
    BY NextNames
  <2>2. \A j \in Matched : Top(j) # c
    BY <1>1, <1>3, TopFacts
  <2>3. Adopted[c] = c /\ id[c] = c
    BY <1>3, <2>2, AdoptedFacts DEF Unhydrated
  <2>. QED
    BY <1>3, <2>1, <2>3
<1>5. FirstIds \cap Nodes = {}
  BY FirstNames DEF FirstIds
<1>. HIDE DEF c, A, T
<1>6. /\ m \in MainStates /\ Clean(m) /\ m.errors = 0 /\ m.value[Root] = Unset
      /\ m.ids = {Root} \cup FirstIds \cup Image(Adopted, A)
      /\ \A y \in A : m.kids[Adopted[y]] = Renamed(id, kids[y]) /\ m.value[Adopted[y]] = value[y]
      /\ Root \in m.ids
  BY DEF Half, Holding, A
<1>7. Unused(m, T)
  <2>1. \A x \in m.ids : x = Root \/ x \in FirstIds \/ \E y \in A : x = Adopted[y]
    BY <1>6 DEF Image
  <2>2. \A x \in T : id[x] # Root /\ id[x] \notin FirstIds /\ \A y \in A : id[x] # Adopted[y]
    BY <1>4, <1>5, NodeFacts
  <2>. QED
    BY <1>6, <2>1, <2>2 DEF Unused, Names
<1>17. CanBuild(m, T) /\ m.ids \ Names(T) = m.ids
  BY <1>7, UnusedFacts
<1>8. Appends(m, r, Root, c)
  <2>1. Root \notin Names(T)
    BY <1>6, <1>17
  <2>. QED
    BY <1>1, <1>3, <1>6, <1>17, <2>1, AppendChild, ReconstructBuilds DEF NewOps, c, T
<1>9. /\ r \in MainStates /\ Clean(r) /\ r.errors = 0 /\ r.ids = m.ids \cup Names(T)
      /\ \A y \in T : r.kids[id[y]] = Renamed(id, kids[y]) /\ r.value[id[y]] = value[y]
      /\ r.kids[Root] = Append(m.kids[Root], id[c])
      /\ \A x \in m.ids : (x # Root => r.kids[x] = m.kids[x]) /\ r.value[x] = m.value[x]
  BY <1>6, <1>8, <1>17 DEF Appends, Built, T
<1>10. r.ids = {Root} \cup FirstIds \cup Image(Adopted, A \cup T)
  <2>1. Image(Adopted, A \cup T) = Image(Adopted, A) \cup Image(Adopted, T)
    BY DEF Image
  <2>2. Image(Adopted, T) = Names(T)
    BY <1>4 DEF Image, Names
  <2>. QED
    BY <1>6, <1>9, <2>1, <2>2
<1>11. Holding(r, A \cup T)
  <2>1. \A y \in A : Adopted[y] \in m.ids /\ Adopted[y] # Root
    <3>1. A \subseteq Nodes
      BY <1>1, <1>3, AboveFacts DEF A, c
    <3>2. \A y \in A : Adopted[y] # Root
      BY <3>1, AdoptedFacts
    <3>. QED
      BY <1>6, <3>2 DEF Image
  <2>2. ASSUME NEW y \in A \cup T
        PROVE  r.kids[Adopted[y]] = Renamed(id, kids[y]) /\ r.value[Adopted[y]] = value[y]
    <3>1. CASE y \in A
      BY <1>6, <1>9, <2>1, <3>1
    <3>2. CASE y \in T
      BY <1>4, <1>9, <3>2
    <3>. QED
      BY <3>1, <3>2
  <2>. QED
    BY <1>6, <1>9, <2>2 DEF Holding
<1>12. /\ Len(r.kids[Root]) = i + 1
       /\ \A q \in 1..(i + 1) :
            r.kids[Root][q] = IF q <= FirstScreen THEN -q ELSE Adopted[Top(q)]
  <2>1. m.kids[Root] \in Seq(MainIds) /\ id[c] \in MainIds
    BY <1>1, <1>3, <1>6, StateFacts, IdFacts DEF Background
  <2>2. /\ Len(m.kids[Root]) = i
        /\ \A q \in 1..i : m.kids[Root][q] = IF q <= FirstScreen THEN -q ELSE Adopted[Top(q)]
    <3>1. Len(m.kids[Root]) = i
      BY <1>1, <1>2 DEF Half
    <3>. QED
      BY <3>1 DEF Half
  <2>3. /\ Len(r.kids[Root]) = i + 1 /\ r.kids[Root][i + 1] = id[c]
        /\ \A q \in 1..i : r.kids[Root][q] = m.kids[Root][q]
    BY <1>9, <2>1, <2>2
  <2>4. id[c] = Adopted[Top(i + 1)] /\ ~(i + 1 <= FirstScreen)
    BY <1>1, <1>2, <1>3, <1>4 DEF c
  <2>5. \A q \in 1..(i + 1) : q \in 1..i \/ q = i + 1
    BY <1>1
  <2>. QED
    BY <2>2, <2>3, <2>4, <2>5
<1>13. \A j \in 1..FirstScreen : ~(j > i + 1)
  BY <1>1, <1>2
<1>14. ~(i + 1 < FirstScreen)
  BY <1>1, <1>2
<1>. QED
  BY <1>3, <1>9, <1>10, <1>11, <1>12, <1>13, <1>14 DEF Half

HydrateOps == [i \in DOMAIN kids[Root] |-> IF i \in Matched THEN MatchedOps(i) ELSE NewOps(i)]

LEMMA MatchedOpsType ==
  ASSUME Background, NEW i \in Matched
  PROVE  MatchedOps(i) \in Seq(Ops)
<1>. DEFINE v == value[Top(i)]
            u == IF v = Unset THEN <<>> ELSE <<SetAttribute(-i, v)>>
            ss == KidsBelow(-i, Top(i))
            z == FlattenSeq(ss)
<1>1. Top(i) \in Nodes /\ Top(i) \in Places /\ -i \in MainIds /\ v \in Int
  BY TopFacts, FirstNames DEF Background, Places
<1>2. u \in Seq(Ops)
  <2>1. SetAttribute(-i, v) \in Ops
    BY <1>1, OpFacts
  <2>. QED
    BY <2>1
<1>3. z \in Seq(Ops)
  <2>1. ss \in Seq(Seq(Ops))
    BY <1>1, KidsBelowType
  <2>. HIDE DEF ss
  <2>2. PICK f : Flattening(ss, f)
    BY <2>1, FlatteningThere
  <2>. QED
    BY <2>1, <2>2, FlattenIs
<1>4. MatchedOps(i) = u \o z
  BY DEF MatchedOps
<1>. HIDE DEF u, z
<1>. QED
  BY <1>2, <1>3, <1>4

LEMMA HydrateOpsType ==
  ASSUME Background
  PROVE  HydrateOps \in Seq(Seq(Ops)) /\ Len(HydrateOps) = TopCount
<1>1. TopCount \in Nat /\ DOMAIN kids[Root] = 1..TopCount
  BY TopFacts DEF TopCount
<1>2. \A i \in 1..TopCount : NewOps(i) \in Seq(Ops)
  BY TopFacts, IdFacts, ChildOpsType, ReconstructType DEF NewOps
<1>. QED
  BY <1>1, <1>2, MatchedOpsType DEF HydrateOps

LEMMA FirstMainFacts ==
  /\ FirstMain \in MainStates /\ FirstMain.errors = 0 /\ FirstMain.ids = {Root} \cup FirstIds
  /\ FirstMain.kids[Root] = [j \in 1..FirstScreen |-> -j]
  /\ \A x \in MainIds : (x # Root => FirstMain.kids[x] = <<>>) /\ FirstMain.value[x] = Unset
<1>1. [j \in 1..FirstScreen |-> -j] \in Seq(MainIds)
  BY FirstNames, ConstantsAssumption
<1>2. [p \in MainIds |-> IF p = Root THEN [j \in 1..FirstScreen |-> -j] ELSE <<>>]
        \in [MainIds -> Seq(MainIds)]
  <2>. DEFINE z == [j \in 1..FirstScreen |-> -j]
  <2>1. z \in Seq(MainIds) /\ <<>> \in Seq(MainIds)
    BY <1>1
  <2>. HIDE DEF z
  <2>2. [p \in MainIds |-> IF p = Root THEN z ELSE <<>>] \in [MainIds -> Seq(MainIds)]
    BY <2>1
  <2>. QED
    BY <2>2 DEF z
<1>3. [p \in MainIds |-> Unset] \in [MainIds -> Int]
  BY DEF Unset
<1>4. {Root} \cup FirstIds \subseteq MainIds
  BY IdFacts, FirstNames DEF FirstIds
<1>. QED
  BY <1>1, <1>2, <1>3, <1>4, IdFacts DEF FirstMain, MainStates, FirstIds

LEMMA HalfFirst ==
  ASSUME Background
  PROVE  Half(FirstMain, 0)
<1>1. FirstScreen \in Nat /\ Above(0) = {}
  BY ConstantsAssumption DEF Above, FirstKids
<1>2. Clean(FirstMain)
  <2>1. Elements(<<>>) = {} /\ Elements(FirstMain.kids[Root]) \subseteq FirstIds
    BY FirstMainFacts DEF Elements, FirstIds
  <2>2. FirstMain.ids \subseteq MainIds
    BY FirstMainFacts, StateFacts
  <2>. QED
    BY <2>1, <2>2, FirstMainFacts DEF Clean
<1>3. Holding(FirstMain, Above(0))
  BY <1>1, FirstMainFacts, IdFacts DEF Holding
<1>4. FirstMain.ids = {Root} \cup FirstIds \cup Image(Adopted, Above(0))
  BY <1>1, FirstMainFacts DEF Image
<1>5. Len(FirstMain.kids[Root]) = FirstScreen /\ \A q \in 1..FirstScreen : FirstMain.kids[Root][q] = -q
  BY <1>1, FirstMainFacts
<1>6. \A j \in 1..FirstScreen : FirstMain.kids[-j] = <<>> /\ FirstMain.value[-j] = Unset
  BY FirstMainFacts, FirstNames
<1>7. FirstScreen = IF 0 < FirstScreen THEN FirstScreen ELSE 0
  BY <1>1
<1>. QED
  BY <1>2, <1>3, <1>4, <1>5, <1>6, <1>7 DEF Half

LEMMA HalfAll ==
  ASSUME Unhydrated
  PROVE  Half(snapshotPatchApply(FirstMain, FlattenSeq(HydrateOps)), TopCount)
<1>. DEFINE L == TopCount
            ss == HydrateOps
<1>1. Background /\ L \in Nat /\ DOMAIN kids[Root] = 1..L
  BY TopFacts DEF Unhydrated, TopCount
<1>2. ss \in Seq(Seq(Ops)) /\ Len(ss) = L
  BY <1>1, HydrateOpsType
<1>3. \A i \in 1..L : ss[i] = IF i \in Matched THEN MatchedOps(i) ELSE NewOps(i)
  BY <1>1 DEF HydrateOps
<1>. HIDE DEF ss, L
<1>4. PICK g : Replays(FirstMain, ss, g)
  BY <1>2, ApplyFlattened
<1>5. /\ g[0] = FirstMain /\ \A i \in 1..L : g[i] = snapshotPatchApply(g[i - 1], ss[i])
      /\ snapshotPatchApply(FirstMain, FlattenSeq(ss)) = g[L]
  BY <1>2, <1>4 DEF Replays
<1>. DEFINE S == {i \in 0..L : Half(g[i], i)}
<1>6. 0 \in S
  BY <1>1, <1>5, HalfFirst
<1>7. ASSUME NEW i \in 0..L, i + 1 <= L, i \in S PROVE i + 1 \in S
  <2>1. i + 1 \in 1..L /\ i + 1 \in 0..L /\ (i + 1) - 1 = i
    BY <1>1, <1>7
  <2>2. g[i + 1] = snapshotPatchApply(g[i], ss[i + 1])
    BY <1>5, <2>1
  <2>3. Half(g[i], i)
    BY <1>7
  <2>. HIDE DEF S
  <2>4. CASE i + 1 \in Matched
    <3>1. g[i + 1] = snapshotPatchApply(g[i], MatchedOps(i + 1))
      BY <1>3, <2>1, <2>2, <2>4
    <3>2. Half(g[i + 1], i + 1)
      BY <2>3, <2>4, <3>1, AdoptStep DEF L
    <3>. QED
      BY <2>1, <3>2 DEF S
  <2>5. CASE i + 1 \notin Matched
    <3>1. g[i + 1] = snapshotPatchApply(g[i], NewOps(i + 1))
      BY <1>3, <2>1, <2>2, <2>5
    <3>2. Half(g[i + 1], i + 1)
      BY <1>7, <2>3, <2>5, <3>1, AddStep DEF L
    <3>. QED
      BY <2>1, <3>2 DEF S
  <2>. QED
    BY <2>4, <2>5
<1>8. L \in S
  <2>. HIDE DEF S
  <2>1. L \in 0..L
    BY <1>1
  <2>. QED
    BY <1>1, <1>6, <1>7, <2>1, UpTo
<1>. QED
  BY <1>5, <1>8 DEF ss, L

\* j of the elements of the first screen that have no match are removed.
Left(m, j) ==
  /\ Holding(m, Above(TopCount))
  /\ m.ids = {Root} \cup {-q : q \in {p \in 1..FirstScreen : p <= TopCount \/ p > TopCount + j}}
             \cup Image(Adopted, Above(TopCount))
  /\ Len(m.kids[Root]) = FirstScreen - j
  /\ \A q \in 1..(FirstScreen - j) : m.kids[Root][q] = IF q <= TopCount THEN -q ELSE -(q + j)
  /\ \A q \in 1..FirstScreen : q > TopCount + j => m.kids[-q] = <<>>

\* A leaf is its subtree.
LEMMA LeafSubtree ==
  ASSUME NEW m \in MainStates, NEW x \in MainIds, m.kids[x] = <<>>
  PROVE  Subtree(m.kids, x) = {x}
<1>. DEFINE k == m.kids
<1>1. k \in [MainIds -> Seq(MainIds)] /\ Elements(k[x]) = {}
  BY StateFacts DEF Elements
<1>. HIDE DEF k
<1>2. Closed(k, DOMAIN k)
  <2>1. \A y \in MainIds : Elements(k[y]) \subseteq MainIds
    BY <1>1, ElementFacts
  <2>. QED
    BY <1>1, <2>1 DEF Closed
<1>3. Closed(k, {x}) /\ Acyclic(k, {x})
  BY <1>1 DEF Closed, Acyclic
<1>4. IsSubtree(k, x, Subtree(k, x))
  BY <1>2, <1>3, SubtreeIs
<1>5. IsSubtree(k, x, {x})
  BY <1>1, <1>3 DEF IsSubtree
<1>. QED
  BY <1>4, <1>5, OneSubtree DEF k

LEMMA AboveNodes ==
  ASSUME Background
  PROVE  /\ Subtree(kids, Root) = {Root} \cup Above(TopCount)
         /\ Above(TopCount) \subseteq Nodes /\ Root \notin Above(TopCount)
         /\ \A i \in 1..TopCount : Top(i) \in Above(TopCount)
<1>1. /\ Subtree(kids, Root) = {Root} \cup Above(TopCount) /\ Root \notin Above(TopCount)
      /\ Subtree(kids, Root) \subseteq Places
  BY TopFacts, BelowFacts DEF BelowKids, Above, TopCount
<1>2. Above(TopCount) \subseteq Nodes
  BY <1>1 DEF Places
<1>3. ASSUME NEW i \in 1..TopCount PROVE Top(i) \in Above(TopCount)
  <2>1. Top(i) \in Places
    BY TopFacts DEF Places
  <2>2. Top(i) \in Subtree(kids, Top(i))
    BY <2>1, TopFacts, TreeFacts DEF IsSubtree
  <2>. QED
    BY <2>2 DEF Above, FirstKids, Top
<1>. QED
  BY <1>1, <1>2, <1>3

LEMMA RemoveStep ==
  ASSUME Unhydrated, TopCount < FirstScreen, NEW j \in 0..(FirstScreen - TopCount),
         j + 1 <= FirstScreen - TopCount, NEW m, Left(m, j), NEW r,
         r = ApplyOp(m, RemoveChild(Root, -(TopCount + (j + 1))))
  PROVE  Left(r, j + 1)
<1>. DEFINE L == TopCount
            D == Above(L)
            N == L + (j + 1)
            x == -N
            s == m.kids[Root]
<1>1. L \in Nat /\ FirstScreen \in Nat /\ j \in Nat /\ Background
  BY TopFacts, ConstantsAssumption DEF Unhydrated
<1>2. N \in 1..FirstScreen /\ ~(N <= L) /\ N > L + j /\ x \in MainIds /\ x # Root
  BY <1>1, FirstNames
<1>3. D \subseteq Nodes
  BY <1>1, AboveNodes
<1>4. \A y \in D : Adopted[y] # x /\ Adopted[y] # Root /\ Adopted[y] \in MainIds
  <2>1. SUFFICES ASSUME NEW y \in D PROVE Adopted[y] # x /\ Adopted[y] # Root /\ Adopted[y] \in MainIds
    OBVIOUS
  <2>2. y \in Nodes /\ Adopted[y] = NewId[y] /\ NewId[y] \in MainIds \ {Root}
    BY <1>3, AdoptedFacts
  <2>3. CASE \E i \in Matched : Top(i) = y
    <3>1. PICK i \in Matched : Top(i) = y
      BY <2>3
    <3>2. Adopted[y] = -i /\ i \in 1..L
      BY <1>1, <3>1, AdoptedFacts, TopFacts
    <3>. QED
      BY <1>1, <1>2, <2>2, <3>2
  <2>4. CASE \A i \in Matched : Top(i) # y
    BY <1>2, <2>2, <2>4, AdoptedFacts, FirstNames
  <2>. QED
    BY <2>3, <2>4
<1>5. /\ m \in MainStates /\ m.errors = 0 /\ m.value[Root] = Unset
      /\ \A y \in D : m.kids[Adopted[y]] = Renamed(id, kids[y]) /\ m.value[Adopted[y]] = value[y]
      /\ m.ids = {Root} \cup {-q : q \in {p \in 1..FirstScreen : p <= L \/ p > L + j}}
                 \cup Image(Adopted, D)
      /\ Len(s) = FirstScreen - j
      /\ \A q \in 1..(FirstScreen - j) : s[q] = IF q <= L THEN -q ELSE -(q + j)
      /\ \A q \in 1..FirstScreen : q > L + j => m.kids[-q] = <<>>
  BY DEF Left, Holding
<1>. HIDE DEF D
<1>6. m.kids[x] = <<>> /\ x \in m.ids /\ Root \in m.ids
  BY <1>2, <1>5
<1>7. L + 1 \in 1..Len(s) /\ s[L + 1] = x /\ s \in Seq(MainIds)
  <2>1. L + 1 \in 1..Len(s)
    BY <1>1, <1>5
  <2>2. s[L + 1] = -((L + 1) + j)
    BY <1>1, <1>5, <2>1
  <2>3. s \in Seq(MainIds)
    BY <1>5, StateFacts, IdFacts
  <2>. QED
    BY <1>1, <2>1, <2>2, <2>3
<1>8. \A p \in DOMAIN s : s[p] = x => p = L + 1
  <2>1. SUFFICES ASSUME NEW p \in 1..Len(s), s[p] = x PROVE p = L + 1
    BY <1>7
  <2>2. p \in 1..(FirstScreen - j) /\ p \in Int
    BY <1>1, <1>5
  <2>3. x = (IF p <= L THEN -p ELSE -(p + j))
    BY <1>5, <2>1, <2>2
  <2>. QED
    BY <1>1, <2>2, <2>3
<1>. HIDE DEF s
<1>9. Without(s, x) = RemoveAt(s, L + 1) /\ x \in Elements(s)
  <2>1. L + 1 \in DOMAIN s
    BY <1>7
  <2>2. (CHOOSE p \in DOMAIN s : s[p] = x) = L + 1
    BY <1>7, <1>8, <2>1
  <2>3. x \in Elements(s)
    BY <1>7, <2>1 DEF Elements
  <2>. QED
    BY <2>2, <2>3 DEF Without
<1>10. /\ Len(RemoveAt(s, L + 1)) = Len(s) - 1
       /\ \A n \in 1..(Len(s) - 1) : RemoveAt(s, L + 1)[n] = IF n < L + 1 THEN s[n] ELSE s[n + 1]
  BY <1>7, RemovedAt
<1>11. Subtree(m.kids, x) = {x}
  BY <1>2, <1>5, <1>6, LeafSubtree
<1>. HIDE DEF x
<1>12. /\ r \in MainStates /\ r.ids = m.ids \ {x} /\ r.errors = m.errors /\ r.value = m.value
       /\ r.kids = [m.kids EXCEPT ![Root] = Without(m.kids[Root], x)]
  <2>1. r = ApplyOp(m, RemoveChild(Root, x)) /\ x \in Elements(m.kids[Root])
    BY <1>9 DEF x, s
  <2>. QED
    BY <1>5, <1>6, <1>11, <2>1, ApplyRemove
<1>13. m.kids \in [MainIds -> Seq(MainIds)] /\ Root \in MainIds
  BY <1>5, StateFacts, IdFacts
<1>14. r.kids[Root] = RemoveAt(s, L + 1) /\ \A y \in MainIds : y # Root => r.kids[y] = m.kids[y]
  BY <1>9, <1>12, <1>13 DEF s
<1>15. Holding(r, D)
  <2>1. \A y \in D : r.kids[Adopted[y]] = m.kids[Adopted[y]]
    BY <1>4, <1>14
  <2>. QED
    BY <1>5, <1>12, <2>1 DEF Holding
<1>16. r.ids = {Root} \cup {-q : q \in {p \in 1..FirstScreen : p <= L \/ p > L + (j + 1)}}
               \cup Image(Adopted, D)
  <2>. DEFINE U == {-q : q \in {p \in 1..FirstScreen : p <= L \/ p > L + j}}
              V == {-q : q \in {p \in 1..FirstScreen : p <= L \/ p > L + (j + 1)}}
  <2>1. U \ {x} = V
    <3>1. \A p \in 1..FirstScreen :
            (p <= L \/ p > L + (j + 1)) <=> ((p <= L \/ p > L + j) /\ -p # x)
      BY <1>1, <1>2 DEF x
    <3>. QED
      BY <3>1
  <2>2. x \notin Image(Adopted, D)
    BY <1>4 DEF Image
  <2>3. m.ids = {Root} \cup U \cup Image(Adopted, D)
    BY <1>5
  <2>. HIDE DEF U, V
  <2>4. r.ids = {Root} \cup V \cup Image(Adopted, D)
    BY <1>2, <1>12, <2>1, <2>2, <2>3
  <2>. QED
    BY <2>4 DEF V
<1>17. Len(r.kids[Root]) = FirstScreen - (j + 1)
  <2>1. Len(r.kids[Root]) = Len(s) - 1 /\ Len(s) = FirstScreen - j
    BY <1>5, <1>10, <1>14
  <2>. QED
    BY <1>1, <2>1
<1>18. ASSUME NEW q \in 1..(FirstScreen - (j + 1))
       PROVE  r.kids[Root][q] = IF q <= L THEN -q ELSE -(q + (j + 1))
  <2>1. q \in 1..(Len(s) - 1) /\ q \in 1..(FirstScreen - j) /\ q + 1 \in 1..(FirstScreen - j)
    BY <1>1, <1>5
  <2>2. r.kids[Root][q] = IF q < L + 1 THEN s[q] ELSE s[q + 1]
    BY <1>10, <1>14, <2>1
  <2>3. CASE q <= L
    BY <1>1, <1>5, <2>1, <2>2, <2>3
  <2>4. CASE ~(q <= L)
    <3>1. r.kids[Root][q] = s[q + 1] /\ ~(q + 1 <= L)
      BY <1>1, <2>2, <2>4
    <3>2. s[q + 1] = -((q + 1) + j)
      BY <1>5, <2>1, <3>1
    <3>. QED
      BY <1>1, <2>4, <3>1, <3>2
  <2>. QED
    BY <2>3, <2>4
<1>19. ASSUME NEW q \in 1..FirstScreen, q > L + (j + 1) PROVE r.kids[-q] = <<>>
  <2>1. q > L + j /\ -q \in MainIds /\ -q # Root
    BY <1>1, <1>19, FirstNames
  <2>. QED
    BY <1>5, <1>14, <2>1
<1>. QED
  BY <1>15, <1>16, <1>17, <1>18, <1>19 DEF Left, D

\* The operations at the end of the hydration, and all of them.
LeftoverOps ==
  [i \in 1..(FirstScreen - Cardinality(Matched)) |->
     RemoveChild(Root, -(Cardinality(Matched) + i))]

LEMMA MatchedCount ==
  ASSUME Background
  PROVE  /\ TopCount < FirstScreen => Cardinality(Matched) = TopCount
         /\ TopCount >= FirstScreen => Cardinality(Matched) = FirstScreen
<1>1. TopCount \in Nat /\ FirstScreen \in Nat
  BY TopFacts, ConstantsAssumption
<1>2. \A n \in Nat : Cardinality(1..n) = n
  <2>1. \A n \in Nat : Cardinality(1..n) = IF 1 > n THEN 0 ELSE n - 1 + 1
    BY FS_Interval
  <2>. QED
    BY <2>1
<1>. QED
  BY <1>1, <1>2 DEF Matched

LEMMA LeftoverOpsType ==
  ASSUME Background
  PROVE  LeftoverOps \in Seq(Ops)
<1>. DEFINE N == Cardinality(Matched)
<1>1. N \in Nat /\ N <= FirstScreen /\ FirstScreen \in Nat
  BY MatchedCount, TopFacts, ConstantsAssumption
<1>. HIDE DEF N
<1>2. \A i \in 1..(FirstScreen - N) : RemoveChild(Root, -(N + i)) \in Ops
  <2>1. \A i \in 1..(FirstScreen - N) : N + i \in 1..FirstScreen
    BY <1>1
  <2>. QED
    BY <2>1, FirstNames, IdFacts, OpFacts
<1>3. FirstScreen - N \in Nat
  BY <1>1
<1>4. [i \in 1..(FirstScreen - N) |-> RemoveChild(Root, -(N + i))] \in Seq(Ops)
  BY <1>2, <1>3
<1>. QED
  BY <1>4 DEF LeftoverOps, N

\* Without them: what the hydration makes of the first screen when elements are left over.
LEMMA LeftAll ==
  ASSUME Unhydrated, TopCount < FirstScreen, NEW m, Half(m, TopCount), NEW r,
         r = snapshotPatchApply(m, LeftoverOps)
  PROVE  Left(r, FirstScreen - TopCount)
<1>. DEFINE L == TopCount
            K == FirstScreen - L
            s == LeftoverOps
<1>1. Background /\ L \in Nat /\ FirstScreen \in Nat /\ K \in Nat
  BY TopFacts, ConstantsAssumption DEF Unhydrated
<1>2. Cardinality(Matched) = L
  BY <1>1, MatchedCount
<1>3. Len(s) = K /\ \A i \in 1..K : s[i] = RemoveChild(Root, -(L + i))
  BY <1>1, <1>2 DEF LeftoverOps
<1>. HIDE DEF s, K
<1>4. PICK g : Run(m, s, g) /\ r = g[K]
  BY <1>1, <1>3, RunThere DEF s
<1>5. g[0] = m /\ \A i \in 1..K : g[i] = ApplyOp(g[i - 1], s[i])
  BY <1>3, <1>4 DEF Run
<1>. DEFINE S == {i \in 0..K : Left(g[i], i)}
<1>6. 0 \in S
  <2>1. m.ids = {Root} \cup {-q : q \in {p \in 1..FirstScreen : p <= L \/ p > L + 0}}
                \cup Image(Adopted, Above(L))
    <3>1. {p \in 1..FirstScreen : p <= L \/ p > L + 0} = 1..FirstScreen
      BY <1>1
    <3>. QED
      BY <3>1 DEF Half, FirstIds
  <2>2. Len(m.kids[Root]) = FirstScreen - 0
    BY <1>1 DEF Half
  <2>3. \A q \in 1..(FirstScreen - 0) : m.kids[Root][q] = IF q <= L THEN -q ELSE -(q + 0)
    BY <1>1, <2>2 DEF Half
  <2>4. \A q \in 1..FirstScreen : q > L + 0 => m.kids[-q] = <<>>
    BY <1>1 DEF Half
  <2>5. Left(m, 0)
    BY <2>1, <2>2, <2>3, <2>4 DEF Left, Half
  <2>. QED
    BY <1>1, <1>5, <2>5
<1>7. ASSUME NEW i \in 0..K, i + 1 <= K, i \in S PROVE i + 1 \in S
  <2>1. i + 1 \in 1..K /\ i + 1 \in 0..K /\ (i + 1) - 1 = i
    BY <1>1, <1>7
  <2>2. g[i + 1] = ApplyOp(g[i], RemoveChild(Root, -(L + (i + 1))))
    BY <1>3, <1>5, <2>1
  <2>3. Left(g[i], i)
    BY <1>7
  <2>. HIDE DEF S
  <2>4. Left(g[i + 1], i + 1)
    BY <1>7, <2>2, <2>3, RemoveStep DEF K, L
  <2>. QED
    BY <2>1, <2>4 DEF S
<1>8. K \in S
  <2>. HIDE DEF S
  <2>1. K \in 0..K
    BY <1>1
  <2>. QED
    BY <1>1, <1>6, <1>7, <2>1, UpTo
<1>. QED
  BY <1>4, <1>8 DEF K

\* What is held when the hydration is done is what the background thread has.
LEMMA HoldingShows ==
  ASSUME Unhydrated, NEW m, Holding(m, Above(TopCount)),
         m.ids = {Root} \cup Image(Adopted, Above(TopCount)),
         Len(m.kids[Root]) = TopCount, \A q \in 1..TopCount : m.kids[Root][q] = Adopted[Top(q)]
  PROVE  Shows(m, Adopted, kids, Worth(value), Subtree(kids, Root)) /\ m.errors = 0
<1>. DEFINE D == Above(TopCount)
<1>1. Background /\ Subtree(kids, Root) = {Root} \cup D /\ D \subseteq Nodes
  BY AboveNodes DEF Unhydrated
<1>2. Adopted[Root] = Root /\ Root \in Places /\ Root \notin Nodes
  BY AdoptedFacts, NodeFacts DEF Renaming, Places
<1>3. m.ids = Image(Adopted, {Root} \cup D)
  BY <1>2 DEF Image
<1>4. m.kids[Root] = Renamed(Adopted, kids[Root])
  <2>1. m.kids[Root] \in Seq(MainIds)
    BY StateFacts, IdFacts DEF Holding
  <2>2. kids[Root] \in Seq(Nodes) /\ DOMAIN kids[Root] = 1..TopCount
    BY <1>1, TopFacts DEF TopCount
  <2>. DEFINE z == m.kids[Root]
  <2>3. z = [q \in 1..TopCount |-> z[q]]
    BY <2>1
  <2>4. \A q \in 1..TopCount : z[q] = Adopted[kids[Root][q]]
    BY DEF Top
  <2>. HIDE DEF z
  <2>5. z = [q \in 1..TopCount |-> Adopted[kids[Root][q]]]
    BY <2>3, <2>4
  <2>. QED
    BY <2>2, <2>5 DEF Renamed, z
<1>5. m.value[Root] = Worth(value)[Root]
  BY <1>2 DEF Worth, Holding
<1>6. ASSUME NEW y \in D
      PROVE  m.kids[Adopted[y]] = Renamed(Adopted, kids[y])
             /\ m.value[Adopted[y]] = Worth(value)[y]
  <2>1. y \in Nodes /\ Worth(value)[y] = value[y]
    BY <1>1, <1>2 DEF Worth, Places
  <2>2. Renamed(Adopted, kids[y]) = Renamed(id, kids[y])
    BY <2>1, AdoptedFacts
  <2>. QED
    BY <2>1, <2>2 DEF Holding
<1>7. \A y \in {Root} \cup D : m.kids[Adopted[y]] = Renamed(Adopted, kids[y])
                              /\ m.value[Adopted[y]] = Worth(value)[y]
  BY <1>2, <1>4, <1>5, <1>6
<1>. HIDE DEF D
<1>8. Shows(m, Adopted, kids, Worth(value), {Root} \cup D)
  BY <1>3, <1>7 DEF Shows, Holding
<1>. QED
  BY <1>1, <1>8 DEF Holding

LEMMA HydrateShows ==
  ASSUME Unhydrated, NEW r,
         r = snapshotPatchApply(FirstMain, FlattenSeq(HydrateOps) \o LeftoverOps)
  PROVE  Shows(r, Adopted, kids, Worth(value), Subtree(kids, Root)) /\ r.errors = 0
<1>. DEFINE u == FlattenSeq(HydrateOps)
            v == LeftoverOps
            m == snapshotPatchApply(FirstMain, u)
            L == TopCount
            D == Above(L)
<1>1. Background /\ L \in Nat /\ FirstScreen \in Nat
  BY TopFacts, ConstantsAssumption DEF Unhydrated
<1>2. u \in Seq(Ops) /\ v \in Seq(Ops)
  <2>. DEFINE ss == HydrateOps
  <2>1. ss \in Seq(Seq(Ops))
    BY <1>1, HydrateOpsType
  <2>. HIDE DEF ss
  <2>2. PICK f : Flattening(ss, f)
    BY <2>1, FlatteningThere
  <2>3. FlattenSeq(ss) \in Seq(Ops)
    BY <2>1, <2>2, FlattenIs
  <2>. QED
    BY <1>1, <2>3, LeftoverOpsType DEF ss
<1>3. Half(m, L)
  BY HalfAll
<1>4. r = snapshotPatchApply(m, v)
  <2>. HIDE DEF u, v
  <2>1. r = snapshotPatchApply(FirstMain, u \o v)
    BY DEF u, v
  <2>. QED
    BY <1>2, <2>1, ApplyConcat
<1>. HIDE DEF m, u, v
<1>5. \A i \in 1..L : i <= FirstScreen => Adopted[Top(i)] = -i
  <2>1. \A i \in 1..L : i <= FirstScreen => i \in Matched
    BY <1>1 DEF Matched
  <2>. QED
    BY <2>1, AdoptedFacts
<1>6. \A i \in 1..L : i <= FirstScreen => -i \in Image(Adopted, D)
  <2>1. \A i \in 1..L : Top(i) \in D
    BY <1>1, AboveNodes
  <2>2. \A i \in 1..L : Adopted[Top(i)] \in Image(Adopted, D)
    BY <2>1 DEF Image
  <2>. QED
    BY <1>5, <2>2
<1>7. CASE L < FirstScreen
  <2>1. Left(r, FirstScreen - L)
    BY <1>3, <1>4, <1>7, LeftAll DEF v
  <2>2. Holding(r, D) /\ Len(r.kids[Root]) = L
    BY <1>1, <2>1 DEF Left
  <2>3. r.ids = {Root} \cup Image(Adopted, D)
    <3>1. \A p \in 1..FirstScreen : (p <= L \/ p > L + (FirstScreen - L)) => p \in 1..L
      BY <1>1
    <3>2. {-q : q \in {p \in 1..FirstScreen : p <= L \/ p > L + (FirstScreen - L)}}
            \subseteq Image(Adopted, D)
      BY <1>6, <3>1
    <3>. QED
      BY <2>1, <3>2 DEF Left
  <2>4. \A q \in 1..L : r.kids[Root][q] = Adopted[Top(q)]
    <3>1. \A q \in 1..L : q \in 1..(FirstScreen - (FirstScreen - L)) /\ q <= L /\ q <= FirstScreen
      BY <1>1, <1>7
    <3>2. \A q \in 1..L : r.kids[Root][q] = -q
      BY <2>1, <3>1 DEF Left
    <3>. QED
      BY <1>5, <3>1, <3>2
  <2>. QED
    BY <2>2, <2>3, <2>4, HoldingShows
<1>8. CASE L >= FirstScreen
  <2>1. v = <<>>
    <3>1. FirstScreen - Cardinality(Matched) = 0
      BY <1>1, <1>8, MatchedCount
    <3>2. 1..(FirstScreen - Cardinality(Matched)) = {}
      BY <3>1
    <3>. QED
      BY <3>2 DEF v, LeftoverOps
  <2>2. r = m
    BY <1>4, <2>1, ApplyNone
  <2>3. Holding(r, D) /\ Len(r.kids[Root]) = L
    <3>1. ~(L < FirstScreen)
      BY <1>1, <1>8
    <3>. QED
      BY <1>3, <2>2, <3>1 DEF Half
  <2>4. r.ids = {Root} \cup Image(Adopted, D)
    <3>1. FirstIds \subseteq Image(Adopted, D)
      <4>1. \A i \in 1..FirstScreen : i \in 1..L /\ i <= FirstScreen
        BY <1>1, <1>8
      <4>. QED
        BY <1>6, <4>1 DEF FirstIds
    <3>. QED
      BY <1>3, <2>2, <3>1 DEF Half
  <2>5. \A q \in 1..L : r.kids[Root][q] = Adopted[Top(q)]
    BY <1>3, <1>5, <2>2, <2>3 DEF Half
  <2>. QED
    BY <2>3, <2>4, <2>5, HoldingShows
<1>. QED
  BY <1>1, <1>7, <1>8

-----------------------------------------------------------------------------
(* The invariant *)

Message == [commit : 1..MaxCommits, ops : Seq(Ops), hydration : BOOLEAN]
Ack == [commit : 1..MaxCommits, hydration : BOOLEAN]

\* What there is, what of it is not below a removed instance, and what was removed for good.
Held == {Root} \cup 1..nextId
Live == {Root} \cup ((1..nextId) \ Detached)
Lost == removed \ suspended
GoneIds == {id[n] : n \in Lost}

\* An instance that does not exist yet has no children, no value and its own id.
Numbers ==
  /\ nextId \in 0..MaxNodes
  /\ \A n \in Places : Elements(kids[n]) \subseteq 1..nextId
  /\ \A n \in Nodes : n > nextId => kids[n] = <<>> /\ value[n] = Unset /\ id[n] = n

\* A removed instance has no parent.
Removals ==
  /\ suspended \subseteq removed /\ removed \subseteq 1..nextId /\ registry \subseteq 1..nextId
  /\ \A n \in removed : Parentless(kids, n)

Trunk == Background /\ Numbers /\ Removals

Channels ==
  /\ patch \in Seq(Ops) /\ toMain \in Seq(Message) /\ acks \in Seq(Ack) /\ main \in MainStates
  /\ toRemove \in Seq(MainIds) /\ tasks \in [1..MaxCommits -> SUBSET MainIds]
  /\ commits \in 0..MaxCommits /\ (rendering => commits < MaxCommits)
  /\ rendering \in BOOLEAN /\ patching \in BOOLEAN /\ changesAway \in Nat

\* What waits to be freed, or has been, was removed for good.
Tables ==
  /\ (1..nextId) \ registry \subseteq Gone
  /\ Elements(toRemove) \subseteq GoneIds
  /\ \A c \in 1..MaxCommits : tasks[c] \subseteq GoneIds
  /\ \A t \in timers : t \subseteq GoneIds

\* Between renders everything is in the tree; before hydration nothing has been sent.
Phases ==
  /\ ~rendering => \A n \in Nodes : ~Fresh(n)
  /\ ~patching => main = FirstMain /\ toMain = <<>> /\ patch = <<>> /\ id = [n \in Nodes |-> n]

\* The main thread has the instances of D, and each as the background thread has it.  They are
\* those that are not removed and, when what Suspense keeps was changed, what is left of it.
Follows(m, D) ==
  /\ Live \subseteq D /\ D \subseteq Held /\ Closed(kids, D) /\ (changesAway = 0 => D = Live)
  /\ Shows(m, Naming(id), kids, Worth(value), D)

InStep ==
  /\ Caught.errors <= changesAway
  /\ patching => \E D \in SUBSET Places : Follows(Caught, D)

IInv == Trunk /\ Channels /\ Tables /\ Phases /\ InStep

-----------------------------------------------------------------------------
(* What follows of the tree *)

LEMMA TrunkFacts ==
  ASSUME Trunk
  PROVE  /\ Tree(kids) /\ nextId \in Nat /\ 1..nextId \subseteq Nodes /\ removed \subseteq Nodes
         /\ Detached \subseteq 1..nextId /\ removed \subseteq Detached
         /\ Attached \subseteq Live /\ Attached \cap Detached = {} /\ Root \in Attached
         /\ Live \subseteq Places /\ Closed(kids, Live) /\ Root \in Live
         /\ Gone \subseteq Detached
         /\ \A x \in Live : x \notin Detached
         /\ Held \subseteq Places /\ Live \subseteq Held /\ Root \notin Gone
         /\ \A x \in Held : x \notin Live => x \in Detached
<1>1. /\ Tree(kids) /\ nextId \in Nat /\ 1..nextId \subseteq Nodes /\ removed \subseteq 1..nextId
      /\ \A n \in removed : Parentless(kids, n)
      /\ \A n \in Places : Elements(kids[n]) \subseteq 1..nextId
  <2>1. nextId \in Nat /\ 1..nextId \subseteq Nodes
    BY ConstantsAssumption DEF Trunk, Numbers, Nodes
  <2>. QED
    BY <2>1 DEF Trunk, Background, Numbers, Removals
<1>2. DOMAIN kids = Places /\ \A x \in Places : IsSubtree(kids, x, Subtree(kids, x))
  BY <1>1, TreeFacts
<1>3. Parentless(kids, Root) /\ Root \in Places /\ Root \notin Nodes
  BY <1>1, TreeFacts, NodeFacts DEF Places
<1>4. Closed(kids, 1..nextId) /\ Closed(kids, {Root} \cup 1..nextId)
  BY <1>1, <1>2 DEF Closed, Places
<1>5. Detached \subseteq 1..nextId
  <2>1. \A n \in removed : Subtree(kids, n) \subseteq 1..nextId
    <3>1. SUFFICES ASSUME NEW n \in removed PROVE Subtree(kids, n) \subseteq 1..nextId
      OBVIOUS
    <3>2. n \in 1..nextId /\ IsSubtree(kids, n, Subtree(kids, n))
      BY <1>1, <1>2 DEF Places
    <3>. QED
      BY <1>4, <3>2 DEF IsSubtree, Closed
  <2>. QED
    BY <2>1 DEF Detached
<1>6. removed \subseteq Detached
  <2>1. \A n \in removed : n \in Subtree(kids, n)
    BY <1>1, <1>2 DEF Places, IsSubtree
  <2>. QED
    BY <2>1 DEF Detached
<1>7. Attached \subseteq {Root} \cup 1..nextId /\ Root \in Attached
  <2>1. IsSubtree(kids, Root, Subtree(kids, Root))
    BY <1>2, <1>3
  <2>. QED
    BY <1>4, <2>1 DEF IsSubtree, Closed, Attached
<1>8. Attached \cap Detached = {}
  <2>1. ASSUME NEW n \in removed PROVE Subtree(kids, Root) \cap Subtree(kids, n) = {}
    <3>1. n \in Places /\ n # Root /\ Parentless(kids, n)
      BY <1>1, <1>3 DEF Places
    <3>. QED
      BY <1>1, <1>3, <3>1, ParentlessDisjoint
  <2>. QED
    BY <2>1 DEF Attached, Detached
<1>9. Root \notin Detached
  BY <1>1, <1>3, <1>5
<1>10. \A x \in Live : x \notin Detached
  BY <1>9 DEF Live
<1>11. Closed(kids, Live)
  <2>1. SUFFICES ASSUME NEW x \in Live, NEW c \in Elements(kids[x]) PROVE c \in Live
    BY <1>1, <1>2 DEF Closed, Live, Places
  <2>2. x \in Places /\ c \in 1..nextId
    BY <1>1 DEF Live, Places
  <2>3. ASSUME c \in Detached PROVE FALSE
    <3>1. PICK n \in removed : c \in Subtree(kids, n)
      BY <2>3 DEF Detached
    <3>2. c # n /\ n \in Places
      BY <1>1, <2>2 DEF Parentless, Places
    <3>3. x \in Subtree(kids, n)
      BY <1>1, <2>2, <3>1, <3>2, ParentIn
    <3>. QED
      BY <1>10, <3>3 DEF Detached
  <2>. QED
    BY <2>2, <2>3 DEF Live
<1>12. Attached \subseteq Live /\ Live \subseteq Places /\ Root \in Live
  BY <1>1, <1>7, <1>8 DEF Live, Places
<1>13. Gone \subseteq Detached
  BY DEF Gone, Detached
<1>14. /\ Held \subseteq Places /\ Live \subseteq Held /\ Root \notin Gone
       /\ \A x \in Held : x \notin Live => x \in Detached
  BY <1>1, <1>9, <1>13 DEF Held, Live, Places
<1>. QED
  BY <1>1, <1>5, <1>6, <1>7, <1>8, <1>10, <1>11, <1>12, <1>13, <1>14

\* The instances below a removed one stay when another place changes.
Apart(k, R, p) == \A n \in R : n \in Places /\ p \notin Subtree(k, n)

LEMMA StillRemoved ==
  ASSUME NEW k, Tree(k), NEW l, Tree(l), NEW p, OnlyAt(k, l, p), NEW R, Apart(k, R, p)
  PROVE  \A n \in R : Subtree(l, n) = Subtree(k, n)
BY SubtreeElsewhere DEF Apart

-----------------------------------------------------------------------------
(* What is on its way *)

OpsOf(q) == [i \in DOMAIN q |-> q[i].ops]

LEMMA OpsOfFacts ==
  ASSUME NEW q \in Seq(Message)
  PROVE  /\ OpsOf(q) \in Seq(Seq(Ops)) /\ FlattenSeq(OpsOf(q)) \in Seq(Ops)
         /\ \A x \in Message : OpsOf(Append(q, x)) = Append(OpsOf(q), x.ops)
         /\ q # <<>> => /\ Tail(q) \in Seq(Message) /\ Head(q) \in Message
                        /\ FlattenSeq(OpsOf(q)) = Head(q).ops \o FlattenSeq(OpsOf(Tail(q)))
<1>1. OpsOf(q) \in Seq(Seq(Ops)) /\ Len(OpsOf(q)) = Len(q) /\ \A i \in 1..Len(q) : OpsOf(q)[i] = q[i].ops
  <2>1. \A i \in 1..Len(q) : q[i] \in Message /\ q[i].ops \in Seq(Ops)
    <3>1. \A x \in Message : x.ops \in Seq(Ops)
      BY DEF Message
    <3>. QED
      BY <3>1
  <2>2. Len(q) \in Nat /\ DOMAIN q = 1..Len(q)
    OBVIOUS
  <2>. DEFINE S == Seq(Ops)
  <2>. HIDE DEF S
  <2>3. \A i \in 1..Len(q) : q[i].ops \in S
    BY <2>1 DEF S
  <2>4. OpsOf(q) = [i \in 1..Len(q) |-> q[i].ops]
    BY <2>2 DEF OpsOf
  <2>5. OpsOf(q) \in Seq(S)
    BY <2>2, <2>3, <2>4
  <2>. QED
    BY <2>2, <2>4, <2>5 DEF S
<1>2. FlattenSeq(OpsOf(q)) \in Seq(Ops)
  <2>. DEFINE ss == OpsOf(q)
  <2>1. ss \in Seq(Seq(Ops))
    BY <1>1
  <2>. HIDE DEF ss
  <2>2. PICK f : Flattening(ss, f)
    BY <2>1, FlatteningThere
  <2>3. FlattenSeq(ss) \in Seq(Ops)
    BY <2>1, <2>2, FlattenIs
  <2>. QED
    BY <2>3 DEF ss
<1>3. ASSUME NEW x \in Message PROVE OpsOf(Append(q, x)) = Append(OpsOf(q), x.ops)
  <2>. DEFINE s == Append(q, x)
              a == OpsOf(q)
              b == Append(a, x.ops)
  <2>1. /\ DOMAIN s = 1..(Len(q) + 1) /\ s[Len(q) + 1] = x
        /\ \A i \in 1..Len(q) : s[i] = q[i]
    OBVIOUS
  <2>2. x.ops \in Seq(Ops)
    BY DEF Message
  <2>3. a \in Seq(Seq(Ops)) /\ Len(a) = Len(q)
    BY <1>1
  <2>4. /\ b = [i \in 1..(Len(q) + 1) |-> b[i]] /\ b[Len(q) + 1] = x.ops
        /\ \A i \in 1..Len(q) : b[i] = a[i]
    <3>. HIDE DEF a
    <3>. QED
      BY <2>2, <2>3
  <2>5. Len(q) \in Nat /\ \A i \in 1..(Len(q) + 1) : i \in 1..Len(q) \/ i = Len(q) + 1
    OBVIOUS
  <2>6. \A i \in 1..(Len(q) + 1) : b[i] = s[i].ops
    <3>1. \A i \in 1..Len(q) : a[i] = q[i].ops
      BY <1>1
    <3>. HIDE DEF a, b, s
    <3>. QED
      BY <2>1, <2>4, <2>5, <3>1
  <2>. HIDE DEF b, s
  <2>7. b = [i \in DOMAIN s |-> s[i].ops]
    BY <2>1, <2>4, <2>6
  <2>. QED
    BY <2>7 DEF OpsOf, b, s, a
<1>4. ASSUME q # <<>>
      PROVE  /\ Tail(q) \in Seq(Message) /\ Head(q) \in Message
             /\ FlattenSeq(OpsOf(q)) = Head(q).ops \o FlattenSeq(OpsOf(Tail(q)))
  <2>. DEFINE a == OpsOf(q)
              t == Tail(q)
              h == Head(q)
  <2>1. /\ t \in Seq(Message) /\ h \in Message /\ h = q[1] /\ Len(q) \in Nat /\ Len(q) >= 1
        /\ DOMAIN t = 1..(Len(q) - 1) /\ \A i \in 1..(Len(q) - 1) : t[i] = q[i + 1]
    BY <1>4
  <2>2. a \in Seq(Seq(Ops)) /\ Len(a) = Len(q) /\ \A i \in 1..Len(q) : a[i] = q[i].ops
    BY <1>1
  <2>. HIDE DEF a, t, h
  <2>3. a # <<>> /\ Head(a) = h.ops
    BY <2>1, <2>2
  <2>4. Tail(a) = [i \in DOMAIN t |-> t[i].ops]
    <3>1. /\ Tail(a) = [i \in 1..(Len(q) - 1) |-> Tail(a)[i]]
          /\ \A i \in 1..(Len(q) - 1) : Tail(a)[i] = a[i + 1]
      <4>. DEFINE S == Seq(Ops)
      <4>1. a \in Seq(S)
        BY <2>2
      <4>. HIDE DEF S
      <4>2. Tail(a) \in Seq(S) /\ Len(Tail(a)) = Len(q) - 1
        BY <2>1, <2>2, <2>3, <4>1
      <4>3. \A i \in 1..(Len(q) - 1) : Tail(a)[i] = a[i + 1]
        BY <2>1, <2>2, <2>3, <4>1
      <4>. DEFINE b == Tail(a)
      <4>. HIDE DEF b
      <4>4. b \in Seq(S)
        BY <4>2 DEF b
      <4>5. b = [i \in 1..Len(b) |-> b[i]]
        BY <4>4
      <4>. QED
        BY <4>2, <4>3, <4>5 DEF b
    <3>2. \A i \in 1..(Len(q) - 1) : i + 1 \in 1..Len(q)
      BY <2>1
    <3>3. \A i \in 1..(Len(q) - 1) : Tail(a)[i] = t[i].ops
      BY <2>1, <2>2, <3>1, <3>2
    <3>. QED
      BY <2>1, <3>1, <3>3
  <2>5. FlattenSeq(a) = Head(a) \o FlattenSeq(Tail(a))
    BY <2>2, <2>3, FlattenHead
  <2>6. Tail(a) = OpsOf(t)
    BY <2>4 DEF OpsOf
  <2>7. FlattenSeq(a) = h.ops \o FlattenSeq(OpsOf(t))
    BY <2>3, <2>5, <2>6
  <2>. QED
    BY <2>1, <2>7 DEF a, t, h
<1>. QED
  BY <1>1, <1>2, <1>3, <1>4

-----------------------------------------------------------------------------
(* The steps of the renderer *)

LEMMA InFlightType ==
  ASSUME Channels
  PROVE  /\ InFlight = FlattenSeq(OpsOf(toMain)) \o patch
         /\ FlattenSeq(OpsOf(toMain)) \in Seq(Ops) /\ patch \in Seq(Ops) /\ InFlight \in Seq(Ops)
         /\ Caught \in MainStates
<1>1. InFlight = FlattenSeq(OpsOf(toMain)) \o patch
  BY DEF InFlight, OpsOf
<1>2. FlattenSeq(OpsOf(toMain)) \in Seq(Ops) /\ patch \in Seq(Ops)
  <2>1. toMain \in Seq(Message) /\ patch \in Seq(Ops)
    BY DEF Channels
  <2>. QED
    BY <2>1, OpsOfFacts
<1>. DEFINE u == FlattenSeq(OpsOf(toMain))
<1>. HIDE DEF u
<1>3. u \o patch \in Seq(Ops)
  BY <1>2 DEF u
<1>4. InFlight \in Seq(Ops)
  BY <1>1, <1>3 DEF u
<1>5. Caught \in MainStates
  BY <1>4, ApplyType DEF Caught, Channels
<1>. QED
  BY <1>1, <1>2, <1>4, <1>5

\* What is pushed is applied behind what is on its way.
LEMMA Pushed ==
  ASSUME Channels, NEW s \in Seq(Ops), patch' = patch \o s, UNCHANGED <<toMain, main>>
  PROVE  Caught' = snapshotPatchApply(Caught, s)
<1>. DEFINE u == FlattenSeq(OpsOf(toMain))
<1>1. /\ u \in Seq(Ops) /\ patch \in Seq(Ops) /\ InFlight \in Seq(Ops)
      /\ InFlight = u \o patch
  BY InFlightType
<1>2. InFlight' = u \o (patch \o s)
  BY DEF InFlight, OpsOf
<1>. HIDE DEF u
<1>3. u \o (patch \o s) = (u \o patch) \o s
  BY <1>1
<1>4. InFlight' = InFlight \o s
  BY <1>1, <1>2, <1>3
<1>5. Caught' = snapshotPatchApply(main, InFlight')
  BY DEF Caught
<1>. DEFINE v == InFlight
<1>6. snapshotPatchApply(main, v \o s) = snapshotPatchApply(snapshotPatchApply(main, v), s)
  <2>1. v \in Seq(Ops)
    BY <1>1
  <2>. HIDE DEF v
  <2>. QED
    BY <2>1, ApplyConcat
<1>. QED
  BY <1>4, <1>5, <1>6 DEF Caught

\* The tree is followed when the operations of a step have been applied.
Reached(r, D) ==
  /\ Live' \subseteq D /\ D \subseteq Held' /\ Closed(kids', D) /\ (changesAway' = 0 => D = Live')
  /\ Shows(r, Naming(id'), kids', Worth(value'), D) /\ r.errors <= changesAway'

\* What every step of the renderer does.
LEMMA Rendered ==
  ASSUME IInv, RenderOnly, NEW s \in Seq(Ops), push(s), patching' = patching, id' = id,
         toRemove' \in Seq(MainIds), changesAway' \in Nat, changesAway' >= changesAway,
         patching => \E D \in SUBSET Places : Reached(snapshotPatchApply(Caught, s), D)
  PROVE  Channels' /\ Phases' /\ InStep'
<1>1. Channels /\ Phases
  BY DEF IInv
<1>2. /\ rendering' = TRUE /\ commits < MaxCommits
      /\ UNCHANGED <<tasks, timers, toMain, acks, main, commits>>
  BY <1>1, ConstantsAssumption DEF RenderOnly, Render, Channels
<1>3. patch' \in Seq(Ops) /\ (patching => patch' = patch \o s) /\ (~patching => patch' = patch)
  <2>1. patch \in Seq(Ops) /\ patch \o s \in Seq(Ops)
    BY <1>1 DEF Channels
  <2>. QED
    BY <2>1 DEF push
<1>4. Channels'
  BY <1>1, <1>2, <1>3 DEF Channels
<1>5. Phases'
  BY <1>1, <1>2, <1>3 DEF Phases
<1>6. ASSUME patching PROVE InStep'
  <2>1. Caught' = snapshotPatchApply(Caught, s)
    BY <1>1, <1>2, <1>3, <1>6, Pushed
  <2>2. PICK D \in SUBSET Places : Reached(Caught', D)
    BY <1>6, <2>1
  <2>3. Caught'.errors <= changesAway'
    BY <2>2 DEF Reached
  <2>. QED
    BY <2>2, <2>3 DEF InStep, Reached, Follows
<1>7. ASSUME ~patching PROVE InStep'
  <2>1. InFlight' = InFlight
    BY <1>2, <1>3, <1>7 DEF InFlight
  <2>2. Caught' = Caught
    BY <1>2, <2>1 DEF Caught
  <2>3. Caught \in MainStates
    BY <1>1, InFlightType
  <2>4. Caught.errors <= changesAway /\ Caught.errors \in Nat /\ changesAway \in Nat
    BY <1>1, <2>3, StateFacts DEF IInv, InStep, Channels
  <2>5. Caught'.errors <= changesAway'
    BY <2>2, <2>4
  <2>. QED
    BY <1>7, <2>5 DEF InStep
<1>. QED
  BY <1>4, <1>5, <1>6, <1>7

\* What the renderer may change, and how that is counted.
LEMMA MayChangeFacts ==
  ASSUME Trunk, Channels, NEW p \in Places, MayChange(p), Changed(p)
  PROVE  /\ p \in Held /\ p \notin Gone /\ (p \notin Live => p \in Detached)
         /\ changesAway' \in Nat /\ changesAway' >= changesAway
         /\ patching /\ p \notin Live => changesAway' = changesAway + 1
         /\ patching /\ changesAway' = 0 => changesAway = 0 /\ p \in Live
<1>1. p \in Held /\ p \notin Gone
  <2>1. Root \notin Gone /\ nextId \in Nat
    BY TrunkFacts
  <2>2. \A n \in Nodes : n <= nextId => n \in 1..nextId
    BY <2>1, ConstantsAssumption DEF Nodes
  <2>. QED
    BY <2>1, <2>2 DEF MayChange, Held, Places
<1>2. p \notin Live => p \in Detached
  BY <1>1, TrunkFacts
<1>3. changesAway \in Nat
  BY DEF Channels
<1>4. CASE patching /\ p \in Detached
  BY <1>1, <1>2, <1>3, <1>4 DEF Changed
<1>5. CASE ~(patching /\ p \in Detached)
  <2>1. changesAway' = changesAway
    BY <1>5 DEF Changed
  <2>. QED
    BY <1>1, <1>2, <1>3, <1>5, <2>1
<1>. QED
  BY <1>4, <1>5

\* What the background thread knows of the main thread before a step.
LEMMA FollowsFacts ==
  ASSUME IInv, patching
  PROVE  /\ \E D \in SUBSET Places : Follows(Caught, D)
         /\ Caught \in MainStates /\ Caught.errors \in Nat /\ changesAway \in Nat
         /\ Caught.errors <= changesAway
<1>1. Caught \in MainStates
  BY InFlightType DEF IInv
<1>. QED
  BY <1>1, StateFacts DEF IInv, InStep, Channels

LEMMA CreateKeeps ==
  ASSUME IInv, Create
  PROVE  IInv'
<1>. DEFINE n == nextId + 1
            s == <<CreateElement(n)>>
<1>1. /\ RenderOnly /\ nextId < MaxNodes /\ nextId' = n /\ registry' = registry \cup {n} /\ push(s)
      /\ UNCHANGED <<id, kids, value, removed, suspended, patching, toRemove, changesAway>>
  BY DEF Create
<1>2. Trunk /\ Channels /\ Tables /\ Background
  BY DEF IInv, Trunk
<1>3. /\ nextId \in Nat /\ nextId' \in 0..MaxNodes /\ n \in Nodes /\ n \in Places
      /\ 1..n = 1..nextId \cup {n} /\ n \notin 1..nextId /\ 1..nextId \subseteq Nodes
  BY <1>1, <1>2, ConstantsAssumption DEF Trunk, Numbers, Nodes, Places
<1>4. kids[n] = <<>> /\ value[n] = Unset /\ id[n] = n
  BY <1>2, <1>3 DEF Trunk, Numbers
<1>5. Trunk'
  <2>1. Background'
    BY <1>1, <1>2 DEF Background
  <2>2. Numbers'
    <3>1. \A m \in Places : Elements(kids[m]) \subseteq 1..nextId'
      BY <1>1, <1>2, <1>3 DEF Trunk, Numbers
    <3>2. \A m \in Nodes : m > nextId' => m > nextId
      BY <1>1, <1>3 DEF Nodes
    <3>. QED
      BY <1>1, <1>2, <1>3, <3>1, <3>2 DEF Trunk, Numbers
  <2>3. Removals'
    BY <1>1, <1>2, <1>3 DEF Trunk, Removals
  <2>. QED
    BY <2>1, <2>2, <2>3 DEF Trunk
<1>6. Tables'
  <2>1. Gone' = Gone /\ GoneIds' = GoneIds
    BY <1>1 DEF Gone, GoneIds, Lost
  <2>2. (1..nextId') \ registry' \subseteq (1..nextId) \ registry
    BY <1>1, <1>3
  <2>3. UNCHANGED <<toRemove, tasks, timers>>
    BY <1>1 DEF RenderOnly
  <2>. QED
    BY <1>2, <2>1, <2>2, <2>3 DEF Tables
<1>7. s \in Seq(Ops)
  <2>1. CreateElement(n) \in Ops
    BY <1>3, IdFacts, OpFacts
  <2>. QED
    BY <2>1
<1>8. toRemove' \in Seq(MainIds)
  BY <1>1, <1>2 DEF Channels
<1>9. ASSUME patching
      PROVE  \E D \in SUBSET Places : Reached(snapshotPatchApply(Caught, s), D)
  <2>. DEFINE f == Naming(id)
              w == Worth(value)
              r == snapshotPatchApply(Caught, s)
  <2>1. PICK D \in SUBSET Places : Follows(Caught, D)
    BY <1>9, FollowsFacts
  <2>2. Renaming(f) /\ f[n] = n
    BY <1>2, <1>3, <1>4, NamingFacts DEF Background
  <2>3. w[n] = Unset
    BY <1>3, <1>4, NodeFacts DEF Worth
  <2>4. n \notin Held /\ Held' = Held \cup {n} /\ Live' = Live \cup {n}
    <3>1. Detached' = Detached /\ Detached \subseteq 1..nextId
      BY <1>1, <1>2, TrunkFacts DEF Detached
    <3>2. n # Root
      BY <1>3, NodeFacts
    <3>. QED
      BY <1>1, <1>2, <1>3, <3>1, <3>2, TrunkFacts DEF Live, Held
  <2>5. r = ApplyOp(Caught, CreateElement(f[n]))
    BY <2>2, ApplyOne
  <2>. HIDE DEF f, w, n, r
  <2>6. /\ Live \subseteq D /\ D \subseteq Held /\ Closed(kids, D) /\ (changesAway = 0 => D = Live)
        /\ Shows(Caught, f, kids, w, D) /\ n \notin D
    BY <2>1, <2>4 DEF Follows, f, w
  <2>7. Shows(r, f, kids, w, D \cup {n}) /\ r.errors = Caught.errors
    <3>1. D \subseteq Places /\ kids[n] = <<>>
      BY <1>4 DEF n
    <3>2. CreatesIn(f, kids, D, Caught, w, n, r)
      BY <1>3, <2>2, <2>3, <2>5, <2>6, <3>1 DEF CreatesIn
    <3>. QED
      BY <3>2, ShowsCreate
  <2>8. Closed(kids, D \cup {n})
    <3>1. Elements(kids[n]) = {} /\ DOMAIN kids = Places
      BY <1>2, <1>4, TrunkFacts, TreeFacts DEF Elements
    <3>. QED
      BY <1>3, <2>6, <3>1 DEF Closed
  <2>9. Reached(r, D \cup {n})
    BY <1>1, <1>9, <2>4, <2>6, <2>7, <2>8, FollowsFacts DEF Reached, f, w
  <2>. QED
    BY <1>3, <2>9 DEF r
<1>10. Channels' /\ Phases' /\ InStep'
  <2>. HIDE DEF s
  <2>1. changesAway' \in Nat /\ changesAway' >= changesAway
    BY <1>1, <1>2 DEF Channels
  <2>. QED
    BY <1>1, <1>7, <1>8, <1>9, <2>1, Rendered
<1>. QED
  BY <1>5, <1>6, <1>10 DEF IInv

LEMMA setAttributeKeeps ==
  ASSUME IInv, NEW n \in Nodes, NEW v \in Values, setAttribute(n, v)
  PROVE  IInv'
<1>. DEFINE s == <<SetAttribute(id[n], v)>>
<1>1. /\ RenderOnly /\ MayChange(n) /\ Changed(n) /\ push(s)
      /\ value' = [value EXCEPT ![n] = v]
      /\ UNCHANGED <<nextId, id, kids, removed, suspended, registry, patching, toRemove>>
  BY DEF setAttribute
<1>2. Trunk /\ Channels /\ Tables /\ Background
  BY DEF IInv, Trunk
<1>11. /\ n \in Held /\ n \notin Gone /\ (n \notin Live => n \in Detached) /\ n \in Places
       /\ changesAway' \in Nat /\ changesAway' >= changesAway
       /\ patching /\ n \notin Live => changesAway' = changesAway + 1
       /\ patching /\ changesAway' = 0 => changesAway = 0 /\ n \in Live
  BY <1>1, <1>2, MayChangeFacts DEF Places
<1>3. v \in Int /\ value \in [Nodes -> Int] /\ id[n] \in MainIds /\ nextId \in Nat
  BY <1>2, ConstantsAssumption DEF Background, Trunk, Numbers
<1>4. Trunk'
  <2>1. Background'
    BY <1>1, <1>2, <1>3 DEF Background
  <2>2. Numbers'
    <3>1. \A m \in Nodes : m > nextId => value'[m] = value[m]
      BY <1>1, <1>3, <1>11, NodeFacts DEF Nodes, Held
    <3>. QED
      BY <1>1, <1>2, <3>1 DEF Trunk, Numbers
  <2>3. Removals'
    BY <1>1, <1>2 DEF Trunk, Removals
  <2>. QED
    BY <2>1, <2>2, <2>3 DEF Trunk
<1>5. Tables'
  <2>1. Gone' = Gone /\ GoneIds' = GoneIds
    BY <1>1 DEF Gone, GoneIds, Lost
  <2>2. UNCHANGED <<toRemove, tasks, timers>>
    BY <1>1 DEF RenderOnly
  <2>. QED
    BY <1>1, <1>2, <2>1, <2>2 DEF Tables
<1>6. s \in Seq(Ops)
  <2>1. SetAttribute(id[n], v) \in Ops
    BY <1>3, OpFacts
  <2>. QED
    BY <2>1
<1>7. toRemove' \in Seq(MainIds)
  BY <1>1, <1>2 DEF Channels
<1>8. ASSUME patching
      PROVE  \E D \in SUBSET Places : Reached(snapshotPatchApply(Caught, s), D)
  <2>. DEFINE f == Naming(id)
              w == Worth(value)
              u == Worth(value')
              r == snapshotPatchApply(Caught, s)
  <2>1. PICK D \in SUBSET Places : Follows(Caught, D)
    BY <1>8, FollowsFacts
  <2>2. Renaming(f) /\ f[n] = id[n] /\ f[n] \in MainIds
    BY <1>2, <1>3, NamingFacts DEF Background
  <2>3. u[n] = v /\ \A y \in Places : y # n => u[y] = w[y]
    BY <1>1, <1>3, NodeFacts DEF Worth, Places
  <2>4. Live' = Live /\ Held' = Held
    <3>1. Detached' = Detached
      BY <1>1 DEF Detached
    <3>. QED
      BY <1>1, <3>1 DEF Live, Held
  <2>5. r = ApplyOp(Caught, SetAttribute(f[n], v))
    BY <2>2, ApplyOne
  <2>. HIDE DEF f, w, u, r
  <2>6. /\ Live \subseteq D /\ D \subseteq Held /\ Closed(kids, D) /\ (changesAway = 0 => D = Live)
        /\ Shows(Caught, f, kids, w, D)
    BY <2>1 DEF Follows, f, w
  <2>7. CASE n \in D
    <3>1. \A y \in D : y # n => u[y] = w[y]
      BY <2>3
    <3>4. D \subseteq Places /\ u[n] = v
      BY <2>3
    <3>2. Shows(r, f, kids, u, D) /\ r.errors = Caught.errors
      <4>1. Renaming(f) /\ Shows(Caught, f, kids, w, D) /\ n \in D /\ v \in Int
        BY <1>3, <2>2, <2>6, <2>7
      <4>2. /\ Shows(ApplyOp(Caught, SetAttribute(f[n], v)), f, kids, u, D)
            /\ ApplyOp(Caught, SetAttribute(f[n], v)).errors = Caught.errors
        BY <3>1, <3>4, <4>1, ShowsSet
      <4>. QED
        BY <2>5, <4>2
    <3>3. r.errors <= changesAway'
      BY <1>8, <1>11, <3>2, FollowsFacts
    <3>. QED
      BY <1>1, <1>8, <1>11, <2>4, <2>6, <3>2, <3>3 DEF Reached, f, u, r
  <2>8. CASE n \notin D
    <3>1. r = WithError(Caught)
      <4>1. f[n] \notin Caught.ids
        BY <1>11, <2>2, <2>6, <2>8, NameFacts DEF Shows
      <4>. QED
        BY <2>5, <4>1 DEF ApplyOp, SetAttribute, Missing
    <3>2. Shows(r, f, kids, w, D) /\ r.errors = Caught.errors + 1
      BY <2>6, <3>1, ShowsError
    <3>3. Shows(r, f, kids, u, D)
      BY <2>3, <2>8, <3>2 DEF Shows
    <3>4. r.errors <= changesAway' /\ changesAway' # 0
      BY <1>8, <1>11, <2>6, <2>8, <3>2, FollowsFacts
    <3>. QED
      BY <1>1, <1>8, <2>4, <2>6, <3>3, <3>4 DEF Reached, f, u, r
  <2>. QED
    BY <2>7, <2>8 DEF r
<1>9. Channels' /\ Phases' /\ InStep'
  <2>. HIDE DEF s
  <2>. QED
    BY <1>1, <1>6, <1>7, <1>8, <1>11, Rendered
<1>. QED
  BY <1>4, <1>5, <1>9 DEF IInv

\* What MayInsert says of the two places.
LEMMA MayInsertFacts ==
  ASSUME Trunk, NEW p \in Places, NEW n \in Nodes, NEW b \in Nodes \cup {None},
         MayInsert(p, n, b)
  PROVE  /\ n \in 1..nextId /\ p \notin Subtree(kids, n)
         /\ \A x \in Places : n \in Elements(kids[x]) => x = p
         /\ n \notin removed => n \in Live \/ n \in Elements(kids[p])
         /\ n \in removed => n \in suspended /\ b = None /\ Parentless(kids, n)
<1>1. /\ Tree(kids) /\ DOMAIN kids = Places
      /\ \A x \in removed : Parentless(kids, x)
      /\ nextId \in Nat /\ removed \subseteq Nodes
  BY TrunkFacts, TreeFacts DEF Trunk, Removals
<1>2. n \in 1..nextId /\ p \notin Subtree(kids, n)
  <2>1. n <= nextId /\ p \notin Subtree(kids, n)
    BY DEF MayInsert
  <2>2. n \in Int /\ n >= 1
    BY ConstantsAssumption DEF Nodes
  <2>. QED
    BY <1>1, <2>1, <2>2
<1>3. CASE Fresh(n)
  <2>1. Parentless(kids, n) /\ n \notin removed
    BY <1>1, <1>3 DEF Fresh, Parent, Parentless
  <2>2. ASSUME NEW r \in removed, n \in Subtree(kids, r) PROVE FALSE
    <3>1. IsSubtree(kids, r, Subtree(kids, r)) /\ r # n
      BY <1>1, <2>1, TreeFacts DEF Places
    <3>2. \E y \in Subtree(kids, r) : n \in Elements(kids[y])
      BY <2>2, <3>1, ParentBelow
    <3>. QED
      BY <1>1, <2>1, <3>1, <3>2 DEF IsSubtree, Closed, Parentless
  <2>3. n \in Live
    BY <1>2, <2>2 DEF Live, Detached
  <2>. QED
    BY <1>2, <2>1, <2>3 DEF Parentless
<1>4. CASE n \in Elements(kids[p])
  <2>1. \A x \in Places : n \in Elements(kids[x]) => x = p
    BY <1>1, <1>4 DEF Tree, OneParent
  <2>2. n \notin removed
    BY <1>1, <1>4 DEF Parentless
  <2>. QED
    BY <1>2, <1>4, <2>1, <2>2
<1>5. CASE n \in suspended /\ b = None
  <2>1. n \in removed /\ Parentless(kids, n)
    BY <1>1, <1>5 DEF Trunk, Removals
  <2>. QED
    BY <1>2, <1>5, <2>1 DEF Parentless
<1>. QED
  BY <1>3, <1>4, <1>5 DEF MayInsert

\* With more children below it a subtree does not lose members.
LEMMA SubtreeGrows ==
  ASSUME NEW k, Tree(k), NEW l, NEW r \in Places, NEW U \in SUBSET Places, r \in U, Closed(l, U),
         \A x \in U : Elements(k[x]) \subseteq U
  PROVE  Subtree(k, r) \subseteq U
<1>1. IsSubtree(k, r, Subtree(k, r)) /\ DOMAIN k = Places
  BY TreeFacts
<1>2. Closed(k, U)
  BY <1>1 DEF Closed
<1>. QED
  BY <1>1, <1>2 DEF IsSubtree

\* What the tree is after the insertion.
LEMMA InsertTrunk ==
  ASSUME Trunk, NEW p \in Places, p \in Held, p \notin Gone,
         NEW n \in Nodes, NEW b \in Nodes \cup {None},
         MayInsert(p, n, b), kids' = [kids EXCEPT ![p] = Placed(kids[p], n, b)],
         removed' = removed \ {n}, suspended' = suspended \ {n},
         UNCHANGED <<nextId, id, value, registry>>
  PROVE  /\ Trunk' /\ Lost' = Lost /\ Gone' = Gone
         /\ \A x \in Places : x # p => kids'[x] = kids[x]
         /\ Elements(kids'[p]) = Elements(kids[p]) \cup {n}
         /\ \A r \in removed : /\ Subtree(kids, r) \subseteq Subtree(kids', r)
                               /\ p \in Live => Subtree(kids', r) = Subtree(kids, r)
<1>1. /\ n \in 1..nextId /\ p \notin Subtree(kids, n)
      /\ \A x \in Places : n \in Elements(kids[x]) => x = p
      /\ n \in removed => n \in suspended /\ b = None
  BY MayInsertFacts
<1>2. /\ Tree(kids) /\ nextId \in Nat /\ removed \subseteq Nodes
      /\ \A x \in Live : x \notin Detached
  BY TrunkFacts
<1>3. Tree(kids')
  BY <1>1, <1>2, TreeInsert
<1>4. /\ \A x \in Places : x # p => kids'[x] = kids[x]
      /\ Elements(kids'[p]) = Elements(kids[p]) \cup {n}
  <2>1. kids \in [Places -> Seq(Nodes)] /\ kids[p] \in Seq(Nodes) /\ Distinct(kids[p])
    BY <1>2 DEF Tree
  <2>2. Elements(Placed(kids[p], n, b)) = Elements(kids[p]) \cup {n}
    BY <2>1, PlacedFacts
  <2>. QED
    BY <2>1, <2>2
<1>5. Background'
  BY <1>3 DEF Trunk, Background
<1>6. Numbers'
  <2>1. \A x \in Places : Elements(kids'[x]) \subseteq 1..nextId
    BY <1>1, <1>4 DEF Trunk, Numbers
  <2>2. \A x \in Nodes : x > nextId => x # p
    BY <1>1, <1>2, NodeFacts DEF Held
  <2>3. \A x \in Nodes : x > nextId => kids'[x] = kids[x]
    BY <1>4, <2>2 DEF Places
  <2>. QED
    BY <2>1, <2>3 DEF Trunk, Numbers
<1>7. Removals'
  <2>1. \A x \in removed' : Parentless(kids', x)
    BY <1>4 DEF Trunk, Removals, Parentless
  <2>. QED
    BY <2>1 DEF Trunk, Removals
<1>8. Lost' = Lost /\ n \notin Lost
  BY <1>1 DEF Lost
<1>9. OnlyAt(kids, kids', p)
  BY <1>4 DEF OnlyAt
<1>10. Gone' = Gone
  <2>1. Apart(kids, Lost, p)
    BY <1>2 DEF Gone, Lost, Apart, Places
  <2>2. \A r \in Lost : Subtree(kids', r) = Subtree(kids, r)
    BY <1>2, <1>3, <1>9, <2>1, StillRemoved
  <2>3. Gone = UNION {Subtree(kids, r) : r \in Lost} /\ Gone' = UNION {Subtree(kids', r) : r \in Lost'}
    BY DEF Gone, Lost
  <2>. QED
    BY <1>8, <2>2, <2>3
<1>11. ASSUME NEW r \in removed PROVE Subtree(kids, r) \subseteq Subtree(kids', r)
  <2>1. /\ r \in Places /\ IsSubtree(kids', r, Subtree(kids', r)) /\ DOMAIN kids' = Places
        /\ Subtree(kids', r) \subseteq Places /\ r \in Subtree(kids', r)
    BY <1>2, <1>3, TreeFacts DEF Places
  <2>2. Closed(kids', Subtree(kids', r))
    BY <2>1 DEF IsSubtree
  <2>3. \A x \in Places : Elements(kids[x]) \subseteq Elements(kids'[x])
    BY <1>4
  <2>4. \A x \in Subtree(kids', r) : Elements(kids[x]) \subseteq Subtree(kids', r)
    BY <2>1, <2>2, <2>3 DEF Closed
  <2>. QED
    BY <1>2, <2>1, <2>2, <2>4, SubtreeGrows
<1>12. ASSUME p \in Live PROVE \A r \in removed : Subtree(kids', r) = Subtree(kids, r)
  <2>1. Apart(kids, removed, p)
    BY <1>2, <1>12 DEF Detached, Apart, Places
  <2>. QED
    BY <1>2, <1>3, <1>9, <2>1, StillRemoved
<1>. QED
  BY <1>4, <1>5, <1>6, <1>7, <1>8, <1>10, <1>11, <1>12 DEF Trunk

LEMMA insertBeforeKeeps ==
  ASSUME IInv, NEW p \in Places, NEW n \in Nodes, NEW b \in Nodes \cup {None},
         insertBefore(p, n, b)
  PROVE  IInv'
<1>. DEFINE s == InsertionOps(p, n, b)
            f == Naming(id)
            w == Worth(value)
            T == Subtree(kids, n)
            l == [kids EXCEPT ![p] = Placed(kids[p], n, b)]
            o == InsertBefore(f[p], f[n], f[b])
<1>1. /\ RenderOnly /\ MayInsert(p, n, b) /\ MayChange(p) /\ Changed(p) /\ push(s)
      /\ kids' = [kids EXCEPT ![p] = Placed(kids[p], n, b)]
      /\ removed' = removed \ {n} /\ suspended' = suspended \ {n}
      /\ UNCHANGED <<nextId, id, value, registry, patching, toRemove>>
  BY DEF insertBefore, MayInsert
<1>2. Trunk /\ Channels /\ Tables /\ Background
  BY DEF IInv, Trunk
<1>12. /\ p \in Held /\ p \notin Gone /\ (p \notin Live => p \in Detached)
       /\ changesAway' \in Nat /\ changesAway' >= changesAway
       /\ patching /\ p \notin Live => changesAway' = changesAway + 1
       /\ patching /\ changesAway' = 0 => changesAway = 0 /\ p \in Live
  BY <1>1, <1>2, MayChangeFacts
<1>3. /\ Trunk' /\ Lost' = Lost /\ Gone' = Gone
      /\ \A x \in Places : x # p => kids'[x] = kids[x]
      /\ Elements(kids'[p]) = Elements(kids[p]) \cup {n}
      /\ \A r \in removed : /\ Subtree(kids, r) \subseteq Subtree(kids', r)
                            /\ p \in Live => Subtree(kids', r) = Subtree(kids, r)
  BY <1>1, <1>2, <1>12, InsertTrunk
<1>4. /\ n \in 1..nextId /\ p \notin T
      /\ \A x \in Places : n \in Elements(kids[x]) => x = p
      /\ n \notin removed => n \in Live \/ n \in Elements(kids[p])
      /\ n \in removed => n \in suspended /\ b = None /\ Parentless(kids, n)
  BY <1>1, <1>2, MayInsertFacts
<1>5. /\ Tree(kids) /\ Renaming(f) /\ f[n] = id[n]
      /\ Named(p) = f[p] /\ Named(b) = f[b] /\ id[n] \in MainIds /\ f[p] \in MainIds
  <2>1. Renaming(f) /\ \A m \in Nodes : f[m] = id[m]
    BY <1>2, NamingFacts DEF Background
  <2>2. \A m \in Places \cup {None} : Named(m) = f[m]
    BY <2>1, NodeFacts DEF Named, Places, Renaming
  <2>3. f[p] \in MainIds /\ p \in Places \cup {None} /\ b \in Places \cup {None}
    BY <2>1 DEF Renaming, Maps, Places
  <2>. HIDE DEF f
  <2>. QED
    BY <1>2, <2>1, <2>2, <2>3 DEF Background
<1>6. Tables'
  <2>1. GoneIds' = GoneIds
    BY <1>1, <1>3 DEF GoneIds
  <2>2. UNCHANGED <<toRemove, tasks, timers>>
    BY <1>1 DEF RenderOnly
  <2>. QED
    BY <1>1, <1>2, <1>3, <2>1, <2>2 DEF Tables
<1>7. /\ s = (IF n \in removed THEN reconstruct(n) ELSE <<>>) \o <<o>>
      /\ n \notin removed => s = <<o>>
      /\ n \in removed => s = ChildOps(f[p], reconstruct(n), n) /\ s = reconstruct(n) \o <<o>>
  <2>. DEFINE z == <<o>>
  <2>1. s = (IF n \in removed THEN reconstruct(n) ELSE <<>>) \o z
    BY <1>5 DEF InsertionOps
  <2>2. n \notin removed => s = z
    BY <2>1
  <2>3. n \in removed => f[b] = None
    BY <1>4, <1>5 DEF Renaming
  <2>4. n \in removed => s = ChildOps(f[p], reconstruct(n), n) /\ s = reconstruct(n) \o z
    <3>1. n \in removed => s = reconstruct(n) \o z
      BY <2>1
    <3>2. n \in removed => z = <<InsertBefore(f[p], id[n], None)>>
      BY <1>5, <2>3
    <3>. HIDE DEF z, s
    <3>. QED
      BY <3>1, <3>2 DEF ChildOps
  <2>. QED
    BY <2>1, <2>2, <2>4
<1>13. o \in Ops /\ reconstruct(n) \in Seq(Ops) /\ <<o>> \in Seq(Ops)
  <2>. HIDE DEF f
  <2>1. f[b] \in Int
    BY <1>5, IdFacts DEF Renaming, Maps, Places
  <2>2. o \in Ops
    BY <1>5, <2>1, OpFacts
  <2>. HIDE DEF o
  <2>. QED
    BY <1>2, <2>2, ReconstructType
<1>8. s \in Seq(Ops)
  <2>. HIDE DEF o, s
  <2>1. CASE n \notin removed
    BY <1>7, <1>13, <2>1
  <2>2. CASE n \in removed
    <3>. DEFINE u == reconstruct(n)
                v == <<o>>
    <3>1. s = u \o v /\ u \in Seq(Ops) /\ v \in Seq(Ops)
      BY <1>7, <1>13, <2>2
    <3>. HIDE DEF u, v
    <3>. QED
      BY <3>1
  <2>. QED
    BY <2>1, <2>2
<1>9. toRemove' \in Seq(MainIds)
  BY <1>1, <1>2 DEF Channels
\* Only what comes back is not removed any more.
<1>14. /\ Held' = Held /\ Live' \subseteq Live \cup (IF n \in removed THEN T ELSE {})
       /\ p \in Live => Live' = Live \cup (IF n \in removed THEN T ELSE {})
       /\ T \subseteq Held /\ T \subseteq Places /\ Closed(kids, T) /\ n \in T
  <2>1. /\ removed \subseteq Nodes /\ 1..nextId \subseteq Nodes
        /\ Closed(kids, T) /\ n \in T /\ T \subseteq Places
    BY <1>2, <1>5, TrunkFacts, TreeFacts DEF IsSubtree, Places
  <2>2. T \subseteq 1..nextId
    <3>1. IsSubtree(kids, n, T) /\ DOMAIN kids = Places
      BY <1>5, TreeFacts DEF Places
    <3>2. Closed(kids, 1..nextId) /\ 1..nextId \in SUBSET DOMAIN kids
      BY <1>2, <2>1, <3>1 DEF Trunk, Numbers, Closed, Places
    <3>. QED
      BY <1>4, <3>1, <3>2 DEF IsSubtree
  <2>. DEFINE W == UNION {Subtree(kids, r) : r \in removed \ {n}}
              V == IF n \in removed THEN T ELSE {}
  <2>3. Detached = W \cup V
    <3>1. CASE n \in removed
      <4>1. removed = (removed \ {n}) \cup {n}
        BY <3>1
      <4>. QED
        BY <3>1, <4>1 DEF Detached
    <3>2. CASE n \notin removed
      <4>1. removed = removed \ {n}
        BY <3>2
      <4>. QED
        BY <3>2, <4>1 DEF Detached
    <3>. QED
      BY <3>1, <3>2
  <2>4. Detached' = UNION {Subtree(kids', r) : r \in removed \ {n}}
    BY <1>1 DEF Detached
  <2>5. W \subseteq Detached'
    BY <1>3, <2>4
  <2>9. Live = {Root} \cup ((1..nextId) \ Detached) /\ Live' = {Root} \cup ((1..nextId) \ Detached')
    BY <1>1 DEF Live
  <2>6. Live' \subseteq Live \cup V
    <3>. HIDE DEF W, V
    <3>. QED
      BY <2>3, <2>5, <2>9
  <2>7. ASSUME p \in Live PROVE Live' = Live \cup V
    <3>1. Detached' = W
      BY <1>3, <2>4, <2>7
    <3>2. CASE n \notin removed
      BY <1>1, <2>3, <3>1, <3>2 DEF Live
    <3>3. CASE n \in removed
      <4>1. ASSUME NEW r \in removed \ {n} PROVE Subtree(kids, r) \cap T = {}
        <5>1. r \in Places /\ n \in Places /\ Parentless(kids, r) /\ Parentless(kids, n)
          BY <1>2, <2>1, <3>3 DEF Places, Trunk, Removals
        <5>. QED
          BY <1>5, <5>1, ParentlessDisjoint
      <4>2. W \cap T = {} /\ V = T
        BY <3>3, <4>1
      <4>. HIDE DEF T, W, V
      <4>. QED
        BY <2>2, <2>3, <2>9, <3>1, <4>2
    <3>. QED
      BY <3>2, <3>3
  <2>8. Held' = Held
    BY <1>1 DEF Held
  <2>. QED
    BY <2>1, <2>2, <2>6, <2>7, <2>8 DEF Held
<1>10. ASSUME patching
       PROVE  \E D \in SUBSET Places : Reached(snapshotPatchApply(Caught, s), D)
  <2>. DEFINE r == snapshotPatchApply(Caught, s)
  <2>1. PICK D \in SUBSET Places : Follows(Caught, D)
    BY <1>10, FollowsFacts
  <2>. DEFINE E == D \cup (IF n \in removed THEN T ELSE {})
  <2>2. /\ Live \subseteq D /\ D \subseteq Held /\ Closed(kids, D) /\ (changesAway = 0 => D = Live)
        /\ Shows(Caught, f, kids, w, D) /\ D \subseteq Places
    BY <2>1 DEF Follows
  <2>3. /\ Caught \in MainStates /\ Caught.errors \in Nat /\ changesAway \in Nat
        /\ Caught.errors <= changesAway
    BY <1>10, FollowsFacts
  <2>. HIDE DEF T
  <2>4. /\ Live' \subseteq E /\ E \subseteq Held' /\ (changesAway' = 0 => E = Live')
        /\ E \in SUBSET Places /\ Closed(kids, E) /\ (p \in D => n \in E)
        /\ p \in E => p \in D
    <3>1. Live' \subseteq E /\ E \subseteq Held' /\ E \in SUBSET Places /\ Closed(kids, E)
      BY <1>14, <2>2 DEF Closed
    <3>2. changesAway' = 0 => E = Live'
      BY <1>10, <1>12, <1>14, <2>2
    <3>3. p \in D => n \in E
      BY <1>4, <1>14, <2>2 DEF Closed
    <3>4. p \in E => p \in D
      BY <1>4
    <3>. QED
      BY <3>1, <3>2, <3>3, <3>4
  <2>. HIDE DEF f, w
  <2>5. Closed(kids', E)
    <3>1. DOMAIN kids' = Places
      BY <1>3, TreeFacts DEF Trunk, Background
    <3>. QED
      BY <1>3, <2>4, <3>1 DEF Closed
  <2>6. CASE p \in D
    <3>1. CASE n \notin removed
      <4>1. r = ApplyOp(Caught, o)
        <5>1. s = <<o>>
          BY <1>7, <3>1
        <5>. QED
          BY <5>1, ApplyOne
      <4>2. Shows(ApplyOp(Caught, o), f, l, w, D) /\ ApplyOp(Caught, o).errors = Caught.errors
        <5>1. n \in D
          BY <2>4, <2>6, <3>1
        <5>. QED
          <6>1. Renaming(f) /\ Tree(kids) /\ \A x \in Places : n \in Elements(kids[x]) => x = p
            BY <1>4, <1>5
          <6>2. D \subseteq Places /\ Closed(kids, D) /\ Shows(Caught, f, kids, w, D)
            BY <2>2
          <6>. QED
            BY <2>6, <5>1, <6>1, <6>2, ShowsPlace
      <4>3. E = D
        BY <3>1
      <4>. HIDE DEF r, o, E, s, l
      <4>4. Shows(r, f, kids', w, E) /\ r.errors <= changesAway'
        BY <1>1, <1>12, <2>3, <4>1, <4>2, <4>3 DEF l
      <4>. QED
        BY <1>1, <2>4, <2>5, <4>4 DEF Reached, f, w, r
    <3>2. CASE n \in removed
      <4>1. /\ Shows(snapshotPatchApply(Caught, ChildOps(Naming(id)[p], reconstruct(n), n)),
                     Naming(id), [kids EXCEPT ![p] = Placed(kids[p], n, None)], Worth(value),
                     D \cup Subtree(kids, n))
            /\ snapshotPatchApply(Caught, ChildOps(Naming(id)[p], reconstruct(n), n)).errors
                 = Caught.errors
        BY <1>2, <1>4, <2>2, <2>6, <3>2, ShowsGrow DEF f, w
      <4>2. b = None /\ s = ChildOps(f[p], reconstruct(n), n) /\ E = D \cup Subtree(kids, n)
        BY <1>4, <1>7, <3>2 DEF T
      <4>. HIDE DEF r, E, s
      <4>3. Shows(r, f, kids', w, E) /\ r.errors = Caught.errors
        BY <1>1, <4>1, <4>2 DEF r, f, w
      <4>4. r.errors <= changesAway'
        BY <1>12, <2>3, <4>3
      <4>. QED
        BY <1>1, <2>4, <2>5, <4>3, <4>4 DEF Reached, f, w, r
    <3>. QED
      BY <3>1, <3>2
  <2>7. CASE p \notin D
    <3>. DEFINE a == IF n \in removed THEN snapshotPatchApply(Caught, reconstruct(n)) ELSE Caught
    <3>1. Shows(a, f, kids, w, E) /\ a.errors = Caught.errors
      <4>1. CASE n \notin removed
        BY <2>2, <4>1
      <4>2. CASE n \in removed
        <5>1. LET q == snapshotPatchApply(Caught, reconstruct(n))
              IN  /\ Shows(q, Naming(id), kids, Worth(value), D \cup Subtree(kids, n))
                  /\ q.errors = Caught.errors
          BY <1>2, <1>4, <2>2, <4>2, ShowsRebuild DEF f, w
        <5>. QED
          BY <4>2, <5>1 DEF f, w, T
      <4>. QED
        BY <4>1, <4>2
    <3>2. r = ApplyOp(a, o)
      <4>1. CASE n \notin removed
        <5>1. s = <<o>> /\ a = Caught
          BY <1>7, <4>1
        <5>. QED
          BY <5>1, ApplyOne
      <4>2. CASE n \in removed
        <5>. DEFINE u == reconstruct(n)
                    v == <<o>>
        <5>1. s = u \o v /\ a = snapshotPatchApply(Caught, u) /\ u \in Seq(Ops) /\ v \in Seq(Ops)
          BY <1>7, <1>13, <4>2
        <5>2. snapshotPatchApply(a, v) = ApplyOp(a, o)
          BY ApplyOne
        <5>. HIDE DEF u, v, a, o, s
        <5>3. snapshotPatchApply(Caught, u \o v) = snapshotPatchApply(snapshotPatchApply(Caught, u), v)
          BY <2>3, <5>1, ApplyConcat
        <5>. QED
          BY <5>1, <5>2, <5>3
      <4>. QED
        BY <4>1, <4>2
    <3>. HIDE DEF a, r, E, s, l
    <3>3. ApplyOp(a, o) = WithError(a)
      <4>1. f[p] \notin a.ids
        BY <1>5, <2>4, <2>7, <3>1, NameFacts DEF Shows
      <4>. QED
        BY <4>1 DEF ApplyOp, InsertBefore, Missing
    <3>4. Shows(r, f, kids, w, E) /\ r.errors = Caught.errors + 1
      BY <3>1, <3>2, <3>3, ShowsError
    <3>5. Shows(r, f, kids', w, E)
      <4>1. \A y \in E : kids'[y] = kids[y]
        BY <1>3, <2>4, <2>7
      <4>. QED
        BY <3>4, <4>1 DEF Shows
    <3>6. r.errors <= changesAway'
      BY <1>10, <1>12, <2>2, <2>3, <2>7, <3>4
    <3>. QED
      BY <1>1, <2>4, <2>5, <3>5, <3>6 DEF Reached, f, w, r
  <2>. QED
    BY <2>6, <2>7
<1>11. Channels' /\ Phases' /\ InStep'
  <2>. HIDE DEF s
  <2>. QED
    BY <1>1, <1>8, <1>9, <1>10, <1>12, Rendered
<1>. QED
  BY <1>3, <1>6, <1>11 DEF IInv

\* What the tree is after the removal.
LEMMA RemoveTrunk ==
  ASSUME Trunk, NEW p \in Places, p \in Held, p \notin Gone, NEW n \in Elements(kids[p]),
         kids' = [kids EXCEPT ![p] = Without(kids[p], n)],
         removed' = removed \cup {n}, suspended' \subseteq suspended \cup {n},
         UNCHANGED <<nextId, id, value, registry>>
  PROVE  /\ Trunk' /\ n \in 1..nextId /\ n \notin removed
         /\ \A x \in Places : x # p => kids'[x] = kids[x]
         /\ Elements(kids'[p]) = Elements(kids[p]) \ {n}
         /\ \A r \in Lost : Subtree(kids', r) = Subtree(kids, r)
         /\ p \in Live => \A r \in removed : Subtree(kids', r) = Subtree(kids, r)
         /\ Subtree(kids', n) = Subtree(kids, n)
         /\ Detached \cup Subtree(kids, n) \subseteq Detached'
<1>1. /\ Tree(kids) /\ nextId \in Nat /\ Live \subseteq Places /\ removed \subseteq Nodes
      /\ \A x \in Live : x \notin Detached
      /\ 1..nextId \subseteq Nodes
      /\ \A x \in removed : Parentless(kids, x)
  BY TrunkFacts DEF Trunk, Removals
<1>3. n \in 1..nextId /\ n \in Nodes /\ n \notin removed
  BY <1>1 DEF Trunk, Numbers, Parentless
<1>4. Tree(kids')
  BY <1>1, TreeRemove
<1>5. /\ \A x \in Places : x # p => kids'[x] = kids[x]
      /\ Elements(kids'[p]) = Elements(kids[p]) \ {n}
  <2>1. kids \in [Places -> Seq(Nodes)] /\ kids[p] \in Seq(Nodes) /\ Distinct(kids[p])
    BY <1>1 DEF Tree
  <2>2. Elements(Without(kids[p], n)) = Elements(kids[p]) \ {n}
    BY <2>1, WithoutFacts
  <2>. QED
    BY <2>1, <2>2
<1>6. Background'
  BY <1>4 DEF Trunk, Background
<1>7. Numbers'
  <2>1. \A x \in Places : Elements(kids'[x]) \subseteq 1..nextId
    BY <1>5 DEF Trunk, Numbers
  <2>2. \A x \in Nodes : x > nextId => x # p
    BY <1>1, NodeFacts DEF Held
  <2>3. \A x \in Nodes : x > nextId => kids'[x] = kids[x]
    BY <1>5, <2>2 DEF Places
  <2>. QED
    BY <2>1, <2>3 DEF Trunk, Numbers
<1>8. Removals'
  <2>1. \A x \in removed : Parentless(kids', x)
    BY <1>1, <1>5 DEF Parentless
  <2>2. Parentless(kids', n)
    <3>1. \A x \in Places : n \in Elements(kids[x]) => x = p
      BY <1>1 DEF Tree, OneParent
    <3>. QED
      BY <1>5, <3>1 DEF Parentless
  <2>. QED
    BY <1>3, <2>1, <2>2 DEF Trunk, Removals
<1>9. OnlyAt(kids, kids', p)
  BY <1>5 DEF OnlyAt
<1>10. ASSUME p \in Live PROVE \A r \in removed : Subtree(kids', r) = Subtree(kids, r)
  <2>1. Apart(kids, removed, p)
    BY <1>1, <1>10 DEF Detached, Apart, Places
  <2>. QED
    BY <1>1, <1>4, <1>9, <2>1, StillRemoved
<1>12. \A r \in Lost : Subtree(kids', r) = Subtree(kids, r)
  <2>1. Apart(kids, Lost, p)
    BY <1>1 DEF Gone, Lost, Apart, Places
  <2>. QED
    BY <1>1, <1>4, <1>9, <2>1, StillRemoved
<1>11. Subtree(kids', n) = Subtree(kids, n)
  <2>1. p \notin Subtree(kids, n) /\ n \in Places
    BY <1>1, <1>3, SiblingsDisjoint DEF Places
  <2>. QED
    BY <1>1, <1>4, <1>9, <2>1, SubtreeElsewhere
\* What a subtree loses is what was taken out.
<1>13. ASSUME NEW r \in removed PROVE Subtree(kids, r) \subseteq Subtree(kids', r) \cup Subtree(kids', n)
  <2>. DEFINE A == Subtree(kids', r)
              B == Subtree(kids', n)
  <2>1. /\ r \in Places /\ IsSubtree(kids', r, A) /\ IsSubtree(kids', n, B) /\ DOMAIN kids' = Places
        /\ A \subseteq Places /\ B \subseteq Places /\ r \in A /\ n \in B
    BY <1>1, <1>3, <1>4, TreeFacts DEF Places
  <2>. HIDE DEF A, B
  <2>2. Closed(kids', A \cup B)
    BY <2>1 DEF IsSubtree, Closed
  <2>3. \A x \in Places : Elements(kids[x]) \subseteq Elements(kids'[x]) \cup {n}
    BY <1>5
  <2>4. \A x \in A \cup B : Elements(kids[x]) \subseteq A \cup B
    BY <2>1, <2>2, <2>3 DEF Closed
  <2>5. A \cup B \in SUBSET Places /\ r \in A \cup B
    BY <2>1
  <2>6. Subtree(kids, r) \subseteq A \cup B
    BY <1>1, <2>1, <2>2, <2>4, <2>5, SubtreeGrows
  <2>. QED
    BY <2>6 DEF A, B
<1>14. Detached \cup Subtree(kids, n) \subseteq Detached'
  <2>1. ASSUME NEW x \in Detached PROVE x \in Detached'
    <3>1. PICK r \in removed : x \in Subtree(kids, r)
      BY DEF Detached
    <3>2. x \in Subtree(kids', r) \/ x \in Subtree(kids', n)
      BY <1>13, <3>1
    <3>. QED
      BY <3>1, <3>2 DEF Detached
  <2>2. Subtree(kids, n) \subseteq Detached'
    BY <1>11 DEF Detached
  <2>. QED
    BY <2>1, <2>2
<1>15. Trunk'
  BY <1>6, <1>7, <1>8 DEF Trunk
<1>. QED
  BY <1>3, <1>5, <1>10, <1>11, <1>12, <1>14, <1>15

LEMMA removeChildKeeps ==
  ASSUME IInv, NEW p \in Places, NEW n \in Nodes, NEW keep \in BOOLEAN, removeChild(p, n, keep)
  PROVE  IInv'
<1>. DEFINE s == <<RemoveChild(Named(p), id[n])>>
            f == Naming(id)
            w == Worth(value)
<1>1. /\ RenderOnly /\ MayChange(p) /\ Changed(p) /\ n \in Elements(kids[p]) /\ push(s)
      /\ kids' = [kids EXCEPT ![p] = Without(kids[p], n)]
      /\ removed' = removed \cup {n}
      /\ suspended' = IF keep THEN suspended \cup {n} ELSE suspended
      /\ toRemove' = QueueAfterRemoval(n, keep)
      /\ UNCHANGED <<nextId, id, value, registry, patching>>
  BY DEF removeChild
<1>2. Trunk /\ Channels /\ Tables /\ Background
  BY DEF IInv, Trunk
<1>10. /\ p \in Held /\ p \notin Gone /\ (p \notin Live => p \in Detached)
       /\ changesAway' \in Nat /\ changesAway' >= changesAway
       /\ patching /\ p \notin Live => changesAway' = changesAway + 1
       /\ patching /\ changesAway' = 0 => changesAway = 0 /\ p \in Live
  BY <1>1, <1>2, MayChangeFacts
<1>3. /\ Trunk' /\ n \in 1..nextId /\ n \notin removed
      /\ \A x \in Places : x # p => kids'[x] = kids[x]
      /\ Elements(kids'[p]) = Elements(kids[p]) \ {n}
      /\ \A r \in Lost : Subtree(kids', r) = Subtree(kids, r)
      /\ p \in Live => \A r \in removed : Subtree(kids', r) = Subtree(kids, r)
      /\ Subtree(kids', n) = Subtree(kids, n)
      /\ Detached \cup Subtree(kids, n) \subseteq Detached'
  BY <1>1, <1>2, <1>10, RemoveTrunk
<1>4. /\ Tree(kids) /\ Renaming(f) /\ f[n] = id[n] /\ Named(p) = f[p]
      /\ id[n] \in MainIds /\ f[p] \in MainIds
  <2>1. Renaming(f) /\ \A m \in Nodes : f[m] = id[m]
    BY <1>2, NamingFacts DEF Background
  <2>2. \A m \in Places \cup {None} : Named(m) = f[m]
    BY <2>1, NodeFacts DEF Named, Places, Renaming
  <2>3. f[p] \in MainIds
    BY <2>1 DEF Renaming, Maps
  <2>. HIDE DEF f
  <2>. QED
    BY <1>2, <2>1, <2>2, <2>3 DEF Background
<1>5. toRemove' \in Seq(MainIds) /\ Elements(toRemove') \subseteq GoneIds'
  <2>1. toRemove \in Seq(MainIds) /\ Elements(toRemove) \subseteq GoneIds
    BY <1>2 DEF Channels, Tables
  <2>2. GoneIds \subseteq GoneIds'
    <3>1. Lost \subseteq Lost'
      BY <1>1, <1>3 DEF Lost
    <3>. QED
      BY <1>1, <3>1 DEF GoneIds
  <2>3. CASE keep
    BY <1>1, <2>1, <2>2, <2>3 DEF QueueAfterRemoval
  <2>4. CASE ~keep
    <3>. DEFINE q == Append(toRemove, id[n])
    <3>1. /\ q \in Seq(MainIds) /\ DOMAIN q = 1..(Len(toRemove) + 1)
          /\ q[Len(toRemove) + 1] = id[n] /\ \A i \in 1..Len(toRemove) : q[i] = toRemove[i]
      BY <1>4, <2>1
    <3>2. \A i \in 1..(Len(toRemove) + 1) : i \in 1..Len(toRemove) \/ i = Len(toRemove) + 1
      BY <2>1
    <3>3. DOMAIN toRemove = 1..Len(toRemove)
      BY <2>1
    <3>4. Elements(q) \subseteq Elements(toRemove) \cup {id[n]}
      <4>. HIDE DEF q
      <4>. QED
        BY <3>1, <3>2, <3>3 DEF Elements
    <3>5. id[n] \in GoneIds'
      <4>1. n \in Lost'
        BY <1>1, <1>2, <1>3, <2>4 DEF Lost, Trunk, Removals
      <4>. QED
        BY <1>1, <4>1 DEF GoneIds
    <3>6. toRemove' = q
      BY <1>1, <2>4 DEF QueueAfterRemoval
    <3>. HIDE DEF q
    <3>. QED
      BY <2>1, <2>2, <3>1, <3>4, <3>5, <3>6
  <2>. QED
    BY <2>3, <2>4
<1>6. Tables'
  <2>1. Lost \subseteq Lost'
    BY <1>1, <1>3 DEF Lost
  <2>2. GoneIds \subseteq GoneIds'
    BY <1>1, <2>1 DEF GoneIds
  <2>3. Gone \subseteq Gone'
    <3>1. Gone = UNION {Subtree(kids, r) : r \in Lost} /\ Gone' = UNION {Subtree(kids', r) : r \in Lost'}
      BY DEF Gone, Lost
    <3>. QED
      BY <1>3, <2>1, <3>1
  <2>4. UNCHANGED <<tasks, timers>>
    BY <1>1 DEF RenderOnly
  <2>. QED
    BY <1>1, <1>2, <1>5, <2>2, <2>3, <2>4 DEF Tables
<1>7. s \in Seq(Ops)
  <2>1. RemoveChild(Named(p), id[n]) \in Ops
    BY <1>4, IdFacts, OpFacts
  <2>. QED
    BY <2>1
<1>8. ASSUME patching
      PROVE  \E D \in SUBSET Places : Reached(snapshotPatchApply(Caught, s), D)
  <2>. DEFINE T == Subtree(kids, n)
              o == RemoveChild(f[p], f[n])
              l == [kids EXCEPT ![p] = Without(kids[p], n)]
              r == snapshotPatchApply(Caught, s)
  <2>1. PICK D \in SUBSET Places : Follows(Caught, D)
    BY <1>8, FollowsFacts
  <2>2. /\ Live \subseteq D /\ D \subseteq Held /\ Closed(kids, D) /\ (changesAway = 0 => D = Live)
        /\ Shows(Caught, f, kids, w, D) /\ D \subseteq Places
    BY <2>1 DEF Follows
  <2>3. /\ Caught \in MainStates /\ Caught.errors \in Nat /\ changesAway \in Nat
        /\ Caught.errors <= changesAway
    BY <1>8, FollowsFacts
  <2>4. /\ Held' = Held /\ Live' \subseteq Live \ T /\ (p \in Live => Live' = Live \ T)
    <3>1. T \subseteq Nodes /\ Root \notin T
      <4>1. T \subseteq Nodes
        BY <1>4, TreeFacts
      <4>. QED
        BY <4>1, NodeFacts
    <3>2. ASSUME p \in Live PROVE Detached' = Detached \cup T
      <4>1. \A m \in removed : Subtree(kids', m) = Subtree(kids, m)
        BY <1>3, <3>2
      <4>2. Subtree(kids', n) = T
        BY <1>3
      <4>3. Detached' = UNION {Subtree(kids', m) : m \in removed \cup {n}}
        BY <1>1 DEF Detached
      <4>. HIDE DEF T
      <4>. QED
        BY <4>1, <4>2, <4>3 DEF Detached
    <3>. HIDE DEF T
    <3>3. Detached \cup T \subseteq Detached'
      BY <1>3 DEF T
    <3>. QED
      BY <1>1, <3>1, <3>2, <3>3 DEF Live, Held
  <2>5. r = ApplyOp(Caught, o)
    BY <1>4, ApplyOne
  <2>6. DOMAIN kids' = Places
    BY <1>3, TreeFacts DEF Trunk, Background
  <2>. HIDE DEF f, w, r
  <2>7. CASE p \in D
    <3>2. Shows(r, f, kids', w, D \ T) /\ r.errors = Caught.errors
      <4>1. Renaming(f) /\ Tree(kids) /\ D \subseteq Places /\ Closed(kids, D) /\ Shows(Caught, f, kids, w, D)
        BY <1>4, <2>2
      <4>2. n \in Elements(kids[p]) /\ p \in D
        BY <1>1, <2>7
      <4>3. r = ApplyOp(Caught, RemoveChild(f[p], f[n])) /\ kids' = [kids EXCEPT ![p] = Without(kids[p], n)]
        BY <1>1, <2>5
      <4>. HIDE DEF T, o, l, s
      <4>4. RemovesFrom(f, kids, D, Caught, w, p, n, kids', r)
        BY <4>1, <4>2, <4>3 DEF RemovesFrom
      <4>. QED
        BY <4>4, ShowsRemove DEF T
    <3>. HIDE DEF o, l
    <3>3. Closed(kids', D \ T)
      <4>1. SUFFICES ASSUME NEW x \in D \ T, NEW c \in Elements(kids'[x]) PROVE c \in D \ T
        BY <2>2, <2>6 DEF Closed
      <4>2. c \in Elements(kids[x]) /\ c # n
        <5>1. x = p => c # n
          BY <1>3, <4>1
        <5>2. \A y \in Places : n \in Elements(kids[y]) => y = p
          BY <1>1, <1>4 DEF Tree, OneParent
        <5>. QED
          BY <1>3, <2>2, <4>1, <5>1, <5>2
      <4>3. c \notin T
        BY <1>4, <2>2, <4>1, <4>2, ParentIn DEF Places
      <4>. QED
        BY <2>2, <4>1, <4>2, <4>3 DEF Closed
    <3>4. r.errors <= changesAway' /\ (changesAway' = 0 => D \ T = Live')
      BY <1>8, <1>10, <2>2, <2>3, <2>4, <3>2
    <3>5. Live' \subseteq D \ T /\ D \ T \subseteq Held'
      BY <2>2, <2>4
    <3>6. Reached(r, D \ T)
      BY <1>1, <3>2, <3>3, <3>4, <3>5 DEF Reached, f, w
    <3>. QED
      BY <3>6 DEF r
  <2>8. CASE p \notin D
    <3>1. r = WithError(Caught)
      <4>1. f[p] \notin Caught.ids
        BY <1>4, <2>2, <2>8, NameFacts DEF Shows
      <4>. QED
        BY <2>5, <4>1 DEF ApplyOp, RemoveChild, Missing
    <3>2. Shows(r, f, kids, w, D) /\ r.errors = Caught.errors + 1
      BY <2>2, <3>1, ShowsError
    <3>3. \A y \in D : kids'[y] = kids[y]
      BY <1>3, <2>2, <2>8
    <3>4. Shows(r, f, kids', w, D) /\ Closed(kids', D)
      BY <2>2, <2>6, <3>2, <3>3 DEF Shows, Closed
    <3>5. r.errors <= changesAway' /\ changesAway' # 0 /\ Live' \subseteq D /\ D \subseteq Held'
      BY <1>8, <1>10, <2>2, <2>3, <2>4, <2>8, <3>2
    <3>6. Reached(r, D)
      BY <1>1, <3>4, <3>5 DEF Reached, f, w
    <3>. QED
      BY <3>6 DEF r
  <2>. QED
    BY <2>7, <2>8
<1>9. Channels' /\ Phases' /\ InStep'
  <2>. HIDE DEF s
  <2>. QED
    BY <1>1, <1>5, <1>7, <1>8, <1>10, Rendered
<1>. QED
  BY <1>3, <1>6, <1>9 DEF IInv

-----------------------------------------------------------------------------
(* The steps that leave the tree alone *)

LEMMA SameTree ==
  ASSUME Trunk, UNCHANGED <<nextId, id, kids, value, removed, suspended>>
  PROVE  /\ Background' /\ Numbers'
         /\ Detached' = Detached /\ Attached' = Attached /\ Live' = Live
         /\ Lost' = Lost /\ Gone' = Gone /\ GoneIds' = GoneIds
         /\ \A n \in Nodes : Fresh(n)' = Fresh(n)
BY DEF Trunk, Background, Numbers, Detached, Attached, Live, Lost, Gone, GoneIds, Fresh, Parent

\* The steps that leave the tree and what is on its way alone.
LEMMA StillInStep ==
  ASSUME InStep, UNCHANGED <<nextId, id, kids, value, patching, changesAway>>,
         Live' = Live, Caught' = Caught
  PROVE  InStep'
<1>1. Naming(id)' = Naming(id) /\ Worth(value)' = Worth(value) /\ Held' = Held
  BY DEF Naming, Worth, Held
<1>2. ASSUME NEW D \in SUBSET Places, Follows(Caught, D) PROVE Follows(Caught, D)'
  BY <1>1, <1>2 DEF Follows
<1>3. Caught'.errors <= changesAway'
  BY DEF InStep
<1>4. patching => \E D \in SUBSET Places : Follows(Caught, D)'
  BY <1>2 DEF InStep
<1>. QED
  BY <1>3, <1>4 DEF InStep

LEMMA CommitKeeps ==
  ASSUME IInv, Commit
  PROVE  IInv' /\ Caught' = Caught
<1>. DEFINE x == [commit |-> commits + 1, ops |-> patch, hydration |-> FALSE]
<1>1. /\ rendering /\ \A n \in Nodes : ~Fresh(n)
      /\ rendering' = FALSE /\ commits' = commits + 1
      /\ tasks' = [tasks EXCEPT ![commits + 1] = Elements(toRemove)]
      /\ toRemove' = <<>>
      /\ patching => toMain' = Append(toMain, x) /\ patch' = <<>>
      /\ ~patching => UNCHANGED <<toMain, patch>>
      /\ UNCHANGED <<nextId, id, kids, value, removed, suspended, registry, patching,
                     timers, acks, main, ops, changesAway>>
  BY DEF Commit
<1>2. Trunk /\ Channels /\ Tables /\ Phases /\ InStep
  BY DEF IInv
<1>3. /\ Background' /\ Numbers' /\ Detached' = Detached /\ Live' = Live
      /\ Gone' = Gone /\ GoneIds' = GoneIds
      /\ \A n \in Nodes : Fresh(n)' = Fresh(n)
  BY <1>1, <1>2, SameTree
<1>4. Trunk'
  BY <1>1, <1>2, <1>3 DEF Trunk, Removals
<1>5. commits + 1 \in 1..MaxCommits /\ commits + 1 \in 0..MaxCommits
  BY <1>1, <1>2, ConstantsAssumption DEF Channels
<1>6. x \in Message
  BY <1>2, <1>5 DEF Channels, Message
<1>7. Elements(toRemove) \subseteq MainIds
  <2>1. toRemove \in Seq(MainIds)
    BY <1>2 DEF Channels
  <2>. QED
    BY <2>1, ElementFacts
<1>8. Channels'
  <2>1. toMain' \in Seq(Message) /\ patch' \in Seq(Ops)
    <3>1. toMain \in Seq(Message) /\ patch \in Seq(Ops) /\ patching \in BOOLEAN
      BY <1>2 DEF Channels
    <3>2. Append(toMain, x) \in Seq(Message) /\ <<>> \in Seq(Ops)
      <4>. HIDE DEF x
      <4>. QED
        BY <1>6, <3>1
    <3>3. CASE patching
      BY <1>1, <3>2, <3>3
    <3>4. CASE ~patching
      BY <1>1, <3>1, <3>4
    <3>. QED
      BY <3>3, <3>4
  <2>2. tasks' \in [1..MaxCommits -> SUBSET MainIds] /\ toRemove' \in Seq(MainIds)
    <3>1. tasks \in [1..MaxCommits -> SUBSET MainIds]
      BY <1>2 DEF Channels
    <3>2. <<>> \in Seq(MainIds)
      OBVIOUS
    <3>. DEFINE e == Elements(toRemove)
    <3>. HIDE DEF e
    <3>3. e \in SUBSET MainIds
      BY <1>7 DEF e
    <3>4. tasks' = [tasks EXCEPT ![commits + 1] = e]
      BY <1>1 DEF e
    <3>. QED
      BY <1>1, <3>1, <3>2, <3>3, <3>4
  <2>. QED
    BY <1>1, <1>2, <1>5, <2>1, <2>2 DEF Channels
<1>9. Tables'
  <2>1. \A c \in 1..MaxCommits : tasks'[c] \subseteq GoneIds
    BY <1>1, <1>2, <1>5 DEF Tables, Channels
  <2>2. Elements(<<>>) = {}
    BY DEF Elements
  <2>. QED
    BY <1>1, <1>2, <1>3, <2>1, <2>2 DEF Tables
<1>10. Phases'
  BY <1>1, <1>2, <1>3 DEF Phases
<1>11. Caught' = Caught
  <2>1. CASE ~patching
    BY <1>1, <2>1 DEF Caught, InFlight
  <2>2. CASE patching
    <3>. DEFINE a == OpsOf(toMain)
    <3>1. toMain \in Seq(Message) /\ patch \in Seq(Ops)
      BY <1>2 DEF Channels
    <3>2. a \in Seq(Seq(Ops)) /\ OpsOf(Append(toMain, x)) = Append(a, x.ops)
      BY <1>6, <3>1, OpsOfFacts
    <3>3. x.ops = patch
      OBVIOUS
    <3>. HIDE DEF a, x
    <3>4. FlattenSeq(Append(a, patch)) = FlattenSeq(a) \o patch
      BY <3>1, <3>2, FlattenAppend
    <3>5. InFlight' = FlattenSeq(OpsOf(toMain')) \o patch'
      BY DEF InFlight, OpsOf
    <3>. DEFINE u == FlattenSeq(a)
    <3>6. u \in Seq(Ops)
      BY <3>1, OpsOfFacts DEF a
    <3>. HIDE DEF u
    <3>7. (u \o patch) \o <<>> = u \o patch
      BY <3>1, <3>6
    <3>8. InFlight' = (u \o patch) \o <<>>
      BY <1>1, <2>2, <3>2, <3>3, <3>4, <3>5 DEF u
    <3>9. InFlight = u \o patch
      BY DEF InFlight, OpsOf, u, a
    <3>. QED
      BY <1>1, <3>7, <3>8, <3>9 DEF Caught
  <2>. QED
    BY <2>1, <2>2
<1>12. InStep'
  BY <1>1, <1>2, <1>3, <1>11, StillInStep
<1>. QED
  BY <1>4, <1>8, <1>9, <1>10, <1>11, <1>12 DEF IInv

-----------------------------------------------------------------------------
(* The step of the hydration *)

\* Between renders everything that exists and was not removed is on the page.
LEMMA AllAttached ==
  ASSUME Trunk, \A n \in Nodes : ~Fresh(n)
  PROVE  Live = Attached
<1>1. /\ Tree(kids) /\ nextId \in Nat /\ 1..nextId \subseteq Nodes
      /\ Attached \subseteq Live /\ Live \subseteq Places /\ Root \in Attached
      /\ \A x \in Live : x \notin Detached
      /\ removed \subseteq Detached
  BY TrunkFacts
<1>2. DOMAIN kids = Places /\ Root \in Places /\ Root \notin Nodes /\ removed \subseteq Places
  BY <1>1, TreeFacts, NodeFacts DEF Places, Trunk, Removals
<1>. DEFINE S == Live \ Attached
<1>3. ASSUME S # {} PROVE FALSE
  <2>1. PICK x \in S : \A y \in S : x \notin Elements(kids[y])
    <3>1. S \in SUBSET Places
      BY <1>1
    <3>. HIDE DEF S
    <3>. QED
      BY <1>1, <1>3, <3>1 DEF Tree, Rooted
  <2>2. x \in 1..nextId /\ x \notin removed /\ x \in Nodes /\ x <= nextId
    BY <1>1, <2>1 DEF Live
  <2>3. Parent(x) # {}
    BY <2>2 DEF Fresh
  <2>4. PICK p \in Places : x \in Elements(kids[p])
    BY <1>2, <2>3 DEF Parent
  <2>5. p \notin Attached
    BY <1>1, <1>2, <2>1, <2>4, ChildIn DEF Attached
  <2>6. p \notin Live
    BY <2>1, <2>4, <2>5
  <2>7. p \notin 1..nextId
    <3>1. p \notin Detached
      <4>1. SUFFICES ASSUME NEW r \in removed, p \in Subtree(kids, r) PROVE FALSE
        BY DEF Detached
      <4>2. x \in Subtree(kids, r)
        BY <1>1, <1>2, <2>4, <4>1, ChildIn
      <4>. QED
        BY <1>1, <2>1, <4>2 DEF Detached
    <3>. QED
      BY <2>6, <3>1 DEF Live
  <2>8. p \in Nodes /\ p > nextId
    <3>1. p \in Nodes
      BY <1>1, <2>4, <2>5 DEF Places
    <3>2. nextId \in Nat /\ p \in Nat /\ p >= 1
      BY <1>1, <3>1, ConstantsAssumption DEF Nodes
    <3>. QED
      BY <2>7, <3>1, <3>2
  <2>9. kids[p] = <<>>
    BY <2>8 DEF Trunk, Numbers
  <2>. QED
    BY <2>4, <2>9 DEF Elements
<1>. QED
  BY <1>1, <1>3

\* The hydration in the words of the lemmas above.
LEMMA HydrateIs ==
  ASSUME Hydrate
  PROVE  /\ ~rendering /\ ~patching /\ commits < MaxCommits /\ commits' = commits + 1 /\ patching' = TRUE
         /\ id' = NewId
         /\ toMain' = Append(toMain, [commit |-> commits + 1,
                                      ops |-> FlattenSeq(HydrateOps) \o LeftoverOps,
                                      hydration |-> TRUE])
         /\ UNCHANGED <<nextId, kids, value, removed, suspended, registry, patch, toRemove,
                        rendering, tasks, timers, acks, main, ops, changesAway>>
<1>1. id' = NewId
  BY DEF Hydrate, NewId, Matched, Top, TopCount
<1>2. toMain' = Append(toMain, [commit |-> commits + 1,
                                ops |-> FlattenSeq(HydrateOps) \o LeftoverOps,
                                hydration |-> TRUE])
  BY DEF Hydrate, HydrateOps, LeftoverOps, MatchedOps, NewOps, KidsBelow, ChildOps, Matched, Top, TopCount
<1>. QED
  BY <1>1, <1>2 DEF Hydrate

\* The operations of the hydration are typed.
LEMMA HydrationType ==
  ASSUME Background
  PROVE  FlattenSeq(HydrateOps) \o LeftoverOps \in Seq(Ops)
<1>. DEFINE ss == HydrateOps
            u == FlattenSeq(ss)
            v == LeftoverOps
<1>1. ss \in Seq(Seq(Ops))
  BY HydrateOpsType
<1>2. u \in Seq(Ops)
  <2>. HIDE DEF ss
  <2>1. PICK f : Flattening(ss, f)
    BY <1>1, FlatteningThere
  <2>. QED
    BY <1>1, <2>1, FlattenIs
<1>3. v \in Seq(Ops)
  BY LeftoverOpsType
<1>. HIDE DEF u, v
<1>4. u \o v \in Seq(Ops)
  BY <1>2, <1>3
<1>. QED
  BY <1>4 DEF u, v, ss

LEMMA HydrateKeeps ==
  ASSUME IInv, Hydrate
  PROVE  IInv'
<1>. DEFINE z == FlattenSeq(HydrateOps) \o LeftoverOps
            x == [commit |-> commits + 1, ops |-> z, hydration |-> TRUE]
<1>1. /\ ~rendering /\ ~patching /\ commits < MaxCommits /\ commits' = commits + 1 /\ patching' = TRUE
      /\ id' = NewId
      /\ toMain' = Append(toMain, x)
      /\ UNCHANGED <<nextId, kids, value, removed, suspended, registry, patch, toRemove,
                     rendering, tasks, timers, acks, main, ops, changesAway>>
  BY HydrateIs
<1>2. Trunk /\ Channels /\ Tables /\ Phases /\ Background /\ Numbers /\ Removals
  BY DEF IInv, Trunk
<1>3. /\ main = FirstMain /\ toMain = <<>> /\ patch = <<>>
      /\ \A n \in Nodes : ~Fresh(n)
      /\ Unhydrated
  BY <1>1, <1>2 DEF Phases, Unhydrated
<1>4. /\ NewId \in [Nodes -> MainIds \ {Root}] /\ OneToOne(NewId, Nodes) /\ Renaming(Adopted)
      /\ \A n \in Nodes : (\A i \in Matched : Top(i) # n) => NewId[n] = n
  BY <1>3, AdoptedFacts
<1>5. /\ Tree(kids) /\ nextId \in Nat /\ Live \subseteq Places /\ Closed(kids, Live) /\ Root \in Live
      /\ 1..nextId \subseteq Nodes /\ removed \subseteq Nodes
  BY <1>2, TrunkFacts
<1>6. \A n \in Nodes : n \in removed \/ n > nextId => NewId[n] = n
  <2>1. \A i \in Matched : Top(i) \in Elements(kids[Root]) /\ Root \in Places
    BY <1>2, TopFacts
  <2>2. \A n \in removed : n \notin Elements(kids[Root])
    BY <1>2, <2>1 DEF Removals, Parentless, Places
  <2>3. \A n \in Nodes : n > nextId => n \notin Elements(kids[Root])
    <3>1. Elements(kids[Root]) \subseteq 1..nextId
      BY <1>2 DEF Numbers, Places
    <3>. QED
      BY <1>5, <3>1
  <2>. HIDE DEF z
  <2>. QED
    BY <1>4, <2>1, <2>2, <2>3
<1>7. Background' /\ Numbers' /\ Removals'
  <2>1. Background'
    BY <1>1, <1>2, <1>4 DEF Background
  <2>2. Numbers'
    BY <1>1, <1>2, <1>6 DEF Numbers
  <2>3. Removals'
    BY <1>1, <1>2 DEF Removals
  <2>. QED
    BY <2>1, <2>2, <2>3
<1>8. /\ Live' = Live /\ Gone' = Gone /\ GoneIds' = GoneIds
      /\ \A n \in Nodes : Fresh(n)' = Fresh(n)
  <2>1. Detached' = Detached /\ Lost' = Lost
    BY <1>1 DEF Detached, Lost
  <2>2. Live' = Live /\ Gone' = Gone
    BY <1>1, <2>1 DEF Live, Gone
  <2>3. GoneIds' = GoneIds
    <3>1. \A n \in Lost : id'[n] = id[n]
      <4>1. \A n \in Lost : n \in Nodes /\ n \in removed
        BY <1>5 DEF Lost
      <4>2. \A n \in Nodes : id[n] = n
        BY <1>3 DEF Unhydrated
      <4>. QED
        BY <1>1, <1>6, <4>1, <4>2
    <3>. QED
      BY <2>1, <3>1 DEF GoneIds
  <2>4. \A n \in Nodes : Fresh(n)' = Fresh(n)
    BY <1>1 DEF Fresh, Parent
  <2>. QED
    BY <2>2, <2>3, <2>4
<1>9. z \in Seq(Ops)
  BY <1>2, HydrationType
<1>. HIDE DEF z
<1>10. x \in Message /\ x.ops = z
  <2>1. commits + 1 \in 1..MaxCommits
    BY <1>1, <1>2, ConstantsAssumption DEF Channels
  <2>. QED
    BY <1>9, <2>1 DEF Message
<1>. HIDE DEF x
<1>11. Channels'
  <2>1. toMain' \in Seq(Message)
    BY <1>1, <1>3, <1>10
  <2>2. commits' \in 0..MaxCommits
    BY <1>1, <1>2, ConstantsAssumption DEF Channels
  <2>. QED
    BY <1>1, <1>2, <2>1, <2>2 DEF Channels
<1>12. Tables'
  BY <1>1, <1>2, <1>8 DEF Tables
<1>13. Phases'
  BY <1>1, <1>2, <1>8 DEF Phases
<1>14. Caught' = snapshotPatchApply(FirstMain, z)
  <2>1. /\ <<>> \in Seq(Message) /\ OpsOf(<<>>) = <<>> /\ <<>> \in Seq(Seq(Ops))
        /\ <<>> \in Seq(Ops)
    BY DEF OpsOf
  <2>2. OpsOf(toMain') = Append(<<>>, z)
    BY <1>1, <1>3, <1>10, <2>1, OpsOfFacts
  <2>3. FlattenSeq(Append(<<>>, z)) = <<>> \o z
    BY <1>9, <2>1, FlattenAppend, FlattenNone
  <2>4. (<<>> \o z) \o <<>> = z
    BY <1>9
  <2>5. InFlight' = FlattenSeq(OpsOf(toMain')) \o patch'
    BY DEF InFlight, OpsOf
  <2>6. InFlight' = z
    BY <1>1, <1>3, <2>2, <2>3, <2>4, <2>5
  <2>. QED
    BY <1>1, <1>3, <2>6 DEF Caught
<1>15. Shows(Caught', Adopted, kids, Worth(value), Live) /\ Caught'.errors = 0
  <2>1. /\ Shows(snapshotPatchApply(FirstMain, z), Adopted, kids, Worth(value), Subtree(kids, Root))
        /\ snapshotPatchApply(FirstMain, z).errors = 0
    BY <1>3, HydrateShows DEF z
  <2>2. Live = Subtree(kids, Root)
    BY <1>2, <1>3, AllAttached DEF Attached
  <2>. QED
    BY <1>14, <2>1, <2>2
<1>16. InStep'
  <2>1. Naming(id)' = Adopted /\ Worth(value)' = Worth(value) /\ kids' = kids
    BY <1>1 DEF Adopted, Naming, Worth
  <2>2. changesAway' \in Nat /\ Caught'.errors <= changesAway'
    BY <1>1, <1>2, <1>15 DEF Channels
  <2>3. Live \subseteq Held' /\ Live \in SUBSET Places
    BY <1>1, <1>2, TrunkFacts DEF Held
  <2>4. Follows(Caught, Live)'
    BY <1>1, <1>5, <1>8, <1>15, <2>1, <2>3 DEF Follows
  <2>. QED
    BY <2>2, <2>3, <2>4, <1>8 DEF InStep
<1>. QED
  BY <1>7, <1>11, <1>12, <1>13, <1>16 DEF IInv, Trunk

-----------------------------------------------------------------------------
(* The steps of the main thread and of the timers *)

LEMMA AckType ==
  ASSUME NEW h \in Message
  PROVE  /\ h.ops \in Seq(Ops) /\ h.commit \in 1..MaxCommits /\ h.hydration \in BOOLEAN
         /\ [commit |-> h.commit, hydration |-> h.hydration] \in Ack
BY DEF Message, Ack

\* The first patch is applied: what is on its way has been applied up to it.
LEMMA updateMainThreadKeeps ==
  ASSUME IInv, updateMainThread
  PROVE  IInv' /\ Caught' = Caught
<1>. DEFINE h == Head(toMain)
            a == [commit |-> h.commit, hydration |-> h.hydration]
            t == Tail(toMain)
<1>1. /\ toMain # <<>> /\ main' = snapshotPatchApply(main, h.ops)
      /\ toMain' = t /\ acks' = Append(acks, a)
      /\ UNCHANGED <<nextId, id, kids, value, removed, suspended, registry, patch, patching,
                     toRemove, rendering, tasks, timers, commits, ops, changesAway>>
  BY DEF updateMainThread, bgVars
<1>2. Trunk /\ Channels /\ Tables /\ Phases /\ InStep
  BY DEF IInv
<1>3. /\ Background' /\ Numbers' /\ Detached' = Detached /\ Live' = Live
      /\ Gone' = Gone /\ GoneIds' = GoneIds
      /\ \A n \in Nodes : Fresh(n)' = Fresh(n)
  BY <1>1, <1>2, SameTree
<1>4. Trunk'
  BY <1>1, <1>2, <1>3 DEF Trunk, Removals
<1>5. /\ toMain \in Seq(Message) /\ patch \in Seq(Ops) /\ acks \in Seq(Ack) /\ main \in MainStates
  BY <1>2 DEF Channels
<1>6. /\ t \in Seq(Message) /\ h \in Message
      /\ FlattenSeq(OpsOf(toMain)) = h.ops \o FlattenSeq(OpsOf(t))
  BY <1>1, <1>5, OpsOfFacts
<1>7. /\ FlattenSeq(OpsOf(t)) \in Seq(Ops) /\ h.ops \in Seq(Ops) /\ a \in Ack
  BY <1>6, OpsOfFacts, AckType
<1>. DEFINE u == FlattenSeq(OpsOf(t))
            v == h.ops
<1>8. InFlight = (v \o u) \o patch
  BY <1>6, InFlightType, <1>2
<1>9. InFlight' = u \o patch
  <2>1. InFlight' = FlattenSeq(OpsOf(toMain')) \o patch'
    BY DEF InFlight, OpsOf
  <2>. QED
    BY <1>1, <2>1
<1>. HIDE DEF h, a, t, u
<1>. HIDE DEF v
<1>10. u \in Seq(Ops) /\ v \in Seq(Ops) /\ h.ops = v
  BY <1>7 DEF u, v
<1>11. main' \in MainStates
  BY <1>1, <1>5, <1>10, ApplyType
<1>12. Channels'
  <2>1. Append(acks, a) \in Seq(Ack)
    BY <1>5, <1>7
  <2>. QED
    BY <1>1, <1>2, <1>6, <1>11, <2>1 DEF Channels
<1>13. Tables'
  BY <1>1, <1>2, <1>3 DEF Tables
<1>14. Phases'
  BY <1>1, <1>2, <1>3 DEF Phases
<1>15. Caught' = Caught
  <2>1. u \o patch \in Seq(Ops)
    BY <1>5, <1>10
  <2>2. (v \o u) \o patch = v \o (u \o patch)
    BY <1>5, <1>10
  <2>. DEFINE s == u \o patch
  <2>. HIDE DEF s
  <2>3. snapshotPatchApply(main, v \o s) = snapshotPatchApply(snapshotPatchApply(main, v), s)
    <3>1. s \in Seq(Ops)
      BY <2>1 DEF s
    <3>. QED
      BY <1>10, <3>1, ApplyConcat
  <2>4. Caught = snapshotPatchApply(main, v \o s)
    BY <1>8, <2>2 DEF Caught, s
  <2>5. Caught' = snapshotPatchApply(main', s)
    BY <1>9 DEF Caught, s
  <2>. QED
    BY <1>1, <1>10, <2>3, <2>4, <2>5
<1>16. InStep'
  BY <1>1, <1>2, <1>3, <1>15, StillInStep
<1>. QED
  BY <1>4, <1>12, <1>13, <1>14, <1>15, <1>16 DEF IInv

\* The steps that send nothing leave what is on its way, and the tree, as they are.
LEMMA SameInStep ==
  ASSUME InStep, UNCHANGED <<nextId, id, kids, value, patching, toMain, patch, main, changesAway>>,
         Live' = Live
  PROVE  InStep' /\ Caught' = Caught
<1>1. Caught' = Caught
  BY DEF Caught, InFlight
<1>. QED
  BY <1>1, StillInStep

LEMMA ReceiveAckKeeps ==
  ASSUME IInv, ReceiveAck
  PROVE  IInv'
<1>. DEFINE done == Completed(Head(acks))
<1>1. /\ ~rendering /\ acks # <<>> /\ acks' = Tail(acks)
      /\ timers' = timers \cup {tasks[c] : c \in {d \in done : tasks[d] # {}}}
      /\ tasks' = [c \in DOMAIN tasks |-> IF c \in done THEN {} ELSE tasks[c]]
      /\ UNCHANGED <<nextId, id, kids, value, removed, suspended, registry, patch, patching,
                     toRemove, rendering, toMain, main, commits, ops, changesAway>>
  BY DEF ReceiveAck, bgVars
<1>2. Trunk /\ Channels /\ Tables /\ Phases /\ InStep
  BY DEF IInv
<1>3. /\ Background' /\ Numbers' /\ Detached' = Detached /\ Live' = Live
      /\ Gone' = Gone /\ GoneIds' = GoneIds
      /\ \A n \in Nodes : Fresh(n)' = Fresh(n)
  BY <1>1, <1>2, SameTree
<1>4. Trunk'
  BY <1>1, <1>2, <1>3 DEF Trunk, Removals
<1>5. done \subseteq 1..MaxCommits
  <2>1. Head(acks) \in Ack
    <3>1. acks \in Seq(Ack)
      BY <1>2 DEF Channels
    <3>. QED
      BY <1>1, <3>1
  <2>2. \A a \in Ack : a.commit \in 1..MaxCommits
    BY DEF Ack
  <2>3. \A a \in Ack : Completed(a) \subseteq 1..MaxCommits
    <3>1. SUFFICES ASSUME NEW a \in Ack PROVE Completed(a) \subseteq 1..MaxCommits
      OBVIOUS
    <3>2. a.commit \in 1..MaxCommits
      BY <2>2
    <3>. QED
      BY <3>2, ConstantsAssumption DEF Completed
  <2>. QED
    BY <2>1, <2>3
<1>. HIDE DEF done
<1>6. tasks \in [1..MaxCommits -> SUBSET MainIds]
  BY <1>2 DEF Channels
<1>7. Channels'
  <2>1. acks \in Seq(Ack)
    BY <1>2 DEF Channels
  <2>2. acks' \in Seq(Ack)
    BY <1>1, <2>1
  <2>3. tasks' \in [1..MaxCommits -> SUBSET MainIds]
    BY <1>1, <1>6
  <2>. QED
    BY <1>1, <1>2, <2>2, <2>3 DEF Channels
<1>8. Tables'
  <2>1. \A c \in 1..MaxCommits : tasks[c] \subseteq GoneIds
    BY <1>2 DEF Tables
  <2>2. \A c \in 1..MaxCommits : tasks'[c] \subseteq GoneIds
    BY <1>1, <1>6, <2>1
  <2>3. \A t \in timers' : t \subseteq GoneIds
    <3>1. \A t \in timers : t \subseteq GoneIds
      BY <1>2 DEF Tables
    <3>2. \A t \in timers' : t \in timers \/ \E c \in done : t = tasks[c]
      BY <1>1
    <3>. QED
      BY <1>5, <2>1, <3>1, <3>2
  <2>. QED
    BY <1>1, <1>2, <1>3, <2>2, <2>3 DEF Tables
<1>9. Phases'
  BY <1>1, <1>2, <1>3 DEF Phases
<1>10. InStep'
  BY <1>1, <1>2, <1>3, SameInStep
<1>. QED
  BY <1>4, <1>7, <1>8, <1>9, <1>10 DEF IInv

\* A timer frees only what was removed for good.
LEMMA tearDownKeeps ==
  ASSUME IInv, tearDown
  PROVE  IInv'
<1>1. ~rendering
  BY DEF tearDown
<1>2. PICK t \in timers :
        /\ timers' = timers \ {t}
        /\ registry' = registry \ UNION {Subtree(kids, n) : n \in {m \in registry : id[m] \in t}}
        /\ UNCHANGED <<nextId, id, kids, value, removed, suspended, patch, patching, toRemove,
                       rendering, tasks, toMain, acks, main, commits, ops, changesAway>>
  BY DEF tearDown
<1>3. Trunk /\ Channels /\ Tables /\ Phases /\ InStep
  BY DEF IInv
<1>4. /\ Background' /\ Numbers' /\ Detached' = Detached /\ Live' = Live
      /\ Gone' = Gone /\ GoneIds' = GoneIds
      /\ \A n \in Nodes : Fresh(n)' = Fresh(n)
  BY <1>2, <1>3, SameTree
<1>5. registry' \subseteq registry
  BY <1>2
<1>6. Trunk'
  BY <1>2, <1>3, <1>4, <1>5 DEF Trunk, Removals
<1>7. registry \subseteq Nodes /\ removed \subseteq Nodes
  <2>1. 1..nextId \subseteq Nodes /\ registry \subseteq 1..nextId /\ removed \subseteq 1..nextId
    BY <1>3, TrunkFacts DEF Trunk, Removals
  <2>. QED
    BY <2>1
<1>8. \A m \in registry : id[m] \in t => m \in Lost
  <2>1. SUFFICES ASSUME NEW m \in registry, id[m] \in t PROVE m \in Lost
    OBVIOUS
  <2>2. id[m] \in GoneIds
    BY <1>3, <2>1 DEF Tables
  <2>3. PICK n \in Lost : id[n] = id[m]
    BY <2>2 DEF GoneIds
  <2>4. m \in Nodes /\ n \in Nodes
    BY <1>7, <2>3 DEF Lost
  <2>5. m = n
    BY <1>3, <2>3, <2>4 DEF Trunk, Background, OneToOne
  <2>. QED
    BY <2>3, <2>5
<1>9. registry \ registry' \subseteq Gone
  BY <1>2, <1>8 DEF Gone, Lost
<1>10. Tables'
  <2>1. (1..nextId) \ registry' \subseteq Gone
    BY <1>3, <1>9 DEF Tables
  <2>. QED
    BY <1>2, <1>3, <1>4, <2>1 DEF Tables
<1>11. Channels'
  BY <1>2, <1>3 DEF Channels
<1>12. Phases'
  BY <1>2, <1>3, <1>4 DEF Phases
<1>13. InStep'
  BY <1>2, <1>3, <1>4, SameInStep
<1>. QED
  BY <1>6, <1>10, <1>11, <1>12, <1>13 DEF IInv

LEMMA StutterKeeps ==
  ASSUME IInv, UNCHANGED vars
  PROVE  IInv'
<1>1. UNCHANGED <<nextId, id, kids, value, removed, suspended, registry, patch, patching, toRemove,
                  rendering, tasks, timers, toMain, acks, main, commits, ops, changesAway>>
  BY DEF vars, bgVars
<1>2. Trunk /\ Channels /\ Tables /\ Phases /\ InStep
  BY DEF IInv
<1>3. /\ Background' /\ Numbers' /\ Detached' = Detached /\ Live' = Live
      /\ Gone' = Gone /\ GoneIds' = GoneIds
      /\ \A n \in Nodes : Fresh(n)' = Fresh(n)
  BY <1>1, <1>2, SameTree
<1>4. Trunk' /\ Channels' /\ Tables' /\ Phases'
  <2>1. Trunk'
    BY <1>1, <1>2, <1>3 DEF Trunk, Removals
  <2>2. Channels'
    BY <1>1, <1>2 DEF Channels
  <2>3. Tables'
    BY <1>1, <1>2, <1>3 DEF Tables
  <2>4. Phases'
    BY <1>1, <1>2, <1>3 DEF Phases
  <2>. QED
    BY <2>1, <2>2, <2>3, <2>4
<1>5. InStep'
  BY <1>1, <1>2, <1>3, SameInStep
<1>. QED
  BY <1>4, <1>5 DEF IInv

-----------------------------------------------------------------------------
(* The whole system *)

LEMMA InitHolds ==
  ASSUME Init
  PROVE  IInv
<1>1. /\ nextId = 0 /\ id = [n \in Nodes |-> n]
      /\ kids = [n \in Places |-> <<>>] /\ value = [n \in Nodes |-> Unset]
      /\ removed = {} /\ suspended = {} /\ registry = {}
      /\ patch = <<>> /\ patching = FALSE /\ toRemove = <<>>
      /\ tasks = [c \in 1..MaxCommits |-> {}] /\ timers = {}
      /\ rendering = FALSE /\ toMain = <<>> /\ acks = <<>>
      /\ main = FirstMain /\ commits = 0 /\ changesAway = 0
  BY DEF Init, Places
<1>2. Elements(<<>>) = {} /\ <<>> \in Seq(Nodes)
  BY DEF Elements
<1>3. \A x \in Places : kids[x] = <<>> /\ Elements(kids[x]) = {}
  BY <1>1, <1>2
<1>4. Tree(kids)
  <2>1. kids \in [Places -> Seq(Nodes)]
    BY <1>1, <1>2
  <2>2. \A x \in Places : Distinct(kids[x])
    BY <1>3 DEF Distinct
  <2>3. OneParent(kids)
    BY <1>3, <2>1 DEF OneParent
  <2>4. Acyclic(kids, Places)
    BY <1>3 DEF Acyclic
  <2>5. Rooted(kids)
    BY <1>3 DEF Rooted
  <2>. QED
    BY <2>1, <2>2, <2>3, <2>4, <2>5 DEF Tree
<1>5. Background
  <2>1. id \in [Nodes -> MainIds \ {Root}]
    BY <1>1, IdFacts, NodeFacts
  <2>2. OneToOne(id, Nodes)
    BY <1>1 DEF OneToOne
  <2>3. value \in [Nodes -> Int]
    BY <1>1 DEF Unset
  <2>. QED
    BY <1>4, <2>1, <2>2, <2>3 DEF Background
<1>6. Numbers
  <2>1. nextId \in 0..MaxNodes
    BY <1>1, ConstantsAssumption
  <2>2. \A n \in Nodes : n \in Places
    BY DEF Places
  <2>. QED
    BY <1>1, <1>3, <2>1, <2>2 DEF Numbers
<1>7. Removals
  BY <1>1 DEF Removals
<1>8. Channels
  <2>1. main \in MainStates
    BY <1>1, FirstMainFacts
  <2>2. /\ patch \in Seq(Ops) /\ toMain \in Seq(Message) /\ acks \in Seq(Ack)
        /\ toRemove \in Seq(MainIds)
    BY <1>1
  <2>3. commits \in 0..MaxCommits
    BY <1>1, ConstantsAssumption
  <2>4. tasks \in [1..MaxCommits -> SUBSET MainIds]
    BY <1>1
  <2>. QED
    BY <1>1, <2>1, <2>2, <2>3, <2>4 DEF Channels
<1>9. Tables
  <2>1. (1..nextId) \ registry = {}
    BY <1>1
  <2>2. \A c \in 1..MaxCommits : tasks[c] = {}
    BY <1>1
  <2>. QED
    BY <1>1, <1>2, <2>1, <2>2 DEF Tables
<1>10. Phases
  <2>1. \A n \in Nodes : ~Fresh(n)
    BY <1>1, NodeFacts DEF Fresh
  <2>. QED
    BY <1>1, <2>1 DEF Phases
<1>11. InStep
  <2>1. OpsOf(<<>>) = <<>>
    BY DEF OpsOf
  <2>2. InFlight = <<>>
    BY <1>1, <2>1, FlattenNone DEF InFlight, OpsOf
  <2>3. Caught = FirstMain
    BY <1>1, <2>2, ApplyNone DEF Caught
  <2>. QED
    BY <1>1, <2>3, FirstMainFacts DEF InStep
<1>. QED
  BY <1>5, <1>6, <1>7, <1>8, <1>9, <1>10, <1>11 DEF IInv, Trunk

LEMMA NextKeeps ==
  ASSUME IInv, [Next]_vars
  PROVE  IInv'
<1>1. CASE Create
  BY <1>1, CreateKeeps
<1>2. CASE \E n \in Nodes, v \in Values : setAttribute(n, v)
  BY <1>2, setAttributeKeeps
<1>3. CASE \E p \in {Root} \cup Nodes, n \in Nodes, b \in {None} \cup Nodes : insertBefore(p, n, b)
  BY <1>3, insertBeforeKeeps DEF Places
<1>4. CASE \E p \in {Root} \cup Nodes, n \in Nodes, keep \in BOOLEAN : removeChild(p, n, keep)
  BY <1>4, removeChildKeeps DEF Places
<1>5. CASE Commit
  BY <1>5, CommitKeeps
<1>6. CASE Hydrate
  BY <1>6, HydrateKeeps
<1>7. CASE updateMainThread
  BY <1>7, updateMainThreadKeeps
<1>8. CASE ReceiveAck
  BY <1>8, ReceiveAckKeeps
<1>9. CASE tearDown
  BY <1>9, tearDownKeeps
<1>10. CASE UNCHANGED vars
  BY <1>10, StutterKeeps
<1>. QED
  BY <1>1, <1>2, <1>3, <1>4, <1>5, <1>6, <1>7, <1>8, <1>9, <1>10 DEF Next, Rendering

\* The invariant is inductive.
LEMMA InvariantAlways == Spec => []IInv
<1>1. Init => IInv
  BY InitHolds
<1>2. IInv /\ [Next]_vars => IInv'
  BY NextKeeps
<1>. QED
  BY <1>1, <1>2, PTL DEF Spec

-----------------------------------------------------------------------------
(* What it says of the page *)

LEMMA TypeHolds == ASSUME IInv PROVE TypeOK
<1>1. Trunk /\ Channels /\ Background /\ Numbers /\ Removals
  BY DEF IInv, Trunk
<1>2. DOMAIN kids = Places /\ Tree(kids)
  BY <1>1, TreeFacts DEF Background
<1>3. \A n \in Nodes : Cardinality(Parent(n)) <= 1
  <2>1. SUFFICES ASSUME NEW n \in Nodes PROVE Cardinality(Parent(n)) <= 1
    OBVIOUS
  <2>2. CASE Parent(n) = {}
    BY <2>2, FS_EmptySet
  <2>3. CASE Parent(n) # {}
    <3>1. PICK p : p \in Parent(n)
      BY <2>3
    <3>2. Parent(n) = {p}
      BY <1>2, <3>1 DEF Parent, Tree, OneParent
    <3>3. Cardinality({p}) = 1
      BY FS_Singleton
    <3>. QED
      BY <3>2, <3>3
  <2>. QED
    BY <2>2, <2>3
<1>4. main.ids \subseteq MainIds
  BY <1>1, StateFacts DEF Channels
<1>. QED
  BY <1>1, <1>2, <1>3, <1>4 DEF TypeOK, Background, Numbers, Removals, Places

\* The tree that the renderer has, in the words of the lemmas.
LEMMA BackgroundTreeIs ==
  ASSUME Background
  PROVE  BackgroundTree = TreeOf(Naming(id), kids, Worth(value))
<1>. DEFINE f == Naming(id)
            w == Worth(value)
            name(n) == IF n = Root THEN Root ELSE id[n]
            a(n) == [i \in DOMAIN kids[n] |-> name(kids[n][i])]
            u(n) == IF n = Root THEN Unset ELSE value[n]
<1>1. Tree(kids) /\ Attached \subseteq Places
  BY TreeFacts DEF Background, Attached, Places
<1>2. \A n \in Places : name(n) = f[n] /\ u(n) = w[n]
  BY NodeFacts DEF Naming, Worth, Places
<1>3. \A n \in Places : \A i \in DOMAIN kids[n] : kids[n][i] \in Places
  <2>1. \A n \in Places : kids[n] \in Seq(Nodes)
    BY <1>1 DEF Tree
  <2>. QED
    BY <2>1 DEF Places
<1>4. \A n \in Places : a(n) = Renamed(f, kids[n])
  BY <1>2, <1>3 DEF Renamed
<1>5. BackgroundTree = {[id |-> name(n), value |-> u(n), kids |-> a(n)] : n \in Attached}
  BY DEF BackgroundTree
<1>. HIDE DEF name, a, u, f, w
<1>6. \A n \in Attached : [id |-> name(n), value |-> u(n), kids |-> a(n)]
                            = [id |-> f[n], value |-> w[n], kids |-> Renamed(f, kids[n])]
  BY <1>1, <1>2, <1>4
<1>7. TreeOf(f, kids, w)
        = {[id |-> f[n], value |-> w[n], kids |-> Renamed(f, kids[n])] : n \in Attached}
  BY DEF TreeOf, Attached
<1>8. BackgroundTree = TreeOf(f, kids, w)
  BY <1>5, <1>6, <1>7
<1>. QED
  BY <1>8 DEF f, w

LEMMA CaughtTree ==
  ASSUME IInv, patching
  PROVE  MainTree(Caught) = BackgroundTree
<1>. DEFINE f == Naming(id)
            w == Worth(value)
            m == Caught
<1>1. Trunk /\ Background
  BY DEF IInv, Trunk
<1>2. PICK D \in SUBSET Places : Follows(m, D)
  BY FollowsFacts
<1>3. Renaming(f)
  BY <1>1, NamingFacts DEF Background
<1>4. Tree(kids) /\ D \subseteq Places /\ Closed(kids, D) /\ Root \in D /\ Shows(m, f, kids, w, D)
  BY <1>1, <1>2, TrunkFacts DEF Follows
<1>5. MainTree(m) = TreeOf(f, kids, w)
  <2>. HIDE DEF f, w, m
  <2>. QED
    BY <1>3, <1>4, ShownTree
<1>. QED
  BY <1>1, <1>5, BackgroundTreeIs

LEMMA MirrorsHold == ASSUME IInv PROVE MirrorsBackground
BY CaughtTree DEF MirrorsBackground, IInv, InStep

LEMMA InstancesHold == ASSUME IInv PROVE InstancesInStep
<1>1. Trunk /\ Tables /\ Background
  BY DEF IInv, Trunk
<1>2. (1..nextId) \ Gone \subseteq registry
  BY <1>1 DEF Tables
<1>3. ASSUME patching, changesAway = 0
      PROVE  Caught.ids \subseteq {Root} \cup {id[n] : n \in {m \in 1..nextId : m \notin Detached}}
  <2>1. Caught.ids = Image(Naming(id), Live)
    <3>1. PICK D \in SUBSET Places : Follows(Caught, D)
      BY <1>3, FollowsFacts
    <3>. QED
      BY <1>3, <3>1 DEF Follows, Shows
  <2>2. Renaming(Naming(id)) /\ \A n \in Nodes : Naming(id)[n] = id[n]
    BY <1>1, NamingFacts DEF Background
  <2>3. 1..nextId \subseteq Nodes
    BY <1>1, TrunkFacts
  <2>. QED
    BY <2>1, <2>2, <2>3 DEF Image, Live, Renaming
<1>. QED
  BY <1>2, <1>3 DEF InstancesInStep

\* Ids, children, the registry and the main thread's table keep their types, and no instance
\* is below two others, whatever the renderer inserts, moves, removes and brings back and
\* however commits, patches, acknowledgements and timers interleave.
THEOREM TypeCorrect == Spec => []TypeOK
BY InvariantAlways, TypeHolds, PTL

\* For every size of the page and of the first screen: what is in flight and in the buffer
\* makes, of the tree of the main thread, the tree of the background thread, also when what
\* Suspense keeps was changed while it was away; and only such a change addresses an instance
\* that snapshotPatchApply cannot find (ctxNotFound), each at most once.
THEOREM MirrorsAlways == Spec => []MirrorsBackground
BY InvariantAlways, MirrorsHold, PTL

\* No timer of a removal (tearDown) takes an instance that may still be shown, on the page or
\* kept by Suspense, out of backgroundSnapshotInstanceManager; and the main thread has dropped
\* what was removed as long as nothing that Suspense keeps was changed.
THEOREM InStepAlways == Spec => []InstancesInStep
BY InvariantAlways, InstancesHold, PTL

-----------------------------------------------------------------------------
(* The refinement of Mirror *)

Trees == SUBSET [id : Int, value : Int, kids : Seq(Int)]
Upto(q, i) == [j \in 1..i |-> q[j].ops]
Ahead(m, q) == [i \in DOMAIN q |-> MainTree(snapshotPatchApply(m, FlattenSeq(Upto(q, i))))]

LEMMA TreesFacts ==
  ASSUME Background
  PROVE  BackgroundTree \in Trees
<1>. DEFINE f == Naming(id)
            w == Worth(value)
<1>1. Tree(kids) /\ Subtree(kids, Root) \subseteq Places
  BY TreeFacts DEF Background, Places
<1>2. Maps(f, Places, Int)
  BY NamingFacts, IdFacts DEF Background, Renaming, Maps
<1>3. \A y \in Places : f[y] \in Int /\ w[y] \in Int
  BY <1>2 DEF Maps, Worth, Background, Places, Unset
<1>4. \A y \in Places : Renamed(f, kids[y]) \in Seq(Int)
  <2>1. \A y \in Places : kids[y] \in Seq(Nodes)
    BY <1>1 DEF Tree
  <2>2. Maps(f, Nodes, Int)
    BY <1>2 DEF Maps, Places
  <2>. HIDE DEF f
  <2>. QED
    BY <2>1, <2>2, RenamedFacts
<1>. HIDE DEF f, w
<1>5. \A y \in Subtree(kids, Root) :
        [id |-> f[y], value |-> w[y], kids |-> Renamed(f, kids[y])]
          \in [id : Int, value : Int, kids : Seq(Int)]
  BY <1>1, <1>3, <1>4
<1>6. TreeOf(f, kids, w) \in Trees
  BY <1>5 DEF TreeOf, Trees
<1>. QED
  BY <1>6, BackgroundTreeIs DEF f, w

LEMMA UptoFacts ==
  ASSUME NEW q \in Seq(Message), NEW i \in 1..Len(q)
  PROVE  /\ FlattenSeq(Upto(q, i)) = Head(q).ops \o FlattenSeq(Upto(Tail(q), i - 1))
         /\ Head(q).ops \in Seq(Ops) /\ FlattenSeq(Upto(Tail(q), i - 1)) \in Seq(Ops)
<1>. DEFINE p == SubSeq(q, 1, i)
            t == Tail(p)
            b == Tail(q)
<1>1. /\ p \in Seq(Message) /\ Len(p) = i /\ DOMAIN p = 1..i /\ p # <<>> /\ i \in Nat /\ i >= 1
      /\ \A j \in 1..i : p[j] = q[j]
      /\ q # <<>> /\ Head(q) = q[1] /\ Head(p) = p[1] /\ 1 \in 1..i
  OBVIOUS
<1>2. /\ DOMAIN b = 1..(Len(q) - 1) /\ \A j \in 1..(Len(q) - 1) : b[j] = q[j + 1]
      /\ Len(q) \in Nat /\ i <= Len(q)
  OBVIOUS
<1>. HIDE DEF p, b
<1>3. DOMAIN t = 1..(i - 1) /\ \A j \in 1..(i - 1) : t[j] = p[j + 1]
  BY <1>1
<1>4. /\ t \in Seq(Message) /\ Head(p) \in Message
      /\ FlattenSeq(OpsOf(p)) = Head(p).ops \o FlattenSeq(OpsOf(t))
  BY <1>1, OpsOfFacts
<1>5. OpsOf(p) = Upto(q, i)
  BY <1>1 DEF OpsOf, Upto
<1>. HIDE DEF t
<1>6. \A j \in 1..(i - 1) : t[j] = b[j]
  <2>1. \A j \in 1..(i - 1) : j + 1 \in 1..i /\ j \in 1..(Len(q) - 1)
    BY <1>1, <1>2
  <2>. QED
    BY <1>1, <1>2, <1>3, <2>1
<1>7. OpsOf(t) = Upto(b, i - 1)
  BY <1>3, <1>6 DEF OpsOf, Upto
<1>8. Head(q).ops \in Seq(Ops) /\ FlattenSeq(OpsOf(t)) \in Seq(Ops)
  BY <1>1, <1>4, AckType, OpsOfFacts
<1>. QED
  BY <1>1, <1>4, <1>5, <1>7, <1>8 DEF b

LEMMA AheadTail ==
  ASSUME NEW q \in Seq(Message), q # <<>>, NEW m
  PROVE  LET r == snapshotPatchApply(m, Head(q).ops)
         IN  /\ Ahead(m, q) # <<>> /\ Head(Ahead(m, q)) = MainTree(r)
             /\ Tail(Ahead(m, q)) = Ahead(r, Tail(q))
<1>. DEFINE v == Head(q).ops
            r == snapshotPatchApply(m, v)
            b == Tail(q)
            a == Ahead(m, q)
            c == Ahead(r, b)
<1>1. /\ Len(q) \in Nat /\ Len(q) >= 1 /\ DOMAIN q = 1..Len(q)
      /\ DOMAIN b = 1..(Len(q) - 1)
  OBVIOUS
<1>2. ASSUME NEW i \in 1..Len(q)
      PROVE  a[i] = MainTree(snapshotPatchApply(r, FlattenSeq(Upto(b, i - 1))))
  <2>. DEFINE u == FlattenSeq(Upto(b, i - 1))
  <2>1. FlattenSeq(Upto(q, i)) = v \o u /\ v \in Seq(Ops) /\ u \in Seq(Ops)
    BY UptoFacts
  <2>2. a[i] = MainTree(snapshotPatchApply(m, FlattenSeq(Upto(q, i))))
    BY <1>1 DEF Ahead
  <2>. HIDE DEF u, v, a
  <2>3. snapshotPatchApply(m, v \o u) = snapshotPatchApply(r, u)
    BY <2>1, ApplyConcat
  <2>. QED
    BY <2>1, <2>2, <2>3 DEF u
<1>3. a = [i \in 1..Len(q) |-> a[i]] /\ c = [i \in 1..(Len(q) - 1) |-> c[i]]
  BY <1>1 DEF Ahead
<1>4. \A i \in 1..(Len(q) - 1) : c[i] = MainTree(snapshotPatchApply(r, FlattenSeq(Upto(b, i))))
  BY <1>1 DEF Ahead
<1>5. \A i \in 1..(Len(q) - 1) : a[i + 1] = c[i]
  <2>1. \A i \in 1..(Len(q) - 1) : i + 1 \in 1..Len(q) /\ (i + 1) - 1 = i
    BY <1>1
  <2>. HIDE DEF a, b, c, r
  <2>. QED
    BY <1>2, <1>4, <2>1
<1>6. a[1] = MainTree(r)
  <2>1. 1 \in 1..Len(q) /\ 1 - 1 = 0
    BY <1>1
  <2>2. Upto(b, 0) = <<>>
    BY DEF Upto
  <2>. HIDE DEF a, b, r
  <2>3. a[1] = MainTree(snapshotPatchApply(r, FlattenSeq(Upto(b, 1 - 1))))
    BY <1>2, <2>1
  <2>. QED
    BY <2>1, <2>2, <2>3, FlattenNone, ApplyNone
<1>. HIDE DEF a, b, c, r
<1>7. Head(a) = a[1] /\ a # <<>>
  BY <1>1, <1>3
<1>8. Tail(a) = c
  <2>1. Len(a) = Len(q)
    BY <1>1, <1>3
  <2>2. Tail(a) = [i \in 1..(Len(q) - 1) |-> a[i + 1]]
    BY <1>1, <1>3, <2>1
  <2>. QED
    BY <1>3, <1>5, <2>2
<1>. QED
  BY <1>6, <1>7, <1>8 DEF a, b, c, r, v

LEMMA AheadAppend ==
  ASSUME NEW q \in Seq(Message), NEW x \in Message, NEW m
  PROVE  Ahead(m, Append(q, x))
           = Append(Ahead(m, q), MainTree(snapshotPatchApply(m, FlattenSeq(OpsOf(Append(q, x))))))
<1>. DEFINE s == Append(q, x)
            a == Ahead(m, q)
            d == Ahead(m, s)
            e == MainTree(snapshotPatchApply(m, FlattenSeq(OpsOf(s))))
<1>1. /\ Len(q) \in Nat /\ DOMAIN q = 1..Len(q) /\ DOMAIN s = 1..(Len(q) + 1)
      /\ \A i \in 1..Len(q) : s[i] = q[i]
  OBVIOUS
<1>. HIDE DEF s
<1>2. \A i \in 1..Len(q) : Upto(s, i) = Upto(q, i)
  <2>1. \A i \in 1..Len(q) : \A j \in 1..i : j \in 1..Len(q)
    BY <1>1
  <2>. QED
    BY <1>1, <2>1 DEF Upto
<1>3. Upto(s, Len(q) + 1) = OpsOf(s)
  BY <1>1 DEF Upto, OpsOf
<1>4. /\ a = [i \in 1..Len(q) |-> a[i]] /\ d = [i \in 1..(Len(q) + 1) |-> d[i]]
      /\ \A i \in 1..Len(q) : a[i] = MainTree(snapshotPatchApply(m, FlattenSeq(Upto(q, i))))
      /\ \A i \in 1..(Len(q) + 1) : d[i] = MainTree(snapshotPatchApply(m, FlattenSeq(Upto(s, i))))
  BY <1>1 DEF Ahead
<1>. HIDE DEF a, d
<1>5. \A i \in 1..(Len(q) + 1) : i \in 1..Len(q) \/ i = Len(q) + 1
  BY <1>1
<1>6. \A i \in 1..Len(q) : i \in 1..(Len(q) + 1) /\ d[i] = a[i]
  <2>1. \A i \in 1..Len(q) : i \in 1..(Len(q) + 1)
    BY <1>1
  <2>. QED
    BY <1>2, <1>4, <2>1
<1>7. d[Len(q) + 1] = e
  <2>1. Len(q) + 1 \in 1..(Len(q) + 1)
    BY <1>1
  <2>. QED
    BY <1>3, <1>4, <2>1
<1>. HIDE DEF e
<1>8. Append(a, e) = [i \in 1..(Len(q) + 1) |-> IF i = Len(q) + 1 THEN e ELSE a[i]]
  <2>1. Len(a) = Len(q)
    BY <1>1, <1>4
  <2>. QED
    BY <1>1, <1>4, <2>1
<1>9. d = Append(a, e)
  BY <1>4, <1>5, <1>6, <1>7, <1>8
<1>. QED
  BY <1>9 DEF a, d, e, s

Step == [Mirrored!Next]_(Mirrored!vars)

\* A step of Mirror in terms of the variables it stands for.
LEMMA ChangeStep ==
  ASSUME BackgroundTree' \in Trees, (rendering \/ ~patching)' = TRUE, patching' = patching,
         UNCHANGED <<toMain, main>>
  PROVE  Step
<1>1. Mirrored!Change
  BY DEF Mirrored!Change, Trees
<1>. QED
  BY <1>1 DEF Step, Mirrored!Next

LEMMA StutterStep ==
  ASSUME BackgroundTree' = BackgroundTree, UNCHANGED <<rendering, patching, toMain, main>>
  PROVE  Step
BY DEF Step, Mirrored!vars

\* A commit appends the tree that the main thread will then have.
LEMMA SentTree ==
  ASSUME Channels, NEW x \in Message, toMain' = Append(toMain, x), patch' = <<>>, main' = main
  PROVE  Ahead(main', toMain') = Append(Ahead(main, toMain), MainTree(Caught'))
<1>1. toMain \in Seq(Message)
  BY DEF Channels
<1>. DEFINE u == FlattenSeq(OpsOf(toMain'))
<1>2. u \in Seq(Ops)
  <2>1. toMain' \in Seq(Message)
    BY <1>1
  <2>. QED
    BY <2>1, OpsOfFacts
<1>3. InFlight' = u \o <<>>
  BY DEF InFlight, OpsOf
<1>. HIDE DEF u
<1>4. InFlight' = u
  BY <1>2, <1>3
<1>5. Caught' = snapshotPatchApply(main, u)
  BY <1>4 DEF Caught
<1>6. Ahead(main, Append(toMain, x)) = Append(Ahead(main, toMain), MainTree(snapshotPatchApply(main, u)))
  BY <1>1, AheadAppend DEF u
<1>. QED
  BY <1>5, <1>6

LEMMA PipelineIs ==
  /\ [i \in DOMAIN toMain |->
        MainTree(snapshotPatchApply(main, FlattenSeq([j \in 1..i |-> toMain[j].ops])))]
       = Ahead(main, toMain)
  /\ ([i \in DOMAIN toMain |->
        MainTree(snapshotPatchApply(main, FlattenSeq([j \in 1..i |-> toMain[j].ops])))])'
       = Ahead(main', toMain')
BY DEF Ahead, Upto

\* What the steps need of the tree.
Drawn == BackgroundTree \in Trees /\ (patching => MainTree(Caught) = BackgroundTree)

LEMMA TreeIsDrawn == ASSUME IInv PROVE Drawn
BY TreesFacts, CaughtTree DEF Drawn, IInv, Trunk

\* A step of the renderer is a change, whatever it does.
LEMMA RenderingSteps ==
  ASSUME Drawn', Rendering
  PROVE  Step
<1>1. RenderOnly /\ patching' = patching
  BY DEF Rendering, Create, setAttribute, insertBefore, removeChild
<1>2. rendering' = TRUE /\ UNCHANGED <<toMain, main>>
  BY <1>1 DEF RenderOnly, Render
<1>. QED
  BY <1>1, <1>2, ChangeStep DEF Drawn

\* A commit before hydration is one more change, as nothing is sent.
LEMMA CommitSteps ==
  ASSUME IInv, Drawn, Drawn', Commit
  PROVE  Step
<1>. DEFINE x == [commit |-> commits + 1, ops |-> patch, hydration |-> FALSE]
<1>1. /\ rendering /\ rendering' = FALSE
      /\ patching => toMain' = Append(toMain, x) /\ patch' = <<>>
      /\ ~patching => UNCHANGED <<toMain, patch>>
      /\ UNCHANGED <<id, kids, value, patching, main>>
  BY DEF Commit
<1>2. BackgroundTree' = BackgroundTree
  BY <1>1 DEF BackgroundTree, Attached
<1>3. CASE ~patching
  BY <1>1, <1>3, ChangeStep DEF Drawn
<1>4. CASE patching
  <2>1. Channels /\ Caught' = Caught
    BY CommitKeeps DEF IInv
  <2>2. x \in Message
    <3>1. commits + 1 \in 1..MaxCommits /\ patch \in Seq(Ops)
      BY <1>1, <2>1, ConstantsAssumption DEF Channels
    <3>. QED
      BY <3>1 DEF Message
  <2>. HIDE DEF x
  <2>3. Ahead(main', toMain') = Append(Ahead(main, toMain), MainTree(Caught'))
    BY <1>1, <1>4, <2>1, <2>2, SentTree
  <2>4. MainTree(Caught') = BackgroundTree
    BY <1>4, <2>1 DEF Drawn
  <2>5. Ahead(main', toMain') = Append(Ahead(main, toMain), BackgroundTree)
    BY <2>3, <2>4
  <2>6. Mirrored!Commit
    BY <1>1, <1>2, <1>4, <2>5, PipelineIs DEF Mirrored!Commit
  <2>. QED
    BY <2>6 DEF Step, Mirrored!Next
<1>. QED
  BY <1>3, <1>4

LEMMA HydrateSteps ==
  ASSUME IInv, Drawn', Hydrate
  PROVE  Step
<1>. DEFINE z == FlattenSeq(HydrateOps) \o LeftoverOps
            x == [commit |-> commits + 1, ops |-> z, hydration |-> TRUE]
<1>1. /\ ~rendering /\ ~patching /\ patching' = TRUE /\ rendering' = rendering
      /\ commits < MaxCommits /\ toMain' = Append(toMain, x) /\ UNCHANGED <<patch, main>>
  BY HydrateIs
<1>2. Channels /\ patch = <<>> /\ Background
  BY <1>1 DEF IInv, Phases, Trunk
<1>3. z \in Seq(Ops)
  BY <1>2, HydrationType
<1>. HIDE DEF z
<1>4. x \in Message
  <2>1. commits + 1 \in 1..MaxCommits
    BY <1>1, <1>2, ConstantsAssumption DEF Channels
  <2>. QED
    BY <1>3, <2>1 DEF Message
<1>. HIDE DEF x
<1>5. Ahead(main', toMain') = Append(Ahead(main, toMain), MainTree(Caught'))
  BY <1>1, <1>2, <1>4, SentTree
<1>6. MainTree(Caught') = BackgroundTree' /\ BackgroundTree' \in Trees
  BY <1>1 DEF Drawn
<1>7. Ahead(main', toMain') = Append(Ahead(main, toMain), BackgroundTree')
  BY <1>5, <1>6
<1>8. Mirrored!Hydrate
  BY <1>1, <1>6, <1>7, PipelineIs DEF Mirrored!Hydrate, Trees
<1>. QED
  BY <1>8 DEF Step, Mirrored!Next

LEMMA ShowSteps ==
  ASSUME IInv, updateMainThread
  PROVE  Step
<1>1. /\ toMain # <<>> /\ main' = snapshotPatchApply(main, Head(toMain).ops)
      /\ toMain' = Tail(toMain)
      /\ UNCHANGED <<id, kids, value, patching, rendering>>
  BY DEF updateMainThread, bgVars
<1>2. BackgroundTree' = BackgroundTree
  BY <1>1 DEF BackgroundTree, Attached
<1>3. toMain \in Seq(Message)
  BY DEF IInv, Channels
<1>4. /\ Ahead(main, toMain) # <<>> /\ Head(Ahead(main, toMain)) = MainTree(main')
      /\ Tail(Ahead(main, toMain)) = Ahead(main', toMain')
  BY <1>1, <1>3, AheadTail
<1>5. Mirrored!Show
  BY <1>1, <1>2, <1>4, PipelineIs DEF Mirrored!Show
<1>. QED
  BY <1>5 DEF Step, Mirrored!Next

LEMMA OtherSteps ==
  ASSUME ReceiveAck \/ tearDown \/ UNCHANGED vars
  PROVE  Step
<1>1. UNCHANGED <<id, kids, value, patching, rendering, toMain, main>>
  BY DEF ReceiveAck, tearDown, vars, bgVars
<1>2. BackgroundTree' = BackgroundTree
  BY <1>1 DEF BackgroundTree, Attached
<1>. QED
  BY <1>1, <1>2, StutterStep

LEMMA NextSteps ==
  ASSUME IInv, Drawn, Drawn', [Next]_vars
  PROVE  Step
BY RenderingSteps, CommitSteps, HydrateSteps, ShowSteps, OtherSteps DEF Next

LEMMA InitMirrored ==
  ASSUME Init
  PROVE  Mirrored!Init
<1>1. BackgroundTree \in Trees
  BY InitHolds, TreeIsDrawn DEF Drawn
<1>2. rendering = FALSE /\ patching = FALSE /\ toMain = <<>> /\ main = FirstMain
  BY DEF Init
<1>3. Ahead(main, toMain) = <<>>
  BY <1>2 DEF Ahead
<1>. QED
  BY <1>1, <1>2, <1>3, PipelineIs DEF Mirrored!Init, Trees

\* The main thread shows, in order and none left out, the trees that were committed (Mirror),
\* hydration included: every step of the two threads is a step of Mirror or none.
THEOREM MirrorImplemented == Spec => ImplementsMirror
<1>1. IInv => Drawn
  BY TreeIsDrawn
<1>2. Init => Mirrored!Init
  BY InitMirrored
<1>3. IInv /\ Drawn /\ Drawn' /\ [Next]_vars => [Mirrored!Next]_(Mirrored!vars)
  BY NextSteps DEF Step
<1>. QED
  BY InvariantAlways, <1>1, <1>2, <1>3, PTL DEF Spec, ImplementsMirror, Mirrored!Spec

\* Between renders the buffer is empty.
Quiet == ~rendering => patch = <<>>

LEMMA QuietNext == IInv /\ Quiet /\ [Next]_vars => Quiet'
<1> SUFFICES ASSUME IInv, Quiet, [Next]_vars PROVE Quiet'
  OBVIOUS
<1>1. CASE Rendering
  BY <1>1 DEF Rendering, Create, setAttribute, insertBefore, removeChild, RenderOnly, Render, Quiet
<1>2. CASE Commit
  BY <1>2 DEF Commit, Quiet, IInv, Phases
<1>3. CASE Hydrate
  BY <1>3 DEF Hydrate, Quiet
<1>4. CASE updateMainThread \/ ReceiveAck \/ tearDown \/ UNCHANGED vars
  BY <1>4 DEF updateMainThread, ReceiveAck, tearDown, vars, bgVars, Quiet
<1>. QED
  BY <1>1, <1>2, <1>3, <1>4 DEF Next

\* At rest there is nothing left to apply.
LEMMA RestConverges == IInv /\ Quiet => Mirrored!Converged
<1> SUFFICES ASSUME IInv, Quiet, ~rendering, patching, Ahead(main, toMain) = <<>>
             PROVE  MainTree(main) = BackgroundTree
  BY PipelineIs DEF Mirrored!Converged
<1>1. toMain = <<>>
  <2>1. toMain \in Seq(Message)
    BY DEF IInv, Channels
  <2>. QED
    BY <2>1, AheadTail
<1>2. InFlight = <<>>
  <2>1. OpsOf(<<>>) = <<>> /\ patch = <<>>
    BY DEF OpsOf, Quiet
  <2>. QED
    BY <1>1, <2>1, FlattenNone DEF InFlight, OpsOf
<1>3. Caught = main
  BY <1>2, ApplyNone DEF Caught
<1>. QED
  BY <1>3, CaughtTree

\* Converged of Mirror: when the page is hydrated, everything is committed and every patch
\* has been applied, the two threads have the same tree.
THEOREM ThreadsConverge == Spec => []Mirrored!Converged
<1>1. Init => Quiet
  BY DEF Init, Quiet
<1>. QED
  BY InvariantAlways, QuietNext, RestConverges, <1>1, PTL DEF Spec
===================================================================================
