-------------------------- MODULE ListUpdate_proofs --------------------------
(***************************************************************************)
(* Theorems about ListUpdate, for any number of items, operations and      *)
(* patches.                                                                *)
(*                                                                         *)
(* The heart is Shows: that every child is at the place that the record of *)
(* changes says.  An operation on the children preserves it by recording   *)
(* itself (ShowsInserted, ShowsRemoved, ShowsAppended, ShowsUpdated), and  *)
(* a native list that has the old items and is given the record ends with  *)
(* the children (AppliedShows).                                            *)
(***************************************************************************)
EXTENDS ListUpdate, SequenceTheorems, FiniteSetTheorems, TLAPS

LastPlace(r) == PlaceAfter(r) + Len(r.appendChild) - 1

\* The items that are recorded are at the places they are recorded for.
Shows(s, r) ==
  /\ Len(s) = LastPlace(r)
  /\ \A p \in DOMAIN r.old : \A n \in 1..Inserted(r, p) :
       s[PlaceOf(r, p) + n - 1] = r.insertBefore[r.old[p]][n]
  /\ \A p \in DOMAIN r.old : ~IsRemoved(r, p) => s[UpdatePosition(r, p)] = r.old[p]
  /\ \A n \in DOMAIN r.appendChild : s[PlaceAfter(r) + n - 1] = r.appendChild[n]

Distinct(s) == \A p, q \in DOMAIN s : s[p] = s[q] => p = q

\* Types
RecordType(r, N) ==
  /\ r.old \in Seq(N) /\ Distinct(r.old) /\ r.removeChild \subseteq N
     /\ r.platformInfoUpdate \subseteq N
  /\ r.insertBefore \in [Items -> Seq(N)] /\ r.appendChild \in Seq(N)
  /\ DOMAIN r = {"old", "removeChild", "insertBefore", "appendChild", "platformInfoUpdate"}
TypeInv ==
  /\ attached \in BOOLEAN /\ created \in 0..MaxItems /\ patches \in 0..MaxPatches
  /\ childNodes \in Seq(1..created) /\ Distinct(childNodes) /\ engine \in Seq(1..created)
  /\ placed \subseteq ToSet(childNodes)
  /\ recording = Nothing \/ RecordType(recording, 1..created)

\* What is recorded leads from the old children, which the native list has, to the new ones.
RecordInv ==
  IF recording = Nothing
  THEN engine = IF attached THEN childNodes ELSE <<>>
  ELSE /\ Shows(childNodes, recording)
       /\ engine = recording.old
       /\ ~attached => recording.old = <<>>
       /\ attached => \A c \in Children \ placed :
                        c \in ToSet(recording.old) \ recording.removeChild

-----------------------------------------------------------------------------
(* Sequences and numbers *)

\* The sequence without its element k.
LEMMA RemovedAt ==
  ASSUME NEW S, NEW q \in Seq(S), NEW k \in 1..Len(q)
  PROVE  /\ RemoveAt(q, k) \in Seq(S) /\ Len(RemoveAt(q, k)) = Len(q) - 1
         /\ \A n \in 1..(Len(q) - 1) : RemoveAt(q, k)[n] = IF n < k THEN q[n] ELSE q[n + 1]
<1>. DEFINE a == SubSeq(q, 1, k - 1)
            b == SubSeq(q, k + 1, Len(q))
<1>1. a \in Seq(S) /\ Len(a) = k - 1 /\ \A n \in 1..(k - 1) : a[n] = q[n]
  OBVIOUS
<1>2. b \in Seq(S) /\ Len(b) = Len(q) - k /\ \A n \in 1..(Len(q) - k) : b[n] = q[k + n]
  OBVIOUS
<1>3. RemoveAt(q, k) = a \o b
  BY DEF RemoveAt
<1>4. Len(q) \in Nat /\ k \in 1..Len(q)
  OBVIOUS
<1>. HIDE DEF a, b
<1>5. /\ a \o b \in Seq(S) /\ Len(a \o b) = Len(a) + Len(b)
      /\ \A n \in 1..(Len(a) + Len(b)) :
           (a \o b)[n] = IF n <= Len(a) THEN a[n] ELSE b[n - Len(a)]
  BY <1>1, <1>2, ConcatProperties
<1>. QED
  BY <1>1, <1>2, <1>3, <1>4, <1>5

Removing(S) ==
  \A q \in Seq(S) : \A k \in 1..Len(q) :
    /\ RemoveAt(q, k) \in Seq(S) /\ Len(RemoveAt(q, k)) = Len(q) - 1
    /\ \A n \in 1..(Len(q) - 1) : RemoveAt(q, k)[n] = IF n < k THEN q[n] ELSE q[n + 1]

LEMMA RemovingAlways == \A S : Removing(S)
  BY RemovedAt DEF Removing

\* The sequence with an element inserted at k.
LEMMA InsertedAt ==
  ASSUME NEW S, NEW q \in Seq(S), NEW k \in 1..(Len(q) + 1), NEW x \in S
  PROVE  /\ InsertAt(q, k, x) \in Seq(S) /\ Len(InsertAt(q, k, x)) = Len(q) + 1
         /\ \A n \in 1..(Len(q) + 1) :
              InsertAt(q, k, x)[n] = IF n < k THEN q[n] ELSE IF n = k THEN x ELSE q[n - 1]
<1>. DEFINE a == SubSeq(q, 1, k - 1)
            b == SubSeq(q, k, Len(q))
            c == a \o <<x>>
<1>1. a \in Seq(S) /\ Len(a) = k - 1 /\ \A n \in 1..(k - 1) : a[n] = q[n]
  OBVIOUS
<1>2. b \in Seq(S) /\ Len(b) = Len(q) + 1 - k /\ \A n \in 1..(Len(q) + 1 - k) : b[n] = q[k + n - 1]
  OBVIOUS
<1>3. InsertAt(q, k, x) = c \o b
  BY DEF InsertAt
<1>4. Len(q) \in Nat /\ k \in 1..(Len(q) + 1)
  OBVIOUS
<1>. HIDE DEF a, b
<1>6. c = Append(a, x)
  BY <1>1
<1>. HIDE DEF c
<1>7. c \in Seq(S) /\ Len(c) = k /\ \A n \in 1..k : c[n] = IF n < k THEN q[n] ELSE x
  BY <1>1, <1>4, <1>6
<1>8. /\ c \o b \in Seq(S) /\ Len(c \o b) = Len(c) + Len(b)
      /\ \A n \in 1..(Len(c) + Len(b)) :
           (c \o b)[n] = IF n <= Len(c) THEN c[n] ELSE b[n - Len(c)]
  BY <1>2, <1>7, ConcatProperties
<1>. QED
  BY <1>2, <1>3, <1>4, <1>7, <1>8

Adding(S) ==
  \A q \in Seq(S), x \in S : \A k \in 1..(Len(q) + 1) :
    /\ InsertAt(q, k, x) \in Seq(S) /\ Len(InsertAt(q, k, x)) = Len(q) + 1
    /\ \A n \in 1..(Len(q) + 1) :
         InsertAt(q, k, x)[n] = IF n < k THEN q[n] ELSE IF n = k THEN x ELSE q[n - 1]

LEMMA AddingAlways == \A S : Adding(S)
  BY InsertedAt DEF Adding

\* A non-empty set of natural numbers has a least element.
LEMMA LeastNumber ==
  ASSUME NEW T, T \subseteq Nat, T # {}
  PROVE  \E n \in T : \A m \in T : n <= m
  <1> DEFINE U == {1..n : n \in T}
  <1>1. U \subseteq FiniteSubsetsOf(Nat) /\ U # {}
    <2>1. \A n \in T : 1..n \in SUBSET Nat /\ IsFiniteSet(1..n)
      BY FS_Interval
    <2>. QED  BY <2>1 DEF FiniteSubsetsOf
  <1>2. PICK x \in U : \A y \in U : ~ (<<y, x>> \in StrictSubsetOrdering(Nat))
    <2> HIDE DEF U
    <2>. QED  BY <1>1, WFMin, FS_StrictSubsetOrderingWellFounded
  <1>3. PICK n \in T : x = 1..n
    BY <1>2
  <1>4. ASSUME NEW m \in T, m < n PROVE FALSE
    <2>1. 1..m \in U /\ 1..m \subseteq 1..n /\ 1..m # 1..n
      <3>1. n \in 1..n /\ n \notin 1..m
        BY <1>4
      <3>. QED  BY <3>1, <1>4
    <2>2. 1..m \in SUBSET Nat /\ 1..n \in SUBSET Nat
      OBVIOUS
    <2>. QED  BY <1>2, <1>3, <2>1, <2>2 DEF StrictSubsetOrdering
  <1>. QED  BY <1>4

\* What holds of 0 and is passed on holds of all numbers up to N.
LEMMA UpTo ==
  ASSUME NEW N \in Nat, NEW T, 0 \in T, \A n \in 0..N : n + 1 <= N /\ n \in T => n + 1 \in T
  PROVE  \A n \in 0..N : n \in T
<1>. DEFINE U == {n \in 0..N : n \notin T}
<1>1. SUFFICES ASSUME U # {} PROVE FALSE
  OBVIOUS
<1>2. U \subseteq Nat
  OBVIOUS
<1>3. PICK n \in U : \A m \in U : n <= m
  <2>. HIDE DEF U
  <2>. QED
    BY <1>1, <1>2, LeastNumber
<1>4. n \in 1..N /\ n \notin T
  BY <1>3
<1>5. n - 1 \in 0..N /\ n - 1 \notin U /\ (n - 1) + 1 = n
  BY <1>3, <1>4
<1>. QED
  BY <1>4, <1>5

-----------------------------------------------------------------------------
(* Places *)

\* Places are counted from one.
LEMMA PlaceStart ==
  ASSUME NEW r, Len(r.old) \in Nat
  PROVE  /\ PlaceOf(r, 1) = 1
         /\ \A p \in 1..Len(r.old) :
              PlaceOf(r, p + 1) =
                PlaceOf(r, p) + Inserted(r, p) + (IF IsRemoved(r, p) THEN 0 ELSE 1)
<1>. DEFINE L == Len(r.old)
            S(n) == 1..(n + 1)
            R(f, q) == IF q = 1 THEN 1
                       ELSE f[q - 1] + Inserted(r, q - 1) + (IF IsRemoved(r, q - 1) THEN 0 ELSE 1)
            T == {n \in 0..L : \E f : f = [q \in S(n) |-> R(f, q)]}
<1>1. 0 \in T
  <2>. DEFINE g == [q \in S(0) |-> 1]
  <2>1. g = [q \in S(0) |-> R(g, q)]
    OBVIOUS
  <2>2. 0 \in 0..L
    OBVIOUS
  <2>. HIDE DEF g, S
  <2>. QED
    BY <2>1, <2>2
<1>2. ASSUME NEW n \in 0..L, n + 1 <= L, n \in T PROVE n + 1 \in T
  <2>1. PICK g : g = [q \in S(n) |-> R(g, q)]
    BY <1>2
  <2>. DEFINE h == [q \in S(n + 1) |-> IF q = n + 2 THEN R(g, q) ELSE g[q]]
  <2>2. ASSUME NEW q \in S(n + 1) PROVE h[q] = R(h, q)
    <3>1. CASE q = 1
      BY <2>1, <3>1
    <3>2. CASE q # 1
      <4>1. q - 1 \in S(n + 1) /\ q - 1 # n + 2
        BY <3>2
      <4>2. h[q - 1] = g[q - 1]
        BY <4>1
      <4>3. R(h, q) = R(g, q)
        BY <4>2
      <4>4. CASE q = n + 2
        BY <4>3, <4>4
      <4>5. CASE q # n + 2
        <5>1. q \in S(n)
          BY <4>5
        <5>2. g[q] = R(g, q)
          BY <2>1, <5>1
        <5>. QED
          BY <4>3, <4>5, <5>2
      <4>. QED
        BY <4>4, <4>5
    <3>. QED
      BY <3>1, <3>2
  <2>3. h = [q \in S(n + 1) |-> R(h, q)]
    <3>1. DOMAIN h = S(n + 1) /\ h = [q \in S(n + 1) |-> h[q]]
      OBVIOUS
    <3>. HIDE DEF h
    <3>. QED
      BY <2>2, <3>1
  <2>4. n + 1 \in 0..L
    BY <1>2
  <2>. HIDE DEF h
  <2>. QED
    BY <2>3, <2>4
<1>3. L \in T
  <2>. HIDE DEF T
  <2>1. L \in 0..L
    OBVIOUS
  <2>. QED
    BY <1>1, <1>2, <2>1, UpTo
<1>. DEFINE place == CHOOSE f : f = [q \in 1..(Len(r.old) + 1) |-> R(f, q)]
<1>4. place = [q \in 1..(L + 1) |-> R(place, q)]
  BY <1>3
<1>5. \A p : PlaceOf(r, p) = place[p]
  BY DEF PlaceOf
<1>. HIDE DEF place
<1>6. \A q \in 1..(L + 1) : place[q] = R(place, q)
  BY <1>4
<1>7. place[1] = 1
  BY <1>6
<1>8. ASSUME NEW p \in 1..L
      PROVE  place[p + 1] = place[p] + Inserted(r, p) + (IF IsRemoved(r, p) THEN 0 ELSE 1)
  <2>1. p + 1 \in 1..(L + 1) /\ p + 1 # 1 /\ (p + 1) - 1 = p
    OBVIOUS
  <2>2. place[p + 1] = R(place, p + 1)
    BY <1>6, <2>1
  <2>. QED
    BY <2>1, <2>2
<1>. QED
  BY <1>5, <1>7, <1>8

Step(r, p) == Inserted(r, p) + (IF IsRemoved(r, p) THEN 0 ELSE 1)

\* What the types of a record say of its parts.
LEMMA RecordFacts ==
  ASSUME NEW N, N \subseteq Items, NEW r, RecordType(r, N)
  PROVE  /\ r.old \in Seq(N) /\ Len(r.old) \in Nat /\ DOMAIN r.old = 1..Len(r.old)
         /\ r.appendChild \in Seq(N) /\ Len(r.appendChild) \in Nat
         /\ DOMAIN r.appendChild = 1..Len(r.appendChild)
         /\ \A p \in 1..Len(r.old) :
              /\ r.old[p] \in N /\ r.insertBefore[r.old[p]] \in Seq(N)
              /\ Inserted(r, p) \in Nat /\ Step(r, p) \in Nat /\ Inserted(r, p) <= Step(r, p)
              /\ DOMAIN r.insertBefore[r.old[p]] = 1..Inserted(r, p)
              /\ ~IsRemoved(r, p) => Step(r, p) = Inserted(r, p) + 1
              /\ IsRemoved(r, p) => Step(r, p) = Inserted(r, p)
         /\ \A p, q \in 1..Len(r.old) : r.old[p] = r.old[q] => p = q
<1>1. r.old \in Seq(N) /\ r.appendChild \in Seq(N) /\ r.insertBefore \in [Items -> Seq(N)]
      /\ Distinct(r.old)
  BY DEF RecordType
<1>2. Len(r.old) \in Nat /\ DOMAIN r.old = 1..Len(r.old)
  BY <1>1
<1>3. ASSUME NEW p \in 1..Len(r.old)
      PROVE  /\ r.old[p] \in N /\ r.insertBefore[r.old[p]] \in Seq(N) /\ Inserted(r, p) \in Nat
             /\ DOMAIN r.insertBefore[r.old[p]] = 1..Inserted(r, p)
  <2>1. r.old[p] \in N
    BY <1>1, <1>2
  <2>2. r.insertBefore[r.old[p]] \in Seq(N)
    BY <1>1, <2>1
  <2>. QED
    BY <2>1, <2>2 DEF Inserted
<1>4. ASSUME NEW p \in 1..Len(r.old)
      PROVE  /\ Step(r, p) \in Nat /\ Inserted(r, p) <= Step(r, p)
             /\ ~IsRemoved(r, p) => Step(r, p) = Inserted(r, p) + 1
             /\ IsRemoved(r, p) => Step(r, p) = Inserted(r, p)
  BY <1>3 DEF Step
<1>5. \A p, q \in 1..Len(r.old) : r.old[p] = r.old[q] => p = q
  BY <1>1, <1>2 DEF Distinct
<1>6. Len(r.appendChild) \in Nat /\ DOMAIN r.appendChild = 1..Len(r.appendChild)
  BY <1>1
<1>. QED
  BY <1>1, <1>2, <1>3, <1>4, <1>5, <1>6

\* An old item takes the places of the items inserted before it, and its own unless removed.
LEMMA PlaceSteps ==
  ASSUME NEW N, N \subseteq Items, NEW r, RecordType(r, N)
  PROVE  /\ PlaceOf(r, 1) = 1
         /\ \A p \in 1..(Len(r.old) + 1) : PlaceOf(r, p) \in Nat \ {0}
         /\ \A p \in 1..Len(r.old) : PlaceOf(r, p + 1) = PlaceOf(r, p) + Step(r, p)
         /\ PlaceAfter(r) \in Nat \ {0} /\ LastPlace(r) \in Nat
<1>. DEFINE L == Len(r.old)
            T == {n \in 0..L : PlaceOf(r, n + 1) \in Nat \ {0}}
<1>0. L \in Nat /\ \A p \in 1..L : Inserted(r, p) \in Nat /\ Step(r, p) \in Nat
  BY RecordFacts
<1>1. PlaceOf(r, 1) = 1
  BY <1>0, PlaceStart
<1>2. ASSUME NEW p \in 1..L, PlaceOf(r, p) \in Nat
      PROVE PlaceOf(r, p + 1) = PlaceOf(r, p) + Step(r, p)
  <2>1. PlaceOf(r, p + 1) = PlaceOf(r, p) + Inserted(r, p) + (IF IsRemoved(r, p) THEN 0 ELSE 1)
    BY <1>0, PlaceStart
  <2>. QED
    BY <1>0, <1>2, <2>1 DEF Step
<1>3. 0 \in T
  BY <1>0, <1>1
<1>4. ASSUME NEW n \in 0..L, n + 1 <= L, n \in T PROVE n + 1 \in T
  <2>1. n + 1 \in 1..L /\ n + 1 \in 0..L
    BY <1>0, <1>4
  <2>2. PlaceOf(r, (n + 1) + 1) = PlaceOf(r, n + 1) + Step(r, n + 1)
    BY <1>2, <1>4, <2>1
  <2>. QED
    BY <1>0, <1>4, <2>1, <2>2
<1>5. \A n \in 0..L : n \in T
  <2>. HIDE DEF T
  <2>. QED
    BY <1>0, <1>3, <1>4, UpTo
<1>6. ASSUME NEW p \in 1..(L + 1) PROVE PlaceOf(r, p) \in Nat \ {0}
  <2>1. p - 1 \in 0..L /\ (p - 1) + 1 = p
    BY <1>0
  <2>2. p - 1 \in T
    BY <1>5, <2>1
  <2>. QED
    BY <2>1, <2>2
<1>7. \A p \in 1..L : PlaceOf(r, p + 1) = PlaceOf(r, p) + Step(r, p)
  BY <1>0, <1>2, <1>6
<1>8. PlaceAfter(r) \in Nat \ {0}
  BY <1>0, <1>6 DEF PlaceAfter
<1>9. LastPlace(r) \in Nat
  BY <1>8, RecordFacts DEF LastPlace
<1>. QED
  BY <1>1, <1>6, <1>7, <1>8, <1>9

\* A place behind another is behind all that belongs to that one.
LEMMA PlacesAscend ==
  ASSUME NEW N, N \subseteq Items, NEW r, RecordType(r, N),
         NEW p \in 1..Len(r.old), NEW q \in 1..(Len(r.old) + 1), p < q
  PROVE  PlaceOf(r, p) + Step(r, p) <= PlaceOf(r, q)
<1>. DEFINE L == Len(r.old)
            T == {n \in 0..L : p <= n => PlaceOf(r, p) + Step(r, p) <= PlaceOf(r, n + 1)}
<1>0. /\ L \in Nat /\ p \in 1..L /\ \A o \in 1..L : Step(r, o) \in Nat
      /\ \A o \in 1..(L + 1) : PlaceOf(r, o) \in Nat
      /\ \A o \in 1..L : PlaceOf(r, o + 1) = PlaceOf(r, o) + Step(r, o)
  BY RecordFacts, PlaceSteps
<1>1. 0 \in T
  BY <1>0
<1>2. ASSUME NEW n \in 0..L, n + 1 <= L, n \in T PROVE n + 1 \in T
  <2>1. n + 1 \in 1..L /\ n + 1 \in 0..L /\ n + 1 \in 1..(L + 1) /\ p \in 1..(L + 1)
    BY <1>0, <1>2
  <2>2. PlaceOf(r, (n + 1) + 1) = PlaceOf(r, n + 1) + Step(r, n + 1)
    BY <1>0, <2>1
  <2>3. CASE p <= n
    <3>1. PlaceOf(r, p) + Step(r, p) <= PlaceOf(r, n + 1)
      BY <1>2, <2>3
    <3>. QED
      BY <1>0, <2>1, <2>2, <3>1
  <2>4. CASE p = n + 1
    BY <1>0, <2>1, <2>2, <2>4
  <2>5. CASE n + 1 < p
    BY <1>0, <2>1, <2>5
  <2>. QED
    BY <1>0, <2>3, <2>4, <2>5
<1>3. \A n \in 0..L : n \in T
  <2>. HIDE DEF T
  <2>. QED
    BY <1>0, <1>1, <1>2, UpTo
<1>4. q - 1 \in 0..L /\ (q - 1) + 1 = q /\ p <= q - 1
  BY <1>0
<1>5. q - 1 \in T
  BY <1>3, <1>4
<1>. QED
  BY <1>4, <1>5

\* Every place belongs to an item that is inserted, stays or is appended.
LEMMA PlacesCover ==
  ASSUME NEW N, N \subseteq Items, NEW r, RecordType(r, N), NEW k \in 1..LastPlace(r)
  PROVE  \/ \E p \in 1..Len(r.old) : \E n \in 1..Inserted(r, p) : k = PlaceOf(r, p) + n - 1
         \/ \E p \in 1..Len(r.old) : ~IsRemoved(r, p) /\ k = UpdatePosition(r, p)
         \/ \E n \in 1..Len(r.appendChild) : k = PlaceAfter(r) + n - 1
<1>. DEFINE L == Len(r.old)
            Found == \E p \in 1..L : PlaceOf(r, p) <= k /\ k < PlaceOf(r, p) + Step(r, p)
            T == {n \in 0..L : k < PlaceOf(r, n + 1) => Found}
<1>0. /\ L \in Nat /\ \A o \in 1..L : Step(r, o) \in Nat /\ Inserted(r, o) \in Nat
      /\ \A o \in 1..(L + 1) : PlaceOf(r, o) \in Nat
      /\ \A o \in 1..L : PlaceOf(r, o + 1) = PlaceOf(r, o) + Step(r, o)
      /\ PlaceOf(r, 1) = 1 /\ k \in Nat /\ k \in 1..LastPlace(r)
      /\ LastPlace(r) \in Nat /\ PlaceAfter(r) \in Nat /\ Len(r.appendChild) \in Nat
  <2>1. L \in Nat /\ Len(r.appendChild) \in Nat /\ \A o \in 1..L : Step(r, o) \in Nat
        /\ Inserted(r, o) \in Nat
    BY RecordFacts
  <2>2. /\ \A o \in 1..(L + 1) : PlaceOf(r, o) \in Nat
        /\ \A o \in 1..L : PlaceOf(r, o + 1) = PlaceOf(r, o) + Step(r, o)
        /\ PlaceOf(r, 1) = 1 /\ LastPlace(r) \in Nat /\ PlaceAfter(r) \in Nat
    BY PlaceSteps
  <2>3. k \in Nat /\ k \in 1..LastPlace(r)
    BY <2>2
  <2>. HIDE DEF L
  <2>. QED
    BY <2>1, <2>2, <2>3
<1>1. 0 \in T
  BY <1>0
<1>2. ASSUME NEW n \in 0..L, n + 1 <= L, n \in T PROVE n + 1 \in T
  <2>1. n + 1 \in 1..L /\ n + 1 \in 0..L /\ n + 1 \in 1..(L + 1)
    BY <1>0, <1>2
  <2>2. PlaceOf(r, (n + 1) + 1) = PlaceOf(r, n + 1) + Step(r, n + 1)
    BY <1>0, <2>1
  <2>3. SUFFICES ASSUME k < PlaceOf(r, (n + 1) + 1) PROVE Found
    BY <2>1
  <2>4. CASE k < PlaceOf(r, n + 1)
    BY <1>2, <2>4
  <2>5. CASE PlaceOf(r, n + 1) <= k
    BY <2>1, <2>2, <2>3, <2>5
  <2>. QED
    BY <1>0, <2>1, <2>4, <2>5
<1>3. \A n \in 0..L : n \in T
  <2>. HIDE DEF T, Found
  <2>. QED
    BY <1>0, <1>1, <1>2, UpTo
<1>4. CASE k < PlaceAfter(r)
  <2>1. L \in T
    BY <1>0, <1>3
  <2>2. PICK p \in 1..L : PlaceOf(r, p) <= k /\ k < PlaceOf(r, p) + Step(r, p)
    BY <1>4, <2>1 DEF PlaceAfter
  <2>3. p \in 1..(L + 1) /\ PlaceOf(r, p) \in Nat
    BY <1>0
  <2>4. CASE k < PlaceOf(r, p) + Inserted(r, p)
    <3>. DEFINE n == k - PlaceOf(r, p) + 1
    <3>1. n \in 1..Inserted(r, p) /\ k = PlaceOf(r, p) + n - 1
      BY <1>0, <2>2, <2>3, <2>4
    <3>. QED
      BY <3>1
  <2>5. CASE ~(k < PlaceOf(r, p) + Inserted(r, p))
    <3>1. ~IsRemoved(r, p) /\ Step(r, p) = Inserted(r, p) + 1
      BY <1>0, <2>2, <2>3, <2>5, RecordFacts
    <3>2. k = PlaceOf(r, p) + Inserted(r, p)
      BY <1>0, <2>2, <2>3, <2>5, <3>1
    <3>. QED
      BY <3>1, <3>2 DEF UpdatePosition
  <2>. QED
    BY <2>4, <2>5
<1>5. CASE PlaceAfter(r) <= k
  <2>. DEFINE n == k - PlaceAfter(r) + 1
  <2>1. k <= PlaceAfter(r) + Len(r.appendChild) - 1
    BY <1>0 DEF LastPlace
  <2>2. n \in 1..Len(r.appendChild) /\ k = PlaceAfter(r) + n - 1
    BY <1>0, <1>5, <2>1
  <2>. QED
    BY <2>2
<1>. QED
  BY <1>0, <1>4, <1>5

\* One old place, o, takes d more.
Wider(r, u, o, d) ==
  /\ u.old = r.old /\ o \in Nat \ {0} /\ d \in Int
  /\ \A p \in 1..Len(r.old) : Step(u, p) = IF p = o THEN Step(r, p) + d ELSE Step(r, p)

\* The places behind it shift.
LEMMA PlacesShift ==
  ASSUME NEW N, N \subseteq Items, NEW r, RecordType(r, N), NEW u, RecordType(u, N),
         NEW o, NEW d, Wider(r, u, o, d)
  PROVE  \A p \in 1..(Len(r.old) + 1) : PlaceOf(u, p) = IF o < p THEN PlaceOf(r, p) + d
                                                        ELSE PlaceOf(r, p)
<1>. DEFINE L == Len(r.old)
            T == {n \in 0..L : PlaceOf(u, n + 1) = IF o < n + 1 THEN PlaceOf(r, n + 1) + d
                                                   ELSE PlaceOf(r, n + 1)}
<1>9. /\ u.old = r.old /\ o \in Nat /\ o # 0 /\ d \in Int
      /\ \A p \in 1..L : Step(u, p) = IF p = o THEN Step(r, p) + d ELSE Step(r, p)
  BY DEF Wider
<1>0. /\ L \in Nat /\ o \in Nat /\ o # 0 /\ d \in Int /\ \A p \in 1..L : Step(r, p) \in Nat
         /\ Step(u, p) \in Nat
      /\ \A p \in 1..(L + 1) : PlaceOf(r, p) \in Nat
      /\ \A p \in 1..L : PlaceOf(r, p + 1) = PlaceOf(r, p) + Step(r, p)
      /\ \A p \in 1..L : PlaceOf(u, p + 1) = PlaceOf(u, p) + Step(u, p)
      /\ PlaceOf(r, 1) = 1 /\ PlaceOf(u, 1) = 1
  <2>0. L \in Nat
    BY RecordFacts
  <2>1. \A p \in 1..L : Step(r, p) \in Nat
    BY RecordFacts
  <2>5. Len(u.old) = L
    BY <1>9
  <2>2. \A p \in 1..L : Step(u, p) \in Nat
    BY <2>5, RecordFacts
  <2>3. /\ \A p \in 1..(L + 1) : PlaceOf(r, p) \in Nat
        /\ \A p \in 1..L : PlaceOf(r, p + 1) = PlaceOf(r, p) + Step(r, p)
        /\ PlaceOf(r, 1) = 1
    BY PlaceSteps
  <2>4. /\ \A p \in 1..L : PlaceOf(u, p + 1) = PlaceOf(u, p) + Step(u, p)
        /\ PlaceOf(u, 1) = 1
    BY <2>5, PlaceSteps
  <2>. HIDE DEF L
  <2>. QED
    BY <1>9, <2>0, <2>1, <2>2, <2>3, <2>4
<1>1. 0 \in T
  BY <1>0
<1>2. ASSUME NEW n \in 0..L, n + 1 <= L, n \in T PROVE n + 1 \in T
  <2>1. n + 1 \in 1..L /\ n + 1 \in 0..L /\ n + 1 \in 1..(L + 1)
    BY <1>0, <1>2
  <2>2. /\ PlaceOf(r, (n + 1) + 1) = PlaceOf(r, n + 1) + Step(r, n + 1)
        /\ PlaceOf(u, (n + 1) + 1) = PlaceOf(u, n + 1) + Step(u, n + 1)
        /\ PlaceOf(r, n + 1) \in Nat /\ Step(r, n + 1) \in Nat
    BY <1>0, <2>1
  <2>3. PlaceOf(u, n + 1) = IF o < n + 1 THEN PlaceOf(r, n + 1) + d ELSE PlaceOf(r, n + 1)
    BY <1>2
  <2>4. Step(u, n + 1) = IF n + 1 = o THEN Step(r, n + 1) + d ELSE Step(r, n + 1)
    BY <1>9, <2>1
  <2>5. PlaceOf(u, (n + 1) + 1) = IF o < (n + 1) + 1 THEN PlaceOf(r, (n + 1) + 1) + d
                                  ELSE PlaceOf(r, (n + 1) + 1)
    BY <1>0, <2>2, <2>3, <2>4
  <2>. QED
    BY <2>1, <2>5
<1>3. \A n \in 0..L : n \in T
  <2>. HIDE DEF T
  <2>. QED
    BY <1>0, <1>1, <1>2, UpTo
<1>4. ASSUME NEW p \in 1..(L + 1)
      PROVE  PlaceOf(u, p) = IF o < p THEN PlaceOf(r, p) + d ELSE PlaceOf(r, p)
  <2>1. p - 1 \in 0..L /\ (p - 1) + 1 = p
    BY <1>0
  <2>2. p - 1 \in T
    BY <1>3, <2>1
  <2>. QED
    BY <2>1, <2>2
<1>. QED
  BY <1>4

\* Where the places of a record are.
LEMMA PlaceBounds ==
  ASSUME NEW N, N \subseteq Items, NEW r, RecordType(r, N), NEW p \in 1..Len(r.old)
  PROVE  /\ PlaceOf(r, p) \in Nat \ {0} /\ Inserted(r, p) \in Nat /\ Step(r, p) \in Nat
         /\ UpdatePosition(r, p) = PlaceOf(r, p) + Inserted(r, p)
         /\ PlaceAfter(r) \in Nat /\ Len(r.appendChild) \in Nat
         /\ LastPlace(r) = PlaceAfter(r) + Len(r.appendChild) - 1
         /\ Inserted(r, p) <= Step(r, p) /\ PlaceOf(r, p) + Step(r, p) <= PlaceAfter(r)
         /\ ~IsRemoved(r, p) => Step(r, p) = Inserted(r, p) + 1
         /\ IsRemoved(r, p) => Step(r, p) = Inserted(r, p)
<1>. DEFINE L == Len(r.old)
<1>1. L \in Nat /\ Len(r.appendChild) \in Nat
  BY RecordFacts
<1>2. /\ Inserted(r, p) \in Nat /\ Step(r, p) \in Nat /\ Inserted(r, p) <= Step(r, p)
      /\ ~IsRemoved(r, p) => Step(r, p) = Inserted(r, p) + 1
      /\ IsRemoved(r, p) => Step(r, p) = Inserted(r, p)
  BY RecordFacts
<1>3. PlaceAfter(r) \in Nat
  BY PlaceSteps
<1>4. p \in 1..(L + 1) /\ L + 1 \in 1..(L + 1) /\ p < L + 1
  BY <1>1
<1>5. PlaceOf(r, p) \in Nat \ {0}
  BY <1>4, PlaceSteps
<1>6. PlaceOf(r, p) + Step(r, p) <= PlaceAfter(r)
  BY <1>4, PlacesAscend DEF PlaceAfter
<1>. QED
  BY <1>1, <1>2, <1>3, <1>5, <1>6 DEF UpdatePosition, LastPlace

\* What a list has at the places of other old items and at its end.
ShownAround(s, r, o) ==
  /\ Len(s) = LastPlace(r)
  /\ \A p \in 1..Len(r.old) : p # o => \A n \in 1..Inserted(r, p) :
       s[PlaceOf(r, p) + n - 1] = r.insertBefore[r.old[p]][n]
  /\ \A p \in 1..Len(r.old) : p # o /\ ~IsRemoved(r, p) => s[UpdatePosition(r, p)] = r.old[p]
  /\ \A n \in 1..Len(r.appendChild) : s[PlaceAfter(r) + n - 1] = r.appendChild[n]

\* Shows, with the numbers it speaks of typed.
LEMMA ShowsIs ==
  ASSUME NEW N, N \subseteq Items, NEW r, RecordType(r, N), NEW s
  PROVE  Shows(s, r) <=>
           /\ Len(s) = LastPlace(r)
           /\ \A p \in 1..Len(r.old) : \A n \in 1..Inserted(r, p) :
                s[PlaceOf(r, p) + n - 1] = r.insertBefore[r.old[p]][n]
           /\ \A p \in 1..Len(r.old) : ~IsRemoved(r, p) => s[UpdatePosition(r, p)] = r.old[p]
           /\ \A n \in 1..Len(r.appendChild) : s[PlaceAfter(r) + n - 1] = r.appendChild[n]
<1>1. DOMAIN r.old = 1..Len(r.old) /\ DOMAIN r.appendChild = 1..Len(r.appendChild)
  BY RecordFacts
<1>. QED
  BY <1>1 DEF Shows

\* The old place o, and with it the list, is d longer, and only there.
Reshaped(r, u, s, t, o, d) ==
  /\ u.old = r.old /\ u.appendChild = r.appendChild /\ d \in Int
  /\ Step(u, o) = Step(r, o) + d /\ Len(t) = Len(s) + d
  /\ \A p \in 1..Len(r.old) : p # o =>
       /\ u.insertBefore[r.old[p]] = r.insertBefore[r.old[p]]
       /\ IsRemoved(u, p) <=> IsRemoved(r, p)
  /\ \A n \in 1..(UpdatePosition(r, o) - 1) : t[n] = s[n]
  /\ \A n \in (PlaceOf(r, o) + Step(r, o))..Len(s) : t[n + d] = s[n]

\* An old item that is kept and the items inserted before it are where the record says.
ShownAt(s, r, o) ==
  /\ \A n \in 1..Inserted(r, o) : s[PlaceOf(r, o) + n - 1] = r.insertBefore[r.old[o]][n]
  /\ ~IsRemoved(r, o) => s[UpdatePosition(r, o)] = r.old[o]

LEMMA ShowsAt ==
  ASSUME NEW N, N \subseteq Items, NEW r, RecordType(r, N), NEW s, Shows(s, r),
         NEW o \in 1..Len(r.old)
  PROVE  ShownAt(s, r, o)
<1>1. o \in DOMAIN r.old
  BY RecordFacts
<1>. QED
  BY <1>1 DEF Shows, ShownAt

\* A record is shown by a list that has the same items at shifted places.
LEMMA ShowsAround ==
  ASSUME NEW N, N \subseteq Items, NEW r, RecordType(r, N), NEW u, RecordType(u, N),
         NEW s, NEW t, Shows(s, r), NEW o \in 1..Len(r.old), NEW d, Reshaped(r, u, s, t, o, d)
  PROVE  ShownAround(t, u, o) /\ PlaceOf(u, o) = PlaceOf(r, o)
<1>. DEFINE L == Len(r.old)
<1>0. L \in Nat /\ o \in Nat /\ o # 0 /\ o \in 1..(L + 1) /\ L + 1 \in 1..(L + 1)
  <2>1. L \in Nat
    BY RecordFacts
  <2>. HIDE DEF L
  <2>2. o \in 1..L
    BY DEF L
  <2>. QED
    BY <2>1, <2>2
<1>20. /\ u.old = r.old /\ u.appendChild = r.appendChild /\ d \in Int
      /\ Step(u, o) = Step(r, o) + d /\ Len(t) = Len(s) + d
      /\ \A p \in 1..L : p # o =>
           /\ u.insertBefore[r.old[p]] = r.insertBefore[r.old[p]]
           /\ IsRemoved(u, p) <=> IsRemoved(r, p)
  BY DEF Reshaped
<1>21. /\ \A n \in 1..(UpdatePosition(r, o) - 1) : t[n] = s[n]
      /\ \A n \in (PlaceOf(r, o) + Step(r, o))..Len(s) : t[n + d] = s[n]
  BY DEF Reshaped
<1>22. o \in 1..L
  OBVIOUS
<1>23. d \in Int
  BY <1>20
<1>1. \A p \in 1..L : p # o => Inserted(u, p) = Inserted(r, p) /\ Step(u, p) = Step(r, p)
  BY <1>20 DEF Inserted, Step
<1>2. \A p \in 1..(L + 1) : PlaceOf(u, p) = IF o < p THEN PlaceOf(r, p) + d ELSE PlaceOf(r, p)
  <2>1. \A p \in 1..L : Step(u, p) = IF p = o THEN Step(r, p) + d ELSE Step(r, p)
    BY <1>20, <1>1
  <2>2. Wider(r, u, o, d)
    BY <1>0, <1>20, <2>1 DEF Wider
  <2>. QED
    BY <1>0, <2>2, PlacesShift
<1>3. PlaceOf(u, o) = PlaceOf(r, o)
  BY <1>0, <1>2
<1>4. PlaceAfter(u) = PlaceAfter(r) + d
  BY <1>0, <1>20, <1>2 DEF PlaceAfter
<1>5. /\ PlaceOf(r, o) \in Nat \ {0} /\ Inserted(r, o) \in Nat /\ Step(r, o) \in Nat
      /\ UpdatePosition(r, o) = PlaceOf(r, o) + Inserted(r, o)
      /\ PlaceAfter(r) \in Nat /\ Len(r.appendChild) \in Nat
      /\ LastPlace(r) = PlaceAfter(r) + Len(r.appendChild) - 1
      /\ PlaceOf(r, o) + Step(r, o) <= PlaceAfter(r)
  BY PlaceBounds
<1>6. /\ Len(s) = LastPlace(r)
      /\ \A p \in 1..L : \A n \in 1..Inserted(r, p) :
           s[PlaceOf(r, p) + n - 1] = r.insertBefore[r.old[p]][n]
      /\ \A p \in 1..L : ~IsRemoved(r, p) => s[UpdatePosition(r, p)] = r.old[p]
      /\ \A n \in 1..Len(r.appendChild) : s[PlaceAfter(r) + n - 1] = r.appendChild[n]
  BY ShowsIs
<1>. HIDE DEF L
<1>7. Len(t) = LastPlace(u)
  BY <1>4, <1>5, <1>6, <1>20 DEF LastPlace
<1>8. ASSUME NEW n \in 1..Len(u.appendChild) PROVE t[PlaceAfter(u) + n - 1] = u.appendChild[n]
  <2>. DEFINE m == PlaceAfter(r) + n - 1
  <2>1. n \in 1..Len(r.appendChild) /\ n \in Nat
    BY <1>5, <1>20
  <2>2. m \in (PlaceOf(r, o) + Step(r, o))..Len(s) /\ m + d = PlaceAfter(u) + n - 1
    <3>1. n >= 1 /\ n <= Len(r.appendChild)
      BY <1>5, <2>1
    <3>2. Len(s) = PlaceAfter(r) + Len(r.appendChild) - 1
      BY <1>5, <1>6
    <3>3. m + d = PlaceAfter(u) + n - 1
      BY <1>4, <1>5, <1>23, <2>1
    <3>4. PlaceOf(r, o) + Step(r, o) <= m /\ m <= Len(s) /\ m \in Int
      BY <1>5, <2>1, <3>1, <3>2, SMTT(30)
    <3>5. PlaceOf(r, o) + Step(r, o) \in Int /\ Len(s) \in Int
      BY <1>5, <3>2
    <3>. QED
      BY <3>3, <3>4, <3>5
  <2>3. s[m] = r.appendChild[n]
    BY <1>6, <2>1
  <2>4. t[m + d] = s[m]
    BY <1>21, <2>2
  <2>. QED
    BY <1>20, <2>2, <2>3, <2>4
\* A place of another old item, in the old list and in the new one.
<1>9. ASSUME NEW p \in 1..L, p # o, NEW k \in Nat, k < Step(r, p)
      PROVE  t[PlaceOf(u, p) + k] = s[PlaceOf(r, p) + k]
  <2>1. /\ PlaceOf(r, p) \in Nat \ {0} /\ Step(r, p) \in Nat
        /\ PlaceOf(r, p) + Step(r, p) <= PlaceAfter(r)
    BY PlaceBounds DEF L
  <2>2. p \in 1..(L + 1) /\ p \in Nat
    BY <1>0
  <2>3. CASE p < o
    <3>1. PlaceOf(r, p) + Step(r, p) <= PlaceOf(r, o)
      BY <1>0, <2>3, PlacesAscend DEF L
    <3>2. PlaceOf(u, p) = PlaceOf(r, p)
      BY <1>0, <1>2, <2>2, <2>3
    <3>3. PlaceOf(r, p) + k \in 1..(UpdatePosition(r, o) - 1)
      <4>1. PlaceOf(r, p) + k < PlaceOf(r, o) /\ PlaceOf(r, p) + k \in Nat \ {0}
        BY <1>5, <1>9, <2>1, <3>1
      <4>. QED
        BY <1>5, <4>1
    <3>. QED
      BY <1>21, <3>2, <3>3
  <2>4. CASE o < p
    <3>1. PlaceOf(r, o) + Step(r, o) <= PlaceOf(r, p)
      BY <2>2, <2>4, PlacesAscend DEF L
    <3>2. PlaceOf(u, p) = PlaceOf(r, p) + d
      BY <1>2, <2>2, <2>4
    <3>. DEFINE m == PlaceOf(r, p) + k
    <3>3. m \in (PlaceOf(r, o) + Step(r, o))..Len(s) /\ m + d = PlaceOf(u, p) + k
      <4>1. Len(s) = PlaceAfter(r) + Len(r.appendChild) - 1
        BY <1>5, <1>6
      <4>2. m + d = PlaceOf(u, p) + k
        BY <1>9, <1>23, <2>1, <3>2
      <4>3. m \in Int /\ PlaceOf(r, o) + Step(r, o) <= m /\ m < PlaceAfter(r)
        BY <1>5, <1>9, <2>1, <3>1, SMTT(30)
      <4>4. PlaceOf(r, o) + Step(r, o) \in Int /\ Len(s) \in Int /\ PlaceAfter(r) - 1 <= Len(s)
        BY <1>5, <4>1
      <4>5. m <= Len(s)
        BY <1>5, <4>3, <4>4
      <4>. QED
        BY <4>2, <4>3, <4>4, <4>5
    <3>4. t[m + d] = s[m]
      BY <1>21, <3>3
    <3>. QED
      BY <3>3, <3>4
  <2>. QED
    BY <1>0, <1>9, <2>2, <2>3, <2>4
<1>10. ASSUME NEW p \in 1..L, p # o, NEW n \in 1..Inserted(u, p)
       PROVE  t[PlaceOf(u, p) + n - 1] = u.insertBefore[u.old[p]][n]
  <2>1. /\ Inserted(u, p) = Inserted(r, p) /\ Inserted(r, p) \in Nat /\ Step(r, p) \in Nat
        /\ Inserted(r, p) <= Step(r, p) /\ PlaceOf(r, p) \in Nat
    BY <1>1, <1>10, PlaceBounds DEF L
  <2>2. PlaceOf(u, p) \in Int
    BY <1>0, <1>2, <1>20, <2>1
  <2>3. n - 1 \in Nat /\ n - 1 < Step(r, p)
    BY <2>1
  <2>4. t[PlaceOf(u, p) + (n - 1)] = s[PlaceOf(r, p) + (n - 1)]
    BY <1>9, <1>10, <2>3
  <2>5. PlaceOf(u, p) + (n - 1) = PlaceOf(u, p) + n - 1
        /\ PlaceOf(r, p) + (n - 1) = PlaceOf(r, p) + n - 1
    BY <2>1, <2>2
  <2>6. s[PlaceOf(r, p) + n - 1] = r.insertBefore[r.old[p]][n]
    BY <1>6, <2>1
  <2>. QED
    BY <1>10, <1>20, <2>4, <2>5, <2>6
<1>11. ASSUME NEW p \in 1..L, p # o, ~IsRemoved(u, p)
       PROVE  t[UpdatePosition(u, p)] = u.old[p]
  <2>1. /\ Inserted(u, p) = Inserted(r, p) /\ Inserted(r, p) \in Nat
        /\ ~IsRemoved(r, p) /\ Step(r, p) = Inserted(r, p) + 1
    <3>1. ~IsRemoved(r, p)
      BY <1>11, <1>20
    <3>. QED
      BY <1>1, <1>11, <3>1, PlaceBounds DEF L
  <2>2. Inserted(r, p) < Step(r, p)
    BY <2>1
  <2>3. t[PlaceOf(u, p) + Inserted(r, p)] = s[PlaceOf(r, p) + Inserted(r, p)]
    BY <1>9, <1>11, <2>1, <2>2
  <2>4. s[UpdatePosition(r, p)] = r.old[p]
    BY <1>6, <2>1
  <2>. QED
    BY <1>20, <2>1, <2>3, <2>4 DEF UpdatePosition
<1>12. ShownAround(t, u, o)
  BY <1>20, <1>7, <1>8, <1>10, <1>11 DEF ShownAround, L
<1>. QED
  BY <1>3, <1>12

\* The record u of what is recorded in r and an item c that is put before an old one.
PutBefore(r, u, o, c) ==
  /\ u.old = r.old /\ u.removeChild = r.removeChild /\ u.appendChild = r.appendChild
  /\ u.insertBefore = [r.insertBefore EXCEPT ![r.old[o]] = Append(@, c)]

\* Recording an insertion before an old item: the places after it move up.
LEMMA ShowsInserted ==
  ASSUME NEW N, N \subseteq Items, NEW r, RecordType(r, N), NEW u, RecordType(u, N),
         NEW s \in Seq(N), Shows(s, r), NEW o \in 1..Len(r.old), NEW c \in N, PutBefore(r, u, o, c)
  PROVE  Shows(InsertAt(s, UpdatePosition(r, o), c), u)
<1>. DEFINE L == Len(r.old)
            b == r.old[o]
            k == UpdatePosition(r, o)
            t == InsertAt(s, k, c)
<1>1. /\ u.old = r.old /\ u.removeChild = r.removeChild /\ u.appendChild = r.appendChild
      /\ u.insertBefore = [r.insertBefore EXCEPT ![b] = Append(@, c)]
  BY DEF PutBefore
<1>2. /\ b \in N /\ r.insertBefore[b] \in Seq(N) /\ Len(r.insertBefore[b]) = Inserted(r, o)
      /\ Inserted(r, o) \in Nat /\ \A p \in 1..L : r.old[p] = b => p = o
  BY RecordFacts DEF Inserted
<1>3. b \in DOMAIN r.insertBefore
  BY <1>2 DEF RecordType
<1>4. /\ u.insertBefore[b] = Append(r.insertBefore[b], c)
      /\ \A x : x # b => u.insertBefore[x] = r.insertBefore[x]
  BY <1>1, <1>3
<1>5. Inserted(u, o) = Inserted(r, o) + 1
  BY <1>1, <1>2, <1>4 DEF Inserted
<1>6. \A p : IsRemoved(u, p) <=> IsRemoved(r, p)
  BY <1>1 DEF IsRemoved
<1>7. Step(u, o) = Step(r, o) + 1
  BY <1>2, <1>5, <1>6 DEF Step
<1>8. /\ PlaceOf(r, o) \in Nat \ {0} /\ Step(r, o) \in Nat /\ k = PlaceOf(r, o) + Inserted(r, o)
      /\ PlaceOf(r, o) + Step(r, o) <= Len(s) + 1 /\ Inserted(r, o) <= Step(r, o)
      /\ ~IsRemoved(r, o) => Step(r, o) = Inserted(r, o) + 1
      /\ Len(s) \in Nat
  <2>1. Len(s) = LastPlace(r)
    BY DEF Shows
  <2>2. /\ PlaceOf(r, o) \in Nat \ {0} /\ Step(r, o) \in Nat /\ k = PlaceOf(r, o) + Inserted(r, o)
        /\ Inserted(r, o) <= Step(r, o)
        /\ ~IsRemoved(r, o) => Step(r, o) = Inserted(r, o) + 1
    BY PlaceBounds
  <2>3. /\ PlaceAfter(r) \in Nat /\ Len(r.appendChild) \in Nat
        /\ LastPlace(r) = PlaceAfter(r) + Len(r.appendChild) - 1
        /\ PlaceOf(r, o) + Step(r, o) <= PlaceAfter(r)
    BY PlaceBounds
  <2>4. PlaceOf(r, o) + Step(r, o) <= Len(s) + 1
    BY <2>1, <2>2, <2>3
  <2>. QED
    BY <2>2, <2>4
<1>. HIDE DEF k
<1>9. k \in 1..(Len(s) + 1) /\ k \in Nat
  BY <1>2, <1>8
<1>10. /\ Len(t) = Len(s) + 1
       /\ \A n \in 1..(Len(s) + 1) : t[n] = IF n < k THEN s[n] ELSE IF n = k THEN c ELSE s[n - 1]
  <2>1. Adding(N)
    BY AddingAlways
  <2>. HIDE DEF t
  <2>. QED
    BY <1>9, <2>1 DEF Adding, t
<1>. HIDE DEF t
<1>11. \A n \in 1..(k - 1) : t[n] = s[n]
  BY <1>8, <1>9, <1>10
<1>12. \A n \in (PlaceOf(r, o) + Step(r, o))..Len(s) : t[n + 1] = s[n]
  <2>1. ASSUME NEW n \in (PlaceOf(r, o) + Step(r, o))..Len(s) PROVE t[n + 1] = s[n]
    <3>1. n \in Nat /\ k <= n /\ n + 1 \in 1..(Len(s) + 1) /\ (n + 1) - 1 = n
      BY <1>2, <1>8, <1>9
    <3>2. ~(n + 1 < k) /\ n + 1 # k
      BY <1>9, <3>1
    <3>3. t[n + 1] = s[(n + 1) - 1]
      BY <1>10, <3>1, <3>2
    <3>. QED
      BY <3>1, <3>3
  <2>. QED
    BY <2>1
<1>13. Reshaped(r, u, s, t, o, 1)
  <2>1. \A p \in 1..L : p # o =>
          /\ u.insertBefore[r.old[p]] = r.insertBefore[r.old[p]]
          /\ IsRemoved(u, p) <=> IsRemoved(r, p)
    BY <1>2, <1>4, <1>6
  <2>. QED
    BY <1>1, <1>7, <1>10, <1>11, <1>12, <2>1 DEF Reshaped, k
<1>14. ShownAround(t, u, o) /\ PlaceOf(u, o) = PlaceOf(r, o)
  BY <1>13, ShowsAround
<1>15. /\ \A n \in 1..Inserted(r, o) : s[PlaceOf(r, o) + n - 1] = r.insertBefore[b][n]
       /\ ~IsRemoved(r, o) => s[k] = b
  <2>1. ShownAt(s, r, o)
    BY ShowsAt
  <2>. QED
    BY <2>1 DEF ShownAt, k
<1>16. ASSUME NEW n \in 1..Inserted(u, o) PROVE t[PlaceOf(u, o) + n - 1] = u.insertBefore[b][n]
  <2>1. CASE n = Inserted(r, o) + 1
    <3>1. PlaceOf(u, o) + n - 1 = k
      BY <1>2, <1>8, <1>14, <2>1
    <3>2. t[k] = c
      BY <1>9, <1>10
    <3>3. u.insertBefore[b][n] = c
      BY <1>2, <1>4, <2>1
    <3>. QED
      BY <3>1, <3>2, <3>3
  <2>2. CASE n # Inserted(r, o) + 1
    <3>1. n \in 1..Inserted(r, o)
      BY <1>2, <1>5, <1>16, <2>2
    <3>2. PlaceOf(r, o) + n - 1 \in 1..(k - 1)
      BY <1>2, <1>8, <3>1, SMTT(30)
    <3>3. u.insertBefore[b][n] = r.insertBefore[b][n]
      BY <1>2, <1>4, <3>1
    <3>. QED
      BY <1>11, <1>14, <1>15, <3>1, <3>2, <3>3
  <2>. QED
    BY <2>1, <2>2
<1>17. ASSUME ~IsRemoved(u, o) PROVE t[UpdatePosition(u, o)] = b
  <2>1. ~IsRemoved(r, o)
    BY <1>6, <1>17
  <2>2. UpdatePosition(u, o) = k + 1
    BY <1>2, <1>5, <1>8, <1>14 DEF UpdatePosition
  <2>3. k \in (PlaceOf(r, o) + Inserted(r, o))..Len(s)
    BY <1>2, <1>8, <2>1
  <2>4. k + 1 \in 1..(Len(s) + 1) /\ ~(k + 1 < k) /\ k + 1 # k /\ (k + 1) - 1 = k
    BY <1>9, <1>8, <2>3
  <2>5. t[k + 1] = s[(k + 1) - 1]
    BY <1>10, <2>4
  <2>. QED
    BY <1>15, <2>1, <2>2, <2>4, <2>5
<1>18. Shows(t, u)
  <2>1. Len(t) = LastPlace(u)
    BY <1>14 DEF ShownAround
  <2>2. ASSUME NEW p \in 1..Len(u.old), NEW n \in 1..Inserted(u, p)
        PROVE  t[PlaceOf(u, p) + n - 1] = u.insertBefore[u.old[p]][n]
    BY <1>1, <1>14, <1>16, <2>2 DEF ShownAround
  <2>3. ASSUME NEW p \in 1..Len(u.old), ~IsRemoved(u, p)
        PROVE  t[UpdatePosition(u, p)] = u.old[p]
    BY <1>1, <1>14, <1>17, <2>3 DEF ShownAround
  <2>4. \A n \in 1..Len(u.appendChild) : t[PlaceAfter(u) + n - 1] = u.appendChild[n]
    BY <1>14 DEF ShownAround
  <2>. QED
    BY <2>1, <2>2, <2>3, <2>4, ShowsIs
<1>. QED
  BY <1>18 DEF t, k

\* The record u of what is recorded in r and the removal of an old item.
TakenOut(r, u, o) ==
  /\ u.old = r.old /\ u.removeChild = r.removeChild \cup {r.old[o]}
  /\ u.appendChild = r.appendChild /\ u.insertBefore = r.insertBefore

\* Recording a removal: the places after it move down.
LEMMA ShowsRemoved ==
  ASSUME NEW N, N \subseteq Items, NEW r, RecordType(r, N), NEW u, RecordType(u, N),
         NEW s \in Seq(N), Shows(s, r), NEW o \in 1..Len(r.old), ~IsRemoved(r, o), TakenOut(r, u, o)
  PROVE  /\ Shows(RemoveAt(s, UpdatePosition(r, o)), u)
         /\ UpdatePosition(r, o) \in 1..Len(s) /\ s[UpdatePosition(r, o)] = r.old[o]
<1>. DEFINE L == Len(r.old)
            k == UpdatePosition(r, o)
            t == RemoveAt(s, k)
<1>1. /\ u.old = r.old /\ u.removeChild = r.removeChild \cup {r.old[o]}
      /\ u.appendChild = r.appendChild /\ u.insertBefore = r.insertBefore
  BY DEF TakenOut
<1>2. \A p, q \in 1..L : r.old[p] = r.old[q] => p = q
  BY RecordFacts
<1>3. \A p : Inserted(u, p) = Inserted(r, p)
  BY <1>1 DEF Inserted
<1>4. IsRemoved(u, o) /\ \A p \in 1..L : p # o => (IsRemoved(u, p) <=> IsRemoved(r, p))
  BY <1>1, <1>2 DEF IsRemoved
<1>5. /\ PlaceOf(r, o) \in Nat \ {0} /\ Step(r, o) \in Nat /\ k = PlaceOf(r, o) + Inserted(r, o)
      /\ PlaceOf(r, o) + Step(r, o) <= Len(s) + 1 /\ Step(r, o) = Inserted(r, o) + 1
      /\ Len(s) \in Nat /\ Inserted(r, o) \in Nat
  <2>1. Len(s) = LastPlace(r)
    BY DEF Shows
  <2>2. /\ PlaceOf(r, o) \in Nat \ {0} /\ Step(r, o) \in Nat /\ k = PlaceOf(r, o) + Inserted(r, o)
        /\ Step(r, o) = Inserted(r, o) + 1 /\ Inserted(r, o) \in Nat
    BY PlaceBounds
  <2>3. /\ PlaceAfter(r) \in Nat /\ Len(r.appendChild) \in Nat
        /\ LastPlace(r) = PlaceAfter(r) + Len(r.appendChild) - 1
        /\ PlaceOf(r, o) + Step(r, o) <= PlaceAfter(r)
    BY PlaceBounds
  <2>4. PlaceOf(r, o) + Step(r, o) <= Len(s) + 1
    BY <2>1, <2>2, <2>3
  <2>. QED
    BY <2>2, <2>4
<1>6. Step(u, o) = Step(r, o) + (-1)
  BY <1>3, <1>4, <1>5 DEF Step
<1>. HIDE DEF k
<1>7. k \in 1..Len(s) /\ k \in Nat
  BY <1>5
<1>8. /\ Len(t) = Len(s) - 1
      /\ \A n \in 1..(Len(s) - 1) : t[n] = IF n < k THEN s[n] ELSE s[n + 1]
  <2>1. Removing(N)
    BY RemovingAlways
  <2>. HIDE DEF t
  <2>. QED
    BY <1>7, <2>1 DEF Removing, t
<1>. HIDE DEF t
<1>9. \A n \in 1..(k - 1) : t[n] = s[n]
  <2>1. ASSUME NEW n \in 1..(k - 1) PROVE n \in 1..(Len(s) - 1) /\ n < k
    BY <1>5, <1>7
  <2>. QED
    BY <1>8, <2>1
<1>10. \A n \in (PlaceOf(r, o) + Step(r, o))..Len(s) : t[n + (-1)] = s[n]
  <2>1. ASSUME NEW n \in (PlaceOf(r, o) + Step(r, o))..Len(s) PROVE t[n + (-1)] = s[n]
    <3>1. n \in Nat /\ k < n /\ n <= Len(s)
      BY <1>5
    <3>2. n + (-1) \in 1..(Len(s) - 1) /\ ~(n + (-1) < k) /\ (n + (-1)) + 1 = n
      BY <1>5, <1>7, <3>1
    <3>3. t[n + (-1)] = s[(n + (-1)) + 1]
      BY <1>8, <3>2
    <3>. QED
      BY <3>2, <3>3
  <2>. QED
    BY <2>1
<1>11. Reshaped(r, u, s, t, o, -1)
  <2>1. \A p \in 1..L : p # o =>
          /\ u.insertBefore[r.old[p]] = r.insertBefore[r.old[p]]
          /\ IsRemoved(u, p) <=> IsRemoved(r, p)
    BY <1>1, <1>4
  <2>2. Len(t) = Len(s) + (-1)
    BY <1>5, <1>8
  <2>. QED
    BY <1>1, <1>6, <1>9, <1>10, <2>1, <2>2 DEF Reshaped, k
<1>12. ShownAround(t, u, o) /\ PlaceOf(u, o) = PlaceOf(r, o)
  BY <1>11, ShowsAround
<1>13. /\ \A n \in 1..Inserted(r, o) : s[PlaceOf(r, o) + n - 1] = r.insertBefore[r.old[o]][n]
       /\ s[k] = r.old[o]
  <2>1. ShownAt(s, r, o)
    BY ShowsAt
  <2>. QED
    BY <2>1 DEF ShownAt, k
<1>14. ASSUME NEW n \in 1..Inserted(u, o)
       PROVE t[PlaceOf(u, o) + n - 1] = u.insertBefore[r.old[o]][n]
  <2>1. n \in 1..Inserted(r, o)
    BY <1>3
  <2>2. PlaceOf(r, o) + n - 1 \in 1..(k - 1)
    BY <1>5, <2>1
  <2>. QED
    BY <1>1, <1>9, <1>12, <1>13, <2>1, <2>2
<1>15. Shows(t, u)
  <2>1. Len(t) = LastPlace(u)
    BY <1>12 DEF ShownAround
  <2>2. ASSUME NEW p \in 1..Len(u.old), NEW n \in 1..Inserted(u, p)
        PROVE  t[PlaceOf(u, p) + n - 1] = u.insertBefore[u.old[p]][n]
    BY <1>1, <1>12, <1>14, <2>2 DEF ShownAround
  <2>3. ASSUME NEW p \in 1..Len(u.old), ~IsRemoved(u, p)
        PROVE  t[UpdatePosition(u, p)] = u.old[p]
    BY <1>1, <1>4, <1>12, <2>3 DEF ShownAround
  <2>4. \A n \in 1..Len(u.appendChild) : t[PlaceAfter(u) + n - 1] = u.appendChild[n]
    BY <1>12 DEF ShownAround
  <2>. QED
    BY <2>1, <2>2, <2>3, <2>4, ShowsIs
<1>. QED
  BY <1>7, <1>13, <1>15 DEF t, k

\* Places depend on the old items and on what is removed and inserted before them only.
LEMMA SamePlaces ==
  ASSUME NEW N, N \subseteq Items, NEW r, RecordType(r, N), NEW u, RecordType(u, N),
         u.old = r.old, u.removeChild = r.removeChild, u.insertBefore = r.insertBefore
  PROVE  /\ \A p : Inserted(u, p) = Inserted(r, p) /\ (IsRemoved(u, p) <=> IsRemoved(r, p))
         /\ \A p \in 1..(Len(r.old) + 1) : PlaceOf(u, p) = PlaceOf(r, p)
<1>. DEFINE L == Len(r.old)
<1>2. L \in Nat
  BY RecordFacts
<1>3. \A p : Inserted(u, p) = Inserted(r, p) /\ (IsRemoved(u, p) <=> IsRemoved(r, p))
             /\ Step(u, p) = Step(r, p)
  BY DEF Inserted, IsRemoved, Step
<1>4. \A p \in 1..(L + 1) : PlaceOf(u, p) = PlaceOf(r, p)
  <2>1. \A p \in 1..L : Step(r, p) \in Nat
    BY RecordFacts
  <2>2. \A p \in 1..L : Step(u, p) = IF p = L + 1 THEN Step(r, p) + 0 ELSE Step(r, p)
    BY <1>3, <2>1
  <2>3. L + 1 \in Nat \ {0}
    BY <1>2
  <2>. DEFINE o == L + 1
              d == 0
  <2>4. Wider(r, u, o, d)
    BY <2>2, <2>3 DEF Wider
  <2>7. o \in Nat /\ d \in Int /\ L \in Nat
    BY <1>2
  <2>. HIDE DEF o, d
  <2>5. ASSUME NEW p \in 1..(L + 1) PROVE PlaceOf(u, p) = PlaceOf(r, p)
    <3>1. PlaceOf(u, p) = IF o < p THEN PlaceOf(r, p) + d ELSE PlaceOf(r, p)
      BY <2>4, <2>7, PlacesShift
    <3>2. ~(o < p)
      BY <1>2 DEF o
    <3>. QED
      BY <3>1, <3>2
  <2>. QED
    BY <2>5
<1>. QED
  BY <1>3, <1>4

\* The record u of what is recorded in r and an item c that is appended.
PutAtEnd(r, u, c) ==
  /\ u.old = r.old /\ u.removeChild = r.removeChild
  /\ u.appendChild = Append(r.appendChild, c) /\ u.insertBefore = r.insertBefore

\* Recording an item at the end.
LEMMA ShowsAppended ==
  ASSUME NEW N, N \subseteq Items, NEW r, RecordType(r, N), NEW u, RecordType(u, N),
         NEW s \in Seq(N), Shows(s, r), NEW c \in N, PutAtEnd(r, u, c)
  PROVE  Shows(Append(s, c), u)
<1>. DEFINE L == Len(r.old)
            A == Len(r.appendChild)
            t == Append(s, c)
<1>1. /\ u.old = r.old /\ u.removeChild = r.removeChild
      /\ u.appendChild = Append(r.appendChild, c) /\ u.insertBefore = r.insertBefore
  BY DEF PutAtEnd
<1>2. L \in Nat /\ A \in Nat /\ r.appendChild \in Seq(N) /\ Len(s) \in Nat
  BY RecordFacts
<1>3. \A p : Inserted(u, p) = Inserted(r, p) /\ (IsRemoved(u, p) <=> IsRemoved(r, p))
  BY <1>1, SamePlaces
<1>4. \A p \in 1..(L + 1) : PlaceOf(u, p) = PlaceOf(r, p)
  BY <1>1, SamePlaces
<1>5. PlaceAfter(u) = PlaceAfter(r)
  BY <1>1, <1>2, <1>4 DEF PlaceAfter
<1>6. PlaceAfter(r) \in Nat \ {0}
  BY PlaceSteps
<1>7. Len(u.appendChild) = A + 1 /\ u.appendChild[A + 1] = c
      /\ \A n \in 1..A : u.appendChild[n] = r.appendChild[n]
  BY <1>1, <1>2
<1>8. /\ Len(s) = PlaceAfter(r) + A - 1
      /\ \A p \in 1..L : \A n \in 1..Inserted(r, p) :
           s[PlaceOf(r, p) + n - 1] = r.insertBefore[r.old[p]][n]
      /\ \A p \in 1..L : ~IsRemoved(r, p) => s[UpdatePosition(r, p)] = r.old[p]
      /\ \A n \in 1..A : s[PlaceAfter(r) + n - 1] = r.appendChild[n]
  BY ShowsIs DEF LastPlace
<1>9. Len(t) = Len(s) + 1 /\ t[Len(s) + 1] = c /\ \A n \in 1..Len(s) : t[n] = s[n]
  BY <1>2
<1>. HIDE DEF t
<1>10. Len(t) = LastPlace(u)
  BY <1>2, <1>5, <1>6, <1>7, <1>8, <1>9 DEF LastPlace
<1>11. ASSUME NEW p \in 1..L, NEW n \in 1..Inserted(r, p)
       PROVE  t[PlaceOf(u, p) + n - 1] = r.insertBefore[r.old[p]][n]
  <2>1. /\ PlaceOf(r, p) \in Nat \ {0} /\ Inserted(r, p) \in Nat /\ Step(r, p) \in Nat
        /\ Inserted(r, p) <= Step(r, p) /\ PlaceOf(r, p) + Step(r, p) <= PlaceAfter(r)
    BY PlaceBounds
  <2>2. PlaceOf(r, p) + n - 1 \in 1..Len(s)
    BY <1>2, <1>6, <1>8, <2>1
  <2>3. PlaceOf(u, p) = PlaceOf(r, p)
    BY <1>2, <1>4
  <2>. QED
    BY <1>8, <1>9, <2>2, <2>3
<1>12. ASSUME NEW p \in 1..L, ~IsRemoved(r, p)
       PROVE  t[UpdatePosition(u, p)] = r.old[p]
  <2>1. /\ PlaceOf(r, p) \in Nat \ {0} /\ Inserted(r, p) \in Nat /\ Step(r, p) = Inserted(r, p) + 1
        /\ PlaceOf(r, p) + Step(r, p) <= PlaceAfter(r)
    BY <1>12, PlaceBounds
  <2>2. PlaceOf(r, p) + Inserted(r, p) \in 1..Len(s)
    BY <1>2, <1>6, <1>8, <2>1
  <2>3. UpdatePosition(u, p) = UpdatePosition(r, p)
        /\ UpdatePosition(r, p) = PlaceOf(r, p) + Inserted(r, p)
    BY <1>2, <1>3, <1>4 DEF UpdatePosition
  <2>4. s[UpdatePosition(r, p)] = r.old[p]
    BY <1>8, <1>12
  <2>. QED
    BY <1>9, <2>2, <2>3, <2>4
<1>13. ASSUME NEW n \in 1..(A + 1) PROVE t[PlaceAfter(u) + n - 1] = u.appendChild[n]
  <2>1. CASE n = A + 1
    <3>1. PlaceAfter(u) + n - 1 = Len(s) + 1
      BY <1>2, <1>5, <1>6, <1>8, <2>1
    <3>. QED
      BY <1>7, <1>9, <2>1, <3>1
  <2>2. CASE n # A + 1
    <3>1. n \in 1..A
      BY <1>2, <2>2
    <3>2. PlaceAfter(r) + n - 1 \in 1..Len(s)
      BY <1>2, <1>6, <1>8, <3>1
    <3>. QED
      BY <1>5, <1>7, <1>8, <1>9, <3>1, <3>2
  <2>. QED
    BY <2>1, <2>2
<1>14. /\ \A p \in 1..Len(u.old) : \A n \in 1..Inserted(u, p) :
            t[PlaceOf(u, p) + n - 1] = u.insertBefore[u.old[p]][n]
       /\ \A p \in 1..Len(u.old) : ~IsRemoved(u, p) => t[UpdatePosition(u, p)] = u.old[p]
  BY <1>1, <1>3, <1>11, <1>12
<1>15. \A n \in 1..Len(u.appendChild) : t[PlaceAfter(u) + n - 1] = u.appendChild[n]
  BY <1>7, <1>13
<1>16. Shows(t, u)
  BY <1>10, <1>14, <1>15, ShowsIs
<1>. QED
  BY <1>16 DEF t

\* The platform info of items changes no place.
LEMMA ShowsUpdated ==
  ASSUME NEW N, N \subseteq Items, NEW r, RecordType(r, N), NEW u, RecordType(u, N),
         u.old = r.old, u.removeChild = r.removeChild, u.insertBefore = r.insertBefore,
         u.appendChild = r.appendChild, NEW s, Shows(s, r)
  PROVE  Shows(s, u)
<1>. DEFINE L == Len(r.old)
<1>1. /\ \A p : Inserted(u, p) = Inserted(r, p) /\ (IsRemoved(u, p) <=> IsRemoved(r, p))
      /\ \A p \in 1..(L + 1) : PlaceOf(u, p) = PlaceOf(r, p)
  BY SamePlaces
<1>2. L \in Nat /\ DOMAIN r.old = 1..L
  BY RecordFacts
<1>3. PlaceAfter(u) = PlaceAfter(r)
  BY <1>1, <1>2 DEF PlaceAfter
<1>4. LastPlace(u) = LastPlace(r)
  BY <1>3 DEF LastPlace
<1>5. \A p \in 1..L : PlaceOf(u, p) = PlaceOf(r, p) /\ UpdatePosition(u, p) = UpdatePosition(r, p)
  BY <1>1, <1>2 DEF UpdatePosition
<1>. QED
  BY <1>1, <1>2, <1>3, <1>4, <1>5 DEF Shows

\* The places of the old items that stay.
KeptPlaces(r) == {UpdatePosition(r, p) : p \in {q \in 1..Len(r.old) : ~IsRemoved(r, q)}}

\* An old position is removed exactly if its item is removed or updated elsewhere.
LEMMA KeptPlaceAlone ==
  ASSUME NEW N, N \subseteq Items, NEW r, RecordType(r, N),
         NEW p \in 1..Len(r.old), NEW n \in 1..Inserted(r, p), NEW q \in 1..Len(r.old),
         ~IsRemoved(r, q)
  PROVE  /\ PlaceOf(r, p) + n - 1 # UpdatePosition(r, q)
         /\ PlaceOf(r, p) + n - 1 \in 1..LastPlace(r)
<1>. DEFINE L == Len(r.old)
<1>0. L \in Nat
  BY RecordFacts
<1>1. /\ PlaceOf(r, p) \in Nat \ {0} /\ Inserted(r, p) \in Nat /\ Step(r, p) \in Nat
      /\ Inserted(r, p) <= Step(r, p) /\ PlaceOf(r, p) + Step(r, p) <= PlaceAfter(r)
  BY PlaceBounds
<1>2. /\ PlaceOf(r, q) \in Nat \ {0} /\ Inserted(r, q) \in Nat
      /\ UpdatePosition(r, q) = PlaceOf(r, q) + Inserted(r, q)
      /\ Step(r, q) = Inserted(r, q) + 1
  BY PlaceBounds
<1>3. PlaceAfter(r) \in Nat /\ Len(r.appendChild) \in Nat
      /\ LastPlace(r) = PlaceAfter(r) + Len(r.appendChild) - 1
  BY PlaceBounds
<1>4. PlaceOf(r, p) + n - 1 \in 1..LastPlace(r)
  BY <1>1, <1>3
<1>. HIDE DEF L
<1>5. p \in 1..L /\ q \in 1..L /\ p \in Nat /\ q \in Nat /\ p \in 1..(L + 1) /\ q \in 1..(L + 1)
  <2>1. p \in 1..L /\ q \in 1..L
    BY DEF L
  <2>. QED
    BY <1>0, <2>1
<1>6. CASE p < q
  <2>1. PlaceOf(r, p) + Step(r, p) <= PlaceOf(r, q)
    BY <1>5, <1>6, PlacesAscend DEF L
  <2>. QED
    BY <1>1, <1>2, <1>4, <2>1
<1>7. CASE q < p
  <2>1. PlaceOf(r, q) + Step(r, q) <= PlaceOf(r, p)
    BY <1>5, <1>7, PlacesAscend DEF L
  <2>. QED
    BY <1>1, <1>2, <1>4, <2>1
<1>8. CASE p = q
  BY <1>1, <1>2, <1>4, <1>8
<1>. QED
  BY <1>5, <1>6, <1>7, <1>8

\* What is inserted at a place is what the list has there.
LEMMA InsertActionIs ==
  ASSUME NEW N, N \subseteq Items, NEW r, RecordType(r, N), NEW s, Shows(s, r),
         NEW a \in insertAction(r)
  PROVE  a.position \in 1..LastPlace(r) /\ a.position \notin KeptPlaces(r) /\ a.item = s[a.position]
<1>. DEFINE L == Len(r.old)
<1>0. DOMAIN r.old = 1..L /\ DOMAIN r.appendChild = 1..Len(r.appendChild)
      /\ Len(r.appendChild) \in Nat
  BY RecordFacts
<1>1. CASE a \in Appended(r)
  <2>1. PICK n \in 1..Len(r.appendChild) :
            a = [position |-> PlaceAfter(r) + n - 1, item |-> r.appendChild[n]]
    BY <1>0, <1>1 DEF Appended
  <2>2. PlaceAfter(r) \in Nat \ {0}
    BY PlaceSteps
  <2>3. s[PlaceAfter(r) + n - 1] = r.appendChild[n]
    BY <1>0 DEF Shows
  <2>4. PlaceAfter(r) + n - 1 \in 1..LastPlace(r)
    BY <1>0, <2>2 DEF LastPlace
  <2>5. ASSUME NEW q \in 1..L, ~IsRemoved(r, q) PROVE UpdatePosition(r, q) < PlaceAfter(r)
    <3>1. /\ PlaceOf(r, q) \in Nat \ {0} /\ Inserted(r, q) \in Nat
          /\ UpdatePosition(r, q) = PlaceOf(r, q) + Inserted(r, q)
          /\ Step(r, q) = Inserted(r, q) + 1 /\ PlaceOf(r, q) + Step(r, q) <= PlaceAfter(r)
      BY <2>5, PlaceBounds
    <3>. QED
      BY <2>2, <3>1
  <2>6. ASSUME NEW q \in 1..L, ~IsRemoved(r, q) PROVE PlaceAfter(r) + n - 1 # UpdatePosition(r, q)
    <3>1. UpdatePosition(r, q) < PlaceAfter(r)
      BY <2>5, <2>6
    <3>. QED
      BY <1>0, <2>2, <3>1
  <2>7. PlaceAfter(r) + n - 1 \notin KeptPlaces(r)
    BY <2>6 DEF KeptPlaces
  <2>8. a.position = PlaceAfter(r) + n - 1 /\ a.item = r.appendChild[n]
    BY <2>1
  <2>. QED
    BY <2>3, <2>4, <2>7, <2>8
<1>2. ASSUME NEW p \in 1..L, a \in InsertedBefore(r, p)
      PROVE  a.position \in 1..LastPlace(r) /\ a.position \notin KeptPlaces(r)
             /\ a.item = s[a.position]
  <2>1. PICK n \in 1..Inserted(r, p) :
          a = [position |-> PlaceOf(r, p) + n - 1, item |-> r.insertBefore[r.old[p]][n]]
    BY <1>2 DEF InsertedBefore
  <2>2. a.position = PlaceOf(r, p) + n - 1 /\ a.item = r.insertBefore[r.old[p]][n]
    BY <2>1
  <2>3. s[PlaceOf(r, p) + n - 1] = r.insertBefore[r.old[p]][n]
    BY <1>0 DEF Shows
  <2>4. \A q \in 1..L : ~IsRemoved(r, q) => PlaceOf(r, p) + n - 1 # UpdatePosition(r, q)
    BY KeptPlaceAlone
  <2>5. PlaceOf(r, p) + n - 1 \in 1..LastPlace(r)
    <3>1. /\ PlaceOf(r, p) \in Nat \ {0} /\ Inserted(r, p) \in Nat /\ Step(r, p) \in Nat
          /\ Inserted(r, p) <= Step(r, p) /\ PlaceOf(r, p) + Step(r, p) <= PlaceAfter(r)
      BY PlaceBounds
    <3>2. PlaceAfter(r) \in Nat /\ LastPlace(r) = PlaceAfter(r) + Len(r.appendChild) - 1
      BY PlaceBounds
    <3>3. n \in Nat /\ 1 <= n /\ n <= Inserted(r, p) /\ Len(r.appendChild) \in Nat
      BY <1>0, <3>1
    <3>. DEFINE k == Inserted(r, p)
                w == PlaceOf(r, p)
                m == Step(r, p)
                b == PlaceAfter(r)
                c == Len(r.appendChild)
    <3>4. w \in Nat \ {0} /\ k \in Nat /\ m \in Nat /\ b \in Nat /\ c \in Nat /\ n \in Nat
          /\ 1 <= n /\ n <= k /\ k <= m /\ w + m <= b
      BY <3>1, <3>2, <3>3
    <3>5. w + n - 1 \in Int /\ 1 <= w + n - 1 /\ w + n - 1 <= b + c - 1
      <4>. HIDE DEF k, w, m, b, c
      <4>. QED
        BY <3>4
    <3>. QED
      BY <3>2, <3>5
  <2>6. PlaceOf(r, p) + n - 1 \notin KeptPlaces(r)
    BY <2>4 DEF KeptPlaces
  <2>. QED
    BY <2>2, <2>3, <2>5, <2>6
<1>3. a \in Appended(r) \/ \E p \in 1..L : a \in InsertedBefore(r, p)
  BY <1>0 DEF insertAction
<1>. QED
  BY <1>1, <1>2, <1>3

\* Every place that no old item keeps is filled.
LEMMA EveryPlaceFilled ==
  ASSUME NEW N, N \subseteq Items, NEW r, RecordType(r, N), NEW k \in 1..LastPlace(r),
         k \notin KeptPlaces(r)
  PROVE  At(r, k) # {}
<1>. DEFINE L == Len(r.old)
<1>0. DOMAIN r.old = 1..L /\ DOMAIN r.appendChild = 1..Len(r.appendChild)
  BY RecordFacts
<1>1. \/ \E p \in 1..L : \E n \in 1..Inserted(r, p) : k = PlaceOf(r, p) + n - 1
      \/ \E p \in 1..L : ~IsRemoved(r, p) /\ k = UpdatePosition(r, p)
      \/ \E n \in 1..Len(r.appendChild) : k = PlaceAfter(r) + n - 1
  BY PlacesCover
<1>2. CASE \E p \in 1..L : \E n \in 1..Inserted(r, p) : k = PlaceOf(r, p) + n - 1
  <2>3. PICK p \in 1..L : \E n \in 1..Inserted(r, p) : k = PlaceOf(r, p) + n - 1
    BY <1>2
  <2>1. PICK n \in 1..Inserted(r, p) : k = PlaceOf(r, p) + n - 1
    BY <2>3
  <2>. DEFINE a == [position |-> PlaceOf(r, p) + n - 1, item |-> r.insertBefore[r.old[p]][n]]
  <2>2. a \in InsertedBefore(r, p) /\ a.position = k
    BY <2>1 DEF InsertedBefore
  <2>. HIDE DEF a
  <2>4. a \in insertAction(r)
    BY <1>0, <2>2 DEF insertAction
  <2>. QED
    BY <2>2, <2>4 DEF At
<1>3. CASE \E n \in 1..Len(r.appendChild) : k = PlaceAfter(r) + n - 1
  <2>1. PICK n \in 1..Len(r.appendChild) : k = PlaceAfter(r) + n - 1
    BY <1>3
  <2>. DEFINE a == [position |-> PlaceAfter(r) + n - 1, item |-> r.appendChild[n]]
  <2>2. a \in Appended(r) /\ a.position = k
    BY <1>0, <2>1 DEF Appended
  <2>. HIDE DEF a
  <2>3. a \in insertAction(r)
    BY <2>2 DEF insertAction
  <2>. QED
    BY <2>2, <2>3 DEF At
<1>4. ~ \E p \in 1..L : ~IsRemoved(r, p) /\ k = UpdatePosition(r, p)
  BY DEF KeptPlaces
<1>. QED
  BY <1>1, <1>2, <1>3, <1>4

-----------------------------------------------------------------------------
(* Applied *)

\* The recursion that removes the old positions.
LEMMA KeptSteps ==
  ASSUME NEW list, NEW r, Len(list) \in Nat
  PROVE  \E f : /\ f[0] = <<>> /\ Kept(list, r) = f[Len(list)]
                /\ \A n \in 1..Len(list) :
                     f[n] = IF n \in removeAction(r) THEN f[n - 1] ELSE Append(f[n - 1], list[n])
<1>. DEFINE L == Len(list)
            R(f, b) == IF b = 0 THEN <<>>
                       ELSE IF b \in removeAction(r) THEN f[b - 1] ELSE Append(f[b - 1], list[b])
            T == {n \in 0..L : \E f : f = [b \in 0..n |-> R(f, b)]}
<1>1. 0 \in T
  <2>. DEFINE g == [b \in 0..0 |-> <<>>]
  <2>1. g = [b \in 0..0 |-> R(g, b)]
    OBVIOUS
  <2>2. 0 \in 0..L
    OBVIOUS
  <2>. HIDE DEF g
  <2>. QED
    BY <2>1, <2>2
<1>2. ASSUME NEW n \in 0..L, n + 1 <= L, n \in T PROVE n + 1 \in T
  <2>1. PICK g : g = [b \in 0..n |-> R(g, b)]
    BY <1>2
  <2>. DEFINE h == [b \in 0..(n + 1) |-> IF b = n + 1 THEN R(g, b) ELSE g[b]]
  <2>2. ASSUME NEW b \in 0..(n + 1) PROVE h[b] = R(h, b)
    <3>1. CASE b = 0
      BY <2>1, <3>1
    <3>2. CASE b # 0
      <4>1. b - 1 \in 0..(n + 1) /\ b - 1 # n + 1
        BY <3>2
      <4>2. h[b - 1] = g[b - 1]
        BY <4>1
      <4>3. R(h, b) = R(g, b)
        BY <4>2
      <4>4. CASE b = n + 1
        BY <4>3, <4>4
      <4>5. CASE b # n + 1
        <5>1. b \in 0..n
          BY <4>5
        <5>2. g[b] = R(g, b)
          BY <2>1, <5>1
        <5>. QED
          BY <4>3, <4>5, <5>2
      <4>. QED
        BY <4>4, <4>5
    <3>. QED
      BY <3>1, <3>2
  <2>3. h = [b \in 0..(n + 1) |-> R(h, b)]
    <3>1. DOMAIN h = 0..(n + 1) /\ h = [b \in 0..(n + 1) |-> h[b]]
      OBVIOUS
    <3>. HIDE DEF h
    <3>. QED
      BY <2>2, <3>1
  <2>4. n + 1 \in 0..L
    BY <1>2
  <2>. HIDE DEF h
  <2>. QED
    BY <2>3, <2>4
<1>3. L \in T
  <2>. HIDE DEF T
  <2>1. L \in 0..L
    OBVIOUS
  <2>. QED
    BY <1>1, <1>2, <2>1, UpTo
<1>. DEFINE kept == CHOOSE f : f = [b \in 0..L |-> R(f, b)]
<1>4. kept = [b \in 0..L |-> R(kept, b)]
  BY <1>3
<1>5. Kept(list, r) = kept[L]
  BY DEF Kept
<1>. HIDE DEF kept
<1>6. \A b \in 0..L : kept[b] = R(kept, b)
  BY <1>4
<1>7. kept[0] = <<>>
  BY <1>6
<1>8. \A n \in 1..L : kept[n] = IF n \in removeAction(r) THEN kept[n - 1]
                                ELSE Append(kept[n - 1], list[n])
  BY <1>6
<1>. QED
  BY <1>5, <1>7, <1>8

\* The recursion that inserts position after position.
LEMMA FilledSteps ==
  ASSUME NEW list, NEW r, LastPlace(r) \in Nat
  PROVE  \E f : /\ f[0] = Kept(list, r) /\ Applied(list, r) = f[LastPlace(r)]
                /\ \A n \in 1..LastPlace(r) : f[n] = Inserting(f[n - 1], r, n)
<1>. DEFINE L == LastPlace(r)
            R(f, b) == IF b = 0 THEN Kept(list, r) ELSE Inserting(f[b - 1], r, b)
            T == {n \in 0..L : \E f : f = [b \in 0..n |-> R(f, b)]}
<1>1. 0 \in T
  <2>. DEFINE g == [b \in 0..0 |-> Kept(list, r)]
  <2>1. g = [b \in 0..0 |-> R(g, b)]
    OBVIOUS
  <2>2. 0 \in 0..L
    OBVIOUS
  <2>. HIDE DEF g
  <2>. QED
    BY <2>1, <2>2
<1>2. ASSUME NEW n \in 0..L, n + 1 <= L, n \in T PROVE n + 1 \in T
  <2>1. PICK g : g = [b \in 0..n |-> R(g, b)]
    BY <1>2
  <2>. DEFINE h == [b \in 0..(n + 1) |-> IF b = n + 1 THEN R(g, b) ELSE g[b]]
  <2>2. ASSUME NEW b \in 0..(n + 1) PROVE h[b] = R(h, b)
    <3>1. CASE b = 0
      BY <2>1, <3>1
    <3>2. CASE b # 0
      <4>1. b - 1 \in 0..(n + 1) /\ b - 1 # n + 1
        BY <3>2
      <4>2. h[b - 1] = g[b - 1]
        BY <4>1
      <4>3. R(h, b) = R(g, b)
        BY <4>2
      <4>4. CASE b = n + 1
        BY <4>3, <4>4
      <4>5. CASE b # n + 1
        <5>1. b \in 0..n
          BY <4>5
        <5>2. g[b] = R(g, b)
          BY <2>1, <5>1
        <5>. QED
          BY <4>3, <4>5, <5>2
      <4>. QED
        BY <4>4, <4>5
    <3>. QED
      BY <3>1, <3>2
  <2>3. h = [b \in 0..(n + 1) |-> R(h, b)]
    <3>1. DOMAIN h = 0..(n + 1) /\ h = [b \in 0..(n + 1) |-> h[b]]
      OBVIOUS
    <3>. HIDE DEF h
    <3>. QED
      BY <2>2, <3>1
  <2>4. n + 1 \in 0..L
    BY <1>2
  <2>. HIDE DEF h
  <2>. QED
    BY <2>3, <2>4
<1>3. L \in T
  <2>. HIDE DEF T, L
  <2>1. L \in 0..L
    BY DEF L
  <2>. QED
    BY <1>1, <1>2, <2>1, UpTo DEF L
<1>. DEFINE filled == CHOOSE f : f = [b \in 0..L |-> R(f, b)]
<1>4. filled = [b \in 0..L |-> R(filled, b)]
  BY <1>3
<1>5. Applied(list, r) = filled[L]
  BY DEF Applied, LastPlace
<1>. HIDE DEF filled
<1>6. \A b \in 0..L : filled[b] = R(filled, b)
  BY <1>4
<1>7. filled[0] = Kept(list, r) /\ \A n \in 1..L : filled[n] = Inserting(filled[n - 1], r, n)
  BY <1>6
<1>. QED
  BY <1>5, <1>7

\* The numbers of D in ascending order, and what s has at the places w.
Ascending(w, D) ==
  /\ w \in Seq(Int) /\ \A k \in 1..Len(w) : w[k] \in D
  /\ \A x \in D : \E k \in 1..Len(w) : w[k] = x
  /\ \A k, m \in 1..Len(w) : k < m => w[k] < w[m]
Picks(q, s, w) == Len(q) = Len(w) /\ \A k \in 1..Len(w) : q[k] = s[w[k]]

\* An ascending sequence stays ascending with a greater number at its end.
LEMMA AscendingGrows ==
  ASSUME NEW D, NEW w, Ascending(w, D), NEW x \in Int, \A y \in D : y < x
  PROVE  Ascending(Append(w, x), D \cup {x})
<1>. DEFINE u == Append(w, x)
<1>1. /\ w \in Seq(Int) /\ Len(w) \in Nat /\ \A k \in 1..Len(w) : w[k] \in D
      /\ \A y \in D : \E k \in 1..Len(w) : w[k] = y
      /\ \A k, m \in 1..Len(w) : k < m => w[k] < w[m]
  BY DEF Ascending
<1>2. /\ u \in Seq(Int) /\ Len(u) = Len(w) + 1 /\ u[Len(w) + 1] = x
      /\ \A k \in 1..Len(w) : u[k] = w[k] /\ k \in 1..Len(u)
  BY <1>1
<1>3. Len(w) + 1 \in 1..Len(u)
  BY <1>1, <1>2
<1>. HIDE DEF u
<1>4. \A k \in 1..Len(u) : k \in 1..Len(w) \/ k = Len(w) + 1
  BY <1>1, <1>2
<1>5. \A k \in 1..Len(u) : u[k] \in D \cup {x}
  BY <1>1, <1>2, <1>4
<1>6. \A y \in D \cup {x} : \E k \in 1..Len(u) : u[k] = y
  BY <1>1, <1>2, <1>3
<1>7. ASSUME NEW k \in 1..Len(u), NEW m \in 1..Len(u), k < m PROVE u[k] < u[m]
  <2>1. k \in 1..Len(w)
    BY <1>1, <1>2, <1>7
  <2>2. CASE m \in 1..Len(w)
    BY <1>1, <1>2, <1>7, <2>1, <2>2
  <2>3. CASE m = Len(w) + 1
    <3>1. w[k] \in D
      BY <1>1, <2>1
    <3>. QED
      BY <1>2, <2>1, <2>3, <3>1
  <2>. QED
    BY <1>4, <2>2, <2>3
<1>8. Ascending(u, D \cup {x})
  BY <1>2, <1>5, <1>6, <1>7 DEF Ascending
<1>. QED
  BY <1>8 DEF u

\* A list that is removed from has the old items, or is empty when all of them go.
Holds(list, r) ==
  /\ Len(list) \in Nat /\ Len(list) <= Len(r.old)
  /\ \A p \in 1..Len(list) : list[p] = r.old[p]
  /\ \A p \in 1..Len(r.old) : Len(list) < p => IsRemoved(r, p)

KeptTo(r, n) == {UpdatePosition(r, p) : p \in {q \in 1..Len(r.old) : q <= n /\ ~IsRemoved(r, q)}}

\* One more old item is kept or not.
LEMMA KeptGrows ==
  ASSUME NEW N, N \subseteq Items, NEW r, RecordType(r, N), NEW s, Shows(s, r), NEW list,
         Holds(list, r),
         NEW n \in Nat, n + 1 <= Len(list), NEW q, NEW w, q \in Seq(N),
         Ascending(w, KeptTo(r, n)), Picks(q, s, w)
  PROVE  LET t == IF n + 1 \in removeAction(r) THEN q ELSE Append(q, list[n + 1])
         IN  t \in Seq(N) /\ \E u : Ascending(u, KeptTo(r, n + 1)) /\ Picks(t, s, u)
<1>. DEFINE L == Len(r.old)
            o == n + 1
<1>0. L \in Nat /\ DOMAIN r.old = 1..L /\ Len(list) \in Nat /\ Len(list) <= L
  BY RecordFacts DEF Holds
<1>1. o \in 1..L /\ o \in 1..Len(list) /\ o \in Nat
  BY <1>0
<1>2. list[o] = r.old[o]
  BY <1>1 DEF Holds
<1>3. r.old[o] \in N
  BY <1>1, RecordFacts
<1>4. o \in removeAction(r) <=> IsRemoved(r, o)
  BY <1>0, <1>1 DEF removeAction
<1>5. \A p \in 1..L : p <= o <=> (p <= n \/ p = o)
  BY <1>0
<1>6. CASE IsRemoved(r, o)
  <2>1. KeptTo(r, o) = KeptTo(r, n)
    BY <1>5, <1>6 DEF KeptTo
  <2>. QED
    BY <1>4, <1>6, <2>1
<1>7. CASE ~IsRemoved(r, o)
  <2>. DEFINE x == UpdatePosition(r, o)
              u == Append(w, x)
              t == Append(q, r.old[o])
  <2>1. KeptTo(r, o) = KeptTo(r, n) \cup {x}
    BY <1>1, <1>5, <1>7 DEF KeptTo
  <2>2. /\ PlaceOf(r, o) \in Nat \ {0} /\ Inserted(r, o) \in Nat
        /\ UpdatePosition(r, o) = PlaceOf(r, o) + Inserted(r, o)
    BY <1>1, PlaceBounds
  <2>3. ASSUME NEW p \in 1..L, p <= n, ~IsRemoved(r, p) PROVE UpdatePosition(r, p) < x
    <3>1. /\ PlaceOf(r, p) \in Nat \ {0} /\ Inserted(r, p) \in Nat
          /\ UpdatePosition(r, p) = PlaceOf(r, p) + Inserted(r, p)
          /\ Step(r, p) = Inserted(r, p) + 1
      BY <2>3, PlaceBounds
    <3>2. o \in 1..(L + 1) /\ p < o
      BY <1>0, <1>1, <2>3
    <3>3. PlaceOf(r, p) + Step(r, p) <= PlaceOf(r, o)
      BY <3>2, PlacesAscend
    <3>. QED
      BY <2>2, <3>1, <3>3
  <2>4. \A y \in KeptTo(r, n) : y < x
    BY <2>3 DEF KeptTo
  <2>5. x \in Int
    BY <2>2
  <2>6. s[x] = r.old[o]
    <3>1. ShownAt(s, r, o)
      BY <1>1, ShowsAt
    <3>. QED
      BY <1>7, <3>1 DEF ShownAt
  <2>. HIDE DEF x
  <2>7. Ascending(u, KeptTo(r, o))
    BY <2>1, <2>4, <2>5, AscendingGrows
  <2>8. Picks(t, s, u)
    <3>1. w \in Seq(Int) /\ Len(w) \in Nat /\ Len(q) = Len(w) /\ \A k \in 1..Len(w) : q[k] = s[w[k]]
      BY DEF Ascending, Picks
    <3>2. /\ Len(u) = Len(w) + 1 /\ u[Len(w) + 1] = x /\ \A k \in 1..Len(w) : u[k] = w[k]
      BY <2>5, <3>1
    <3>3. /\ Len(t) = Len(w) + 1 /\ t[Len(w) + 1] = r.old[o] /\ \A k \in 1..Len(w) : t[k] = q[k]
      BY <1>3, <3>1
    <3>. HIDE DEF t, u
    <3>4. \A k \in 1..Len(u) : k \in 1..Len(w) \/ k = Len(w) + 1
      BY <3>1, <3>2
    <3>. QED
      BY <2>6, <3>1, <3>2, <3>3, <3>4 DEF Picks
  <2>9. t \in Seq(N)
    BY <1>3
  <2>10. t = Append(q, list[o])
    BY <1>2
  <2>11. \E v : Ascending(v, KeptTo(r, o)) /\ Picks(t, s, v)
    <3>. HIDE DEF u
    <3>. QED
      BY <2>7, <2>8
  <2>. HIDE DEF t
  <2>. QED
    BY <1>4, <1>7, <2>9, <2>10, <2>11
<1>. QED
  BY <1>6, <1>7

\* What is left of the old list is its kept items, in the order of their new places.
LEMMA KeptInOrder ==
  ASSUME NEW N, N \subseteq Items, NEW r, RecordType(r, N), NEW s, Shows(s, r), NEW list,
         Holds(list, r)
  PROVE  /\ Kept(list, r) \in Seq(N)
         /\ \E w : Ascending(w, KeptPlaces(r)) /\ Picks(Kept(list, r), s, w)
<1>0. Len(list) \in Nat
  BY DEF Holds
<1>1. PICK f : /\ f[0] = <<>> /\ Kept(list, r) = f[Len(list)]
               /\ \A n \in 1..Len(list) :
                    f[n] = IF n \in removeAction(r) THEN f[n - 1] ELSE Append(f[n - 1], list[n])
  BY <1>0, KeptSteps
<1>. DEFINE L == Len(list)
            T == {n \in 0..L : f[n] \in Seq(N) /\ \E w : Ascending(w, KeptTo(r, n))
                               /\ Picks(f[n], s, w)}
<1>2. 0 \in T
  <2>1. KeptTo(r, 0) = {}
    BY DEF KeptTo
  <2>2. Ascending(<<>>, {}) /\ Picks(<<>>, s, <<>>)
    BY DEF Ascending, Picks
  <2>. DEFINE e == <<>>
  <2>3. f[0] \in Seq(N) /\ f[0] = e
    BY <1>1
  <2>4. Ascending(e, KeptTo(r, 0)) /\ Picks(f[0], s, e)
    BY <2>1, <2>2, <2>3
  <2>. HIDE DEF e
  <2>5. \E w : Ascending(w, KeptTo(r, 0)) /\ Picks(f[0], s, w)
    BY <2>4
  <2>6. 0 \in 0..L
    BY <1>0
  <2>. QED
    BY <2>3, <2>5, <2>6
<1>3. ASSUME NEW n \in 0..L, n + 1 <= L, n \in T PROVE n + 1 \in T
  <2>1. n + 1 \in 1..L /\ n + 1 \in 0..L /\ (n + 1) - 1 = n /\ n \in Nat
    BY <1>0, <1>3
  <2>2. PICK w : Ascending(w, KeptTo(r, n)) /\ Picks(f[n], s, w)
    BY <1>3
  <2>3. f[n] \in Seq(N)
    BY <1>3
  <2>4. f[n + 1] = IF n + 1 \in removeAction(r) THEN f[n] ELSE Append(f[n], list[n + 1])
    BY <1>1, <2>1
  <2>. DEFINE q == f[n]
  <2>. HIDE DEF q
  <2>5. q \in Seq(N) /\ Ascending(w, KeptTo(r, n)) /\ Picks(q, s, w)
    BY <2>2, <2>3 DEF q
  <2>6. LET t == IF n + 1 \in removeAction(r) THEN q ELSE Append(q, list[n + 1])
        IN  t \in Seq(N) /\ \E u : Ascending(u, KeptTo(r, n + 1)) /\ Picks(t, s, u)
    BY <1>3, <2>1, <2>5, KeptGrows
  <2>7. f[n + 1] \in Seq(N) /\ \E u : Ascending(u, KeptTo(r, n + 1)) /\ Picks(f[n + 1], s, u)
    BY <2>4, <2>6 DEF q
  <2>. QED
    BY <2>1, <2>7
<1>4. L \in T
  <2>. HIDE DEF T, L
  <2>1. L \in Nat /\ L \in 0..L
    BY <1>0 DEF L
  <2>. QED
    BY <1>2, <1>3, <2>1, UpTo
<1>5. KeptTo(r, L) = KeptPlaces(r)
  <2>1. \A p \in 1..Len(r.old) : ~IsRemoved(r, p) => p <= L
    BY <1>0, RecordFacts DEF Holds
  <2>. QED
    BY <2>1 DEF KeptTo, KeptPlaces
<1>. QED
  BY <1>1, <1>4, <1>5

-----------------------------------------------------------------------------
\* The places that are filled: the first n, and the kept ones behind them.
Filled(w, r, n) ==
  /\ Ascending(w, (1..n) \cup {m \in KeptPlaces(r) : n < m})
  /\ n <= Len(w) /\ \A k \in 1..n : w[k] = k

\* At the place of a kept item the native list has it already.
LEMMA FillKept ==
  ASSUME NEW r, NEW w, NEW n \in Nat, Filled(w, r, n), KeptPlaces(r) \subseteq Int,
         n + 1 \in KeptPlaces(r)
  PROVE  Filled(w, r, n + 1)
<1>. DEFINE D == (1..n) \cup {m \in KeptPlaces(r) : n < m}
            E == (1..(n + 1)) \cup {m \in KeptPlaces(r) : n + 1 < m}
<1>1. D = E
  <2>1. \A m \in KeptPlaces(r) : n < m <=> (m = n + 1 \/ n + 1 < m)
    OBVIOUS
  <2>2. 1..(n + 1) = (1..n) \cup {n + 1} /\ n < n + 1
    OBVIOUS
  <2>. QED
    BY <2>1, <2>2
<1>2. Ascending(w, D) /\ n <= Len(w) /\ \A k \in 1..n : w[k] = k
  BY DEF Filled
<1>3. n + 1 \in D
  OBVIOUS
<1>4. \A y \in D : y \in Int /\ y <= n => y \in 1..n
  OBVIOUS
<1>5. \A y \in D : y \in Int /\ (y \in 1..n \/ n + 1 <= y)
  OBVIOUS
<1>. HIDE DEF D, E
<1>6. /\ w \in Seq(Int) /\ Len(w) \in Nat /\ \A k \in 1..Len(w) : w[k] \in D
      /\ \A k, m \in 1..Len(w) : k < m => w[k] < w[m]
  BY <1>2 DEF Ascending
<1>7. PICK k \in 1..Len(w) : w[k] = n + 1
  BY <1>2, <1>3 DEF Ascending
<1>8. n < k
  <2>1. SUFFICES ASSUME k <= n PROVE FALSE
    BY <1>6
  <2>2. k \in 1..n
    BY <2>1, <1>6
  <2>. QED
    BY <1>2, <1>7, <2>2
<1>9. k = n + 1
  <2>1. SUFFICES ASSUME n + 1 < k PROVE FALSE
    BY <1>6, <1>8
  <2>2. n + 1 \in 1..Len(w)
    BY <1>6, <2>1
  <2>3. w[n + 1] < n + 1 /\ w[n + 1] \in D
    BY <1>6, <1>7, <2>1, <2>2
  <2>4. w[n + 1] \in 1..n
    BY <1>5, <2>3
  <2>. DEFINE m == w[n + 1]
  <2>5. m \in 1..n /\ m \in 1..Len(w) /\ m < n + 1
    BY <1>2, <1>6, <2>4
  <2>6. w[m] = m
    BY <1>2, <2>5
  <2>7. w[m] < w[n + 1]
    BY <1>6, <2>2, <2>5
  <2>. HIDE DEF m
  <2>. QED
    BY <2>5, <2>6, <2>7 DEF m
<1>10. n + 1 <= Len(w) /\ \A m \in 1..(n + 1) : w[m] = m
  <2>1. \A m \in 1..(n + 1) : m \in 1..n \/ m = n + 1
    OBVIOUS
  <2>. QED
    BY <1>2, <1>6, <1>7, <1>9, <2>1
<1>. QED
  BY <1>1, <1>2, <1>10 DEF Filled, D, E

\* InsertedAt, for an insertion at the end as well.
PutAt(q, k, x) == IF k > Len(q) THEN Append(q, x) ELSE InsertAt(q, k, x)
Putting(S) ==
  \A q \in Seq(S), x \in S : \A k \in 1..(Len(q) + 1) :
    /\ PutAt(q, k, x) \in Seq(S) /\ Len(PutAt(q, k, x)) = Len(q) + 1
    /\ \A n \in 1..(Len(q) + 1) :
         PutAt(q, k, x)[n] = IF n < k THEN q[n] ELSE IF n = k THEN x ELSE q[n - 1]

\* A sequence that picks its items from s at ascending places picks one more.
LEMMA PutAtPlace == \A S : Putting(S)
<1>1. ASSUME NEW S, NEW q \in Seq(S), NEW x \in S, NEW k \in 1..(Len(q) + 1)
      PROVE  /\ PutAt(q, k, x) \in Seq(S) /\ Len(PutAt(q, k, x)) = Len(q) + 1
             /\ \A n \in 1..(Len(q) + 1) :
                  PutAt(q, k, x)[n] = IF n < k THEN q[n] ELSE IF n = k THEN x ELSE q[n - 1]
  <2>1. CASE k > Len(q)
    <3>1. k = Len(q) + 1 /\ PutAt(q, k, x) = Append(q, x)
      BY <2>1 DEF PutAt
    <3>. QED
      BY <3>1
  <2>2. CASE ~(k > Len(q))
    <3>1. PutAt(q, k, x) = InsertAt(q, k, x)
      BY <2>2 DEF PutAt
    <3>. QED
      BY <3>1, InsertedAt
  <2>. QED
    BY <2>1, <2>2
<1>. QED
  BY <1>1 DEF Putting

\* At the place of an inserted item the native list inserts it.
LEMMA FillInserted ==
  ASSUME NEW r, NEW w, NEW n \in Nat, Filled(w, r, n), KeptPlaces(r) \subseteq Int,
         n + 1 \notin KeptPlaces(r)
  PROVE  Filled(PutAt(w, n + 1, n + 1), r, n + 1)
<1>. DEFINE D == (1..n) \cup {m \in KeptPlaces(r) : n < m}
            E == (1..(n + 1)) \cup {m \in KeptPlaces(r) : n + 1 < m}
            c == n + 1
            u == PutAt(w, c, c)
<1>1. E = D \cup {c}
  <2>1. \A m \in KeptPlaces(r) : n < m <=> n + 1 < m
    OBVIOUS
  <2>2. 1..(n + 1) = (1..n) \cup {n + 1}
    OBVIOUS
  <2>. QED
    BY <2>1, <2>2
<1>2. Ascending(w, D) /\ n <= Len(w) /\ \A k \in 1..n : w[k] = k
  BY DEF Filled
<1>3. \A y \in D : y \in Int /\ y # c /\ (y \in 1..n \/ c < y)
  OBVIOUS
<1>4. c \in Nat /\ c \in Int /\ n = c - 1 /\ 1 <= c
  OBVIOUS
<1>. HIDE DEF D, E, c
<1>6. /\ w \in Seq(Int) /\ Len(w) \in Nat /\ \A k \in 1..Len(w) : w[k] \in D
      /\ \A y \in D : \E k \in 1..Len(w) : w[k] = y
      /\ \A k, m \in 1..Len(w) : k < m => w[k] < w[m]
  BY <1>2 DEF Ascending
<1>7. c \in 1..(Len(w) + 1)
  BY <1>2, <1>4, <1>6
<1>8. /\ u \in Seq(Int) /\ Len(u) = Len(w) + 1
      /\ \A k \in 1..(Len(w) + 1) : u[k] = IF k < c THEN w[k] ELSE IF k = c THEN c ELSE w[k - 1]
  <2>1. Putting(Int)
    BY PutAtPlace
  <2>. HIDE DEF u
  <2>. QED
    BY <1>4, <1>6, <1>7, <2>1 DEF Putting, u
<1>. HIDE DEF u
<1>9. \A k \in 1..(c - 1) : u[k] = k /\ k \in 1..Len(w) /\ w[k] = k
  <2>1. ASSUME NEW k \in 1..(c - 1) PROVE u[k] = k /\ k \in 1..Len(w) /\ w[k] = k
    <3>1. k \in 1..Len(w) /\ k \in 1..(Len(w) + 1) /\ k < c
      BY <1>2, <1>4, <1>6
    <3>2. w[k] = k
      BY <1>2, <1>4
    <3>. QED
      BY <1>8, <3>1, <3>2
  <2>. QED
    BY <2>1
<1>10. u[c] = c
  BY <1>4, <1>7, <1>8
\* Behind it are those that were behind the first n.
<1>11. ASSUME NEW k \in (c + 1)..(Len(w) + 1)
       PROVE u[k] = w[k - 1] /\ k - 1 \in 1..Len(w) /\ c < w[k - 1]
  <2>1. k - 1 \in 1..Len(w) /\ k \in 1..(Len(w) + 1) /\ ~(k < c) /\ k # c /\ c <= k - 1
    BY <1>4, <1>6
  <2>2. u[k] = w[k - 1]
    BY <1>8, <2>1
  <2>3. w[k - 1] \in D
    BY <1>6, <2>1
  <2>4. w[k - 1] \notin 1..n
    <3>1. SUFFICES ASSUME w[k - 1] \in 1..n PROVE FALSE
      OBVIOUS
    <3>. DEFINE m == w[k - 1]
    <3>2. m \in 1..Len(w) /\ m < k - 1 /\ w[m] = m
      BY <1>2, <1>4, <1>6, <2>1, <3>1
    <3>3. w[m] < w[k - 1] /\ m \in Int
      BY <1>6, <2>1, <3>2
    <3>. HIDE DEF m
    <3>. QED
      BY <3>2, <3>3 DEF m
  <2>. QED
    BY <1>3, <2>1, <2>2, <2>3, <2>4
<1>12. \A k \in 1..(Len(w) + 1) : k \in 1..(c - 1) \/ k = c \/ k \in (c + 1)..(Len(w) + 1)
  BY <1>4, <1>6
<1>13. \A k \in 1..Len(u) : u[k] \in E
  BY <1>1, <1>6, <1>8, <1>9, <1>10, <1>11, <1>12
<1>14. \A y \in E : \E k \in 1..Len(u) : u[k] = y
  <2>1. ASSUME NEW y \in E PROVE \E k \in 1..Len(u) : u[k] = y
    <3>1. CASE y = c
      BY <1>7, <1>8, <1>10, <3>1
    <3>2. CASE y \in 1..n
      <4>1. y \in 1..(c - 1) /\ y \in 1..Len(u)
        BY <1>4, <1>2, <1>6, <1>8, <3>2
      <4>. QED
        BY <1>9, <4>1
    <3>3. CASE y \in D /\ c < y
      <4>1. PICK k \in 1..Len(w) : w[k] = y
        BY <1>6, <3>3
      <4>2. c <= k
        <5>1. SUFFICES ASSUME k < c PROVE FALSE
          BY <1>4, <1>6
        <5>2. k \in 1..(c - 1)
          BY <1>4, <1>6, <5>1
        <5>3. w[k] = k
          BY <1>9, <5>2
        <5>. QED
          BY <1>3, <1>4, <3>3, <4>1, <5>1, <5>3
      <4>3. k + 1 \in (c + 1)..(Len(w) + 1) /\ (k + 1) - 1 = k /\ k + 1 \in 1..Len(u)
        BY <1>4, <1>6, <1>8, <4>2
      <4>4. u[k + 1] = w[(k + 1) - 1]
        BY <1>11, <4>3
      <4>. QED
        BY <4>1, <4>3, <4>4
    <3>. QED
      BY <1>1, <1>3, <3>1, <3>2, <3>3
  <2>. QED
    BY <2>1
<1>15. ASSUME NEW k \in 1..Len(u), NEW m \in 1..Len(u), k < m PROVE u[k] < u[m]
  <2>1. CASE m \in 1..(c - 1)
    <3>1. k \in 1..(c - 1)
      BY <1>4, <1>6, <1>8, <1>15, <2>1
    <3>. QED
      BY <1>9, <1>15, <2>1, <3>1
  <2>2. CASE m = c
    <3>1. k \in 1..(c - 1)
      BY <1>4, <1>6, <1>8, <1>15, <2>2
    <3>. QED
      BY <1>9, <1>10, <1>15, <2>2, <3>1
  <2>3. CASE m \in (c + 1)..(Len(w) + 1)
    <3>1. u[m] = w[m - 1] /\ m - 1 \in 1..Len(w) /\ c < w[m - 1]
      BY <1>11, <2>3
    <3>2. w[m - 1] \in Int
      BY <1>6, <3>1
    <3>3. CASE k \in 1..(c - 1)
      BY <1>4, <1>9, <3>1, <3>2, <3>3
    <3>4. CASE k = c
      BY <1>10, <3>1, <3>4
    <3>5. CASE k \in (c + 1)..(Len(w) + 1)
      <4>1. u[k] = w[k - 1] /\ k - 1 \in 1..Len(w)
        BY <1>11, <3>5
      <4>2. k - 1 < m - 1
        BY <1>4, <1>6, <1>15, <2>3, <3>5
      <4>. QED
        BY <1>6, <3>1, <4>1, <4>2
    <3>. QED
      BY <1>8, <1>12, <3>3, <3>4, <3>5
  <2>. QED
    BY <1>8, <1>12, <2>1, <2>2, <2>3
<1>16. Ascending(u, E)
  BY <1>8, <1>13, <1>14, <1>15 DEF Ascending
<1>17. c <= Len(u) /\ \A k \in 1..c : u[k] = k
  <2>1. \A k \in 1..c : k \in 1..(c - 1) \/ k = c
    BY <1>4
  <2>. QED
    BY <1>2, <1>4, <1>6, <1>8, <1>9, <1>10, <2>1
<1>. QED
  BY <1>16, <1>17 DEF Filled, E, u, c

\* What is inserted at a place.
LEMMA InsertingIs ==
  ASSUME NEW list, NEW r, NEW n, At(r, n) # {}
  PROVE  \E a \in insertAction(r) : a.position = n /\ Inserting(list, r, n) = PutAt(list, n, a.item)
<1>. DEFINE a == CHOOSE a \in At(r, n) : TRUE
<1>1. a \in At(r, n)
  OBVIOUS
<1>2. Inserting(list, r, n) = IF n > Len(list) THEN Append(list, a.item)
                              ELSE InsertAt(list, n, a.item)
  BY DEF Inserting
<1>. HIDE DEF a
<1>3. a \in insertAction(r) /\ a.position = n
  BY <1>1 DEF At
<1>4. Inserting(list, r, n) = PutAt(list, n, a.item)
  BY <1>2 DEF PutAt
<1>. QED
  BY <1>3, <1>4

\* After position n the native list has the items of the children up to n.
LEMMA FillPlace ==
  ASSUME NEW N, N \subseteq Items, NEW r, RecordType(r, N), NEW s, s \in Seq(N), Shows(s, r),
         NEW n \in Nat, n + 1 <= LastPlace(r), NEW q, q \in Seq(N),
         NEW w, Filled(w, r, n), Picks(q, s, w)
  PROVE  /\ Inserting(q, r, n + 1) \in Seq(N)
         /\ \E u : Filled(u, r, n + 1) /\ Picks(Inserting(q, r, n + 1), s, u)
<1>. DEFINE c == n + 1
            t == Inserting(q, r, c)
<1>0. LastPlace(r) \in Nat /\ Len(s) = LastPlace(r)
  BY PlaceSteps DEF Shows
<1>1. c \in 1..LastPlace(r) /\ c \in Nat /\ n = c - 1
  BY <1>0
<1>2. KeptPlaces(r) \subseteq Int
  <2>1. \A p \in 1..Len(r.old) : ~IsRemoved(r, p) => UpdatePosition(r, p) \in Int
    <3>1. ASSUME NEW p \in 1..Len(r.old) PROVE UpdatePosition(r, p) \in Int
      <4>1. /\ PlaceOf(r, p) \in Nat \ {0} /\ Inserted(r, p) \in Nat
            /\ UpdatePosition(r, p) = PlaceOf(r, p) + Inserted(r, p)
        BY PlaceBounds
      <4>. QED
        BY <4>1
    <3>. QED
      BY <3>1
  <2>. QED
    BY <2>1 DEF KeptPlaces
<1>3. CASE c \in KeptPlaces(r)
  <2>1. At(r, c) = {}
    BY <1>3, InsertActionIs DEF At
  <2>2. t = q
    BY <2>1 DEF Inserting
  <2>3. Filled(w, r, c)
    BY <1>2, <1>3, FillKept
  <2>. QED
    BY <2>2, <2>3
<1>4. CASE c \notin KeptPlaces(r)
  <2>1. At(r, c) # {}
    BY <1>1, <1>4, EveryPlaceFilled
  <2>2. PICK a \in insertAction(r) : a.position = c /\ t = PutAt(q, c, a.item)
    BY <2>1, InsertingIs
  <2>3. a.item = s[c]
    BY <2>2, InsertActionIs
  <2>. DEFINE x == s[c]
              u == PutAt(w, c, c)
  <2>4. x \in N /\ t = PutAt(q, c, x)
    BY <1>0, <1>1, <2>2, <2>3
  <2>5. Filled(u, r, c)
    BY <1>2, <1>4, FillInserted
  <2>6. /\ w \in Seq(Int) /\ Len(w) \in Nat /\ n <= Len(w) /\ Len(q) = Len(w)
        /\ \A k \in 1..Len(w) : q[k] = s[w[k]]
    BY DEF Filled, Ascending, Picks
  <2>. HIDE DEF x, t, u, c
  <2>7. c \in 1..(Len(w) + 1) /\ c \in Int
    BY <1>1, <2>6
  <2>8. /\ u \in Seq(Int) /\ Len(u) = Len(w) + 1
        /\ \A k \in 1..(Len(w) + 1) : u[k] = IF k < c THEN w[k] ELSE IF k = c THEN c ELSE w[k - 1]
    <3>1. Putting(Int)
      BY PutAtPlace
    <3>. QED
      BY <2>6, <2>7, <3>1, SMTT(30) DEF Putting, u
  <2>9. /\ t \in Seq(N) /\ Len(t) = Len(q) + 1
        /\ \A k \in 1..(Len(q) + 1) : t[k] = IF k < c THEN q[k] ELSE IF k = c THEN x ELSE q[k - 1]
    <3>1. Putting(N)
      BY PutAtPlace
    <3>2. c \in 1..(Len(q) + 1)
      BY <2>6, <2>7
    <3>3. /\ PutAt(q, c, x) \in Seq(N) /\ Len(PutAt(q, c, x)) = Len(q) + 1
          /\ \A k \in 1..(Len(q) + 1) :
               PutAt(q, c, x)[k] = IF k < c THEN q[k] ELSE IF k = c THEN x ELSE q[k - 1]
      BY <2>4, <3>1, <3>2, SMTT(30) DEF Putting
    <3>. DEFINE v == PutAt(q, c, x)
    <3>4. t = v
      BY <2>4
    <3>. HIDE DEF v
    <3>. QED
      BY <3>3, <3>4 DEF v
  <2>10. ASSUME NEW k \in 1..Len(u) PROVE t[k] = s[u[k]]
    <3>1. k \in 1..(Len(w) + 1) /\ k \in 1..(Len(q) + 1) /\ k \in Nat
      BY <2>6, <2>8
    <3>2. CASE k < c
      <4>1. k \in 1..Len(w)
        BY <2>6, <2>7, <3>1, <3>2
      <4>. QED
        BY <2>6, <2>8, <2>9, <3>1, <3>2, <4>1
    <3>3. CASE k = c
      <4>1. u[k] = c /\ t[k] = x
        <5>1. ~(k < c)
          BY <2>7, <3>3
        <5>. QED
          BY <2>8, <2>9, <3>1, <3>3, <5>1
      <4>. QED
        BY <4>1 DEF x
    <3>4. CASE c < k
      <4>1. k - 1 \in 1..Len(w) /\ ~(k < c) /\ k # c
        BY <2>6, <2>7, <3>1, <3>4
      <4>2. u[k] = w[k - 1] /\ t[k] = q[k - 1]
        BY <2>8, <2>9, <3>1, <4>1
      <4>. QED
        BY <2>6, <4>1, <4>2
    <3>. QED
      BY <2>7, <3>1, <3>2, <3>3, <3>4
  <2>11. Picks(t, s, u)
    BY <2>6, <2>8, <2>9, <2>10 DEF Picks
  <2>12. t \in Seq(N) /\ \E v : Filled(v, r, c) /\ Picks(t, s, v)
    BY <2>5, <2>9, <2>11
  <2>. QED
    BY <2>12 DEF t, c
<1>. QED
  BY <1>3, <1>4

\* A list that is told the record of what has become of its children has them afterwards.
LEMMA AppliedShows ==
  ASSUME NEW N, N \subseteq Items, NEW r, RecordType(r, N), NEW s, s \in Seq(N), Shows(s, r),
         NEW list, Holds(list, r)
  PROVE  Applied(list, r) = s
<1>. DEFINE L == LastPlace(r)
<1>0. L \in Nat /\ Len(s) = L
  BY PlaceSteps DEF Shows
<1>1. PICK f : /\ f[0] = Kept(list, r) /\ Applied(list, r) = f[L]
               /\ \A n \in 1..L : f[n] = Inserting(f[n - 1], r, n)
  BY <1>0, FilledSteps
<1>. DEFINE T == {n \in 0..L : f[n] \in Seq(N) /\ \E w : Filled(w, r, n) /\ Picks(f[n], s, w)}
<1>17. \A m \in KeptPlaces(r) : m \in 1..L
  <2>1. ASSUME NEW p \in 1..Len(r.old), ~IsRemoved(r, p) PROVE UpdatePosition(r, p) \in 1..L
    <3>1. /\ PlaceOf(r, p) \in Nat \ {0} /\ Inserted(r, p) \in Nat
          /\ UpdatePosition(r, p) = PlaceOf(r, p) + Inserted(r, p)
          /\ Step(r, p) = Inserted(r, p) + 1 /\ PlaceOf(r, p) + Step(r, p) <= PlaceAfter(r)
      BY <2>1, PlaceBounds
    <3>2. PlaceAfter(r) \in Nat /\ Len(r.appendChild) \in Nat
          /\ L = PlaceAfter(r) + Len(r.appendChild) - 1
      BY PlaceBounds
    <3>. HIDE DEF L
    <3>. QED
      BY <1>0, <3>1, <3>2
  <2>. QED
    BY <2>1 DEF KeptPlaces
<1>2. 0 \in T
  <2>1. Kept(list, r) \in Seq(N) /\ \E w : Ascending(w, KeptPlaces(r)) /\ Picks(Kept(list, r), s, w)
    BY KeptInOrder
  <2>2. PICK w : Ascending(w, KeptPlaces(r)) /\ Picks(Kept(list, r), s, w)
    BY <2>1
  <2>3. (1..0) \cup {m \in KeptPlaces(r) : 0 < m} = KeptPlaces(r)
    BY <1>17
  <2>4. Filled(w, r, 0)
    <3>1. Len(w) \in Nat
      BY <2>2 DEF Ascending
    <3>. DEFINE D == (1..0) \cup {m \in KeptPlaces(r) : 0 < m}
    <3>2. Ascending(w, D)
      BY <2>2, <2>3
    <3>3. 0 <= Len(w) /\ \A k \in 1..0 : w[k] = k
      BY <3>1
    <3>. HIDE DEF D
    <3>. QED
      BY <3>2, <3>3 DEF Filled, D
  <2>5. f[0] \in Seq(N) /\ \E v : Filled(v, r, 0) /\ Picks(f[0], s, v)
    BY <1>1, <2>1, <2>2, <2>4
  <2>. QED
    BY <1>0, <2>5
<1>3. ASSUME NEW n \in 0..L, n + 1 <= L, n \in T PROVE n + 1 \in T
  <2>1. n + 1 \in 1..L /\ n + 1 \in 0..L /\ (n + 1) - 1 = n /\ n \in Nat /\ n + 1 <= LastPlace(r)
    BY <1>0, <1>3
  <2>2. PICK w : Filled(w, r, n) /\ Picks(f[n], s, w)
    BY <1>3
  <2>. DEFINE q == f[n]
  <2>3. f[n + 1] = Inserting(q, r, n + 1)
    BY <1>1, <2>1
  <2>4. q \in Seq(N) /\ Filled(w, r, n) /\ Picks(q, s, w)
    BY <1>3, <2>2
  <2>. HIDE DEF q
  <2>5. /\ Inserting(q, r, n + 1) \in Seq(N)
        /\ \E u : Filled(u, r, n + 1) /\ Picks(Inserting(q, r, n + 1), s, u)
    BY <2>1, <2>4, FillPlace
  <2>. QED
    BY <2>1, <2>3, <2>5
<1>4. L \in T
  <2>. HIDE DEF T, L
  <2>1. L \in 0..L
    BY <1>0
  <2>. QED
    BY <1>0, <1>2, <1>3, <2>1, UpTo
<1>5. PICK w : Filled(w, r, L) /\ Picks(f[L], s, w)
  BY <1>4
<1>. DEFINE q == f[L]
<1>6. q \in Seq(N)
  BY <1>4
<1>. HIDE DEF T
<1>7. /\ Len(w) \in Nat /\ L <= Len(w) /\ \A k \in 1..L : w[k] = k
      /\ \A k \in 1..Len(w) : w[k] \in (1..L) \cup {m \in KeptPlaces(r) : L < m}
      /\ w \in Seq(Int) /\ \A k, m \in 1..Len(w) : k < m => w[k] < w[m]
  BY <1>5 DEF Filled, Ascending
<1>8. \A k \in 1..Len(w) : w[k] \in 1..L
  BY <1>17, <1>7
<1>9. Len(w) = L
  <2>. HIDE DEF L
  <2>1. SUFFICES ASSUME L < Len(w) PROVE FALSE
    BY <1>0, <1>7
  <2>. DEFINE k == L + 1
  <2>2. k \in 1..Len(w) /\ k \in Nat
    BY <1>0, <1>7, <2>1
  <2>. DEFINE m == w[k]
  <2>3. m \in 1..L
    BY <1>8, <2>2
  <2>4. w[m] = m /\ m < k /\ m \in 1..Len(w)
    BY <1>0, <1>7, <2>3, <2>2
  <2>5. w[m] < w[k]
    BY <1>7, <2>2, <2>4
  <2>. HIDE DEF k
  <2>. QED
    BY <1>0, <2>3, <2>4, <2>5
<1>10. Len(q) = L /\ \A k \in 1..L : q[k] = s[k]
  <2>1. Len(q) = Len(w) /\ \A k \in 1..Len(w) : q[k] = s[w[k]]
    BY <1>5 DEF Picks
  <2>. QED
    BY <1>7, <1>9, <2>1
<1>. HIDE DEF q, L
<1>11. q = [k \in 1..L |-> q[k]] /\ s = [k \in 1..L |-> s[k]]
  BY <1>0, <1>6, <1>10
<1>12. q = s
  BY <1>10, <1>11
<1>. QED
  BY <1>1, <1>12 DEF q

\* Whatever is recorded, the native list has items of the list.
LEMMA AppliedType ==
  ASSUME NEW N, N \subseteq Items, NEW r, RecordType(r, N), NEW list, list \in Seq(N)
  PROVE  Applied(list, r) \in Seq(N)
<1>. DEFINE L == LastPlace(r)
            M == Len(list)
<1>0. L \in Nat /\ M \in Nat
  <2>1. L \in Nat
    BY PlaceSteps
  <2>2. M \in Nat
    OBVIOUS
  <2>. QED
    BY <2>1, <2>2
<1>1. Kept(list, r) \in Seq(N)
  <2>1. PICK f : /\ f[0] = <<>> /\ Kept(list, r) = f[M]
                 /\ \A n \in 1..M : f[n] = IF n \in removeAction(r) THEN f[n - 1]
                                           ELSE Append(f[n - 1], list[n])
    BY <1>0, KeptSteps
  <2>. DEFINE T == {n \in 0..M : f[n] \in Seq(N)}
  <2>2. 0 \in T
    <3>1. f[0] \in Seq(N) /\ 0 \in 0..M
      BY <1>0, <2>1
    <3>. QED
      BY <3>1
  <2>3. ASSUME NEW n \in 0..M, n + 1 <= M, n \in T PROVE n + 1 \in T
    <3>1. n + 1 \in 1..M /\ n + 1 \in 0..M /\ (n + 1) - 1 = n /\ f[n] \in Seq(N)
      BY <1>0, <2>3
    <3>2. list[n + 1] \in N
      BY <3>1
    <3>3. f[n + 1] = IF n + 1 \in removeAction(r) THEN f[n] ELSE Append(f[n], list[n + 1])
      BY <2>1, <3>1
    <3>4. Append(f[n], list[n + 1]) \in Seq(N)
      BY <3>1, <3>2
    <3>5. f[n + 1] \in Seq(N)
      BY <3>1, <3>3, <3>4
    <3>. QED
      BY <3>1, <3>5
  <2>4. M \in T
    <3>. HIDE DEF T, M
    <3>1. M \in 0..M
      BY <1>0
    <3>. QED
      BY <1>0, <2>2, <2>3, <3>1, UpTo
  <2>. QED
    BY <2>1, <2>4
<1>2. ASSUME NEW a \in insertAction(r) PROVE a.item \in N
  <2>0. DOMAIN r.old = 1..Len(r.old) /\ DOMAIN r.appendChild = 1..Len(r.appendChild)
        /\ r.appendChild \in Seq(N)
    BY RecordFacts
  <2>1. ASSUME a \in Appended(r) PROVE a.item \in N
    BY <2>0, <2>1 DEF Appended
  <2>2. ASSUME NEW p \in 1..Len(r.old), a \in InsertedBefore(r, p) PROVE a.item \in N
    <3>1. PICK n \in 1..Inserted(r, p) :
            a = [position |-> PlaceOf(r, p) + n - 1, item |-> r.insertBefore[r.old[p]][n]]
      BY <2>2 DEF InsertedBefore
    <3>2. r.insertBefore[r.old[p]] \in Seq(N) /\ DOMAIN r.insertBefore[r.old[p]] = 1..Inserted(r, p)
      BY RecordFacts
    <3>. DEFINE y == r.insertBefore[r.old[p]]
    <3>4. y \in Seq(N) /\ n \in DOMAIN y
      BY <3>2
    <3>. HIDE DEF y
    <3>5. y[n] \in N
      BY <3>4
    <3>3. r.insertBefore[r.old[p]][n] \in N
      BY <3>5 DEF y
    <3>. QED
      BY <3>1, <3>3
  <2>3. a \in Appended(r) \/ \E p \in 1..Len(r.old) : a \in InsertedBefore(r, p)
    BY <2>0 DEF insertAction
  <2>. QED
    BY <2>1, <2>2, <2>3
<1>3. ASSUME NEW q \in Seq(N), NEW n \in Nat \ {0} PROVE Inserting(q, r, n) \in Seq(N)
  <2>1. CASE At(r, n) = {}
    BY <1>3, <2>1 DEF Inserting
  <2>2. CASE At(r, n) # {}
    <3>1. PICK a \in insertAction(r) : Inserting(q, r, n) = PutAt(q, n, a.item)
      BY <2>2, InsertingIs
    <3>. DEFINE x == a.item
    <3>2. x \in N /\ Inserting(q, r, n) = PutAt(q, n, x)
      BY <1>2, <3>1
    <3>. HIDE DEF x
    <3>3. CASE n > Len(q)
      BY <3>2, <3>3 DEF PutAt
    <3>4. CASE ~(n > Len(q))
      <4>1. n \in 1..(Len(q) + 1)
        BY <3>4
      <4>2. PutAt(q, n, x) \in Seq(N)
        BY <3>2, <4>1, PutAtPlace DEF Putting
      <4>. QED
        BY <3>2, <4>2
    <3>. QED
      BY <3>3, <3>4
  <2>. QED
    BY <2>1, <2>2
<1>4. PICK f : /\ f[0] = Kept(list, r) /\ Applied(list, r) = f[L]
               /\ \A n \in 1..L : f[n] = Inserting(f[n - 1], r, n)
  BY <1>0, FilledSteps
<1>. DEFINE T == {n \in 0..L : f[n] \in Seq(N)}
<1>5. 0 \in T
  BY <1>0, <1>1, <1>4
<1>6. ASSUME NEW n \in 0..L, n + 1 <= L, n \in T PROVE n + 1 \in T
  <2>1. n + 1 \in 1..L /\ n + 1 \in 0..L /\ (n + 1) - 1 = n /\ f[n] \in Seq(N)
        /\ n + 1 \in Nat \ {0}
    BY <1>0, <1>6
  <2>2. f[n + 1] = Inserting(f[n], r, n + 1)
    BY <1>4, <2>1
  <2>3. Inserting(f[n], r, n + 1) \in Seq(N)
    BY <1>3, <2>1
  <2>. QED
    BY <2>1, <2>2, <2>3
<1>7. L \in T
  <2>. HIDE DEF T, L
  <2>1. L \in 0..L
    BY <1>0
  <2>. QED
    BY <1>0, <1>5, <1>6, <2>1, UpTo
<1>. QED
  BY <1>4, <1>7

-----------------------------------------------------------------------------
(* The children *)

\* The place of a child.
LEMMA Located ==
  ASSUME NEW N, NEW s \in Seq(N), NEW b \in ToSet(s)
  PROVE  /\ (CHOOSE n \in DOMAIN s : s[n] = b) \in 1..Len(s)
         /\ s[CHOOSE n \in DOMAIN s : s[n] = b] = b
<1>1. DOMAIN s = 1..Len(s)
  OBVIOUS
<1>2. \E n \in DOMAIN s : s[n] = b
  BY DEF ToSet
<1>. QED
  BY <1>1, <1>2

\* The place of a child is its only one.
LEMMA LocatedAt ==
  ASSUME NEW N, NEW s \in Seq(N), Distinct(s), NEW k \in 1..Len(s)
  PROVE  (CHOOSE n \in DOMAIN s : s[n] = s[k]) = k
<1>1. DOMAIN s = 1..Len(s)
  OBVIOUS
<1>2. s[k] \in ToSet(s)
  BY <1>1 DEF ToSet
<1>. DEFINE m == CHOOSE n \in DOMAIN s : s[n] = s[k]
<1>3. m \in 1..Len(s) /\ s[m] = s[k]
  BY <1>2, Located
<1>. HIDE DEF m
<1>4. m = k
  BY <1>1, <1>3 DEF Distinct
<1>. QED
  BY <1>4 DEF m

\* Children without one of them.
LEMMA TakenFrom ==
  ASSUME NEW N, NEW s \in Seq(N), Distinct(s), NEW k \in 1..Len(s)
  PROVE  /\ RemoveAt(s, k) \in Seq(N) /\ Distinct(RemoveAt(s, k))
         /\ ToSet(RemoveAt(s, k)) = ToSet(s) \ {s[k]}
<1>. DEFINE t == RemoveAt(s, k)
            L == Len(s)
<1>1. /\ t \in Seq(N) /\ Len(t) = L - 1
      /\ \A n \in 1..(L - 1) : t[n] = IF n < k THEN s[n] ELSE s[n + 1]
  BY RemovedAt
<1>2. L \in Nat /\ k \in 1..L /\ DOMAIN s = 1..L /\ \A p, q \in 1..L : s[p] = s[q] => p = q
  BY DEF Distinct
<1>. HIDE DEF t, L
<1>3. DOMAIN t = 1..(L - 1)
  BY <1>1
<1>4. ASSUME NEW p \in 1..(L - 1), NEW q \in 1..(L - 1), t[p] = t[q] PROVE p = q
  <2>. DEFINE v == IF p < k THEN p ELSE p + 1
              w == IF q < k THEN q ELSE q + 1
  <2>1. t[p] = s[v] /\ t[q] = s[w] /\ v \in 1..L /\ w \in 1..L
    BY <1>1, <1>2
  <2>2. v = w
    <3>. HIDE DEF v, w
    <3>. QED
      BY <1>2, <1>4, <2>1
  <2>. QED
    BY <1>2, <2>2
<1>5. ASSUME NEW p \in 1..(L - 1) PROVE t[p] \in ToSet(s) \ {s[k]}
  <2>. DEFINE v == IF p < k THEN p ELSE p + 1
  <2>1. t[p] = s[v] /\ v \in 1..L /\ v # k
    BY <1>1, <1>2
  <2>. HIDE DEF v
  <2>. QED
    BY <1>2, <2>1 DEF ToSet
<1>6. ASSUME NEW p \in 1..L, s[p] # s[k] PROVE \E n \in 1..(L - 1) : t[n] = s[p]
  <2>. DEFINE v == IF p < k THEN p ELSE p - 1
  <2>1. v \in 1..(L - 1) /\ (v < k <=> p < k) /\ (~(p < k) => v + 1 = p) /\ (p < k => v = p)
    BY <1>2, <1>6
  <2>. HIDE DEF v
  <2>2. t[v] = s[p]
    BY <1>1, <2>1
  <2>. QED
    BY <2>1, <2>2
<1>7. ToSet(t) = ToSet(s) \ {s[k]}
  <2>1. ASSUME NEW x \in ToSet(t) PROVE x \in ToSet(s) \ {s[k]}
    BY <1>3, <1>5 DEF ToSet
  <2>2. ASSUME NEW x \in ToSet(s) \ {s[k]} PROVE x \in ToSet(t)
    <3>1. PICK p \in 1..L : s[p] = x
      BY <1>2 DEF ToSet
    <3>2. \E n \in 1..(L - 1) : t[n] = s[p]
      BY <1>6, <3>1
    <3>. QED
      BY <1>3, <3>1, <3>2 DEF ToSet
  <2>. QED
    BY <2>1, <2>2
<1>8. Distinct(t)
  BY <1>3, <1>4 DEF Distinct
<1>. QED
  BY <1>1, <1>7, <1>8 DEF t

\* Children with one more.
LEMMA PutInto ==
  ASSUME NEW N, NEW s \in Seq(N), Distinct(s), NEW c \in N, c \notin ToSet(s),
         NEW k \in 1..(Len(s) + 1)
  PROVE  /\ PutAt(s, k, c) \in Seq(N) /\ Distinct(PutAt(s, k, c))
         /\ ToSet(PutAt(s, k, c)) = ToSet(s) \cup {c}
<1>. DEFINE t == PutAt(s, k, c)
            L == Len(s)
<1>0. Putting(N)
  BY PutAtPlace
<1>1. /\ t \in Seq(N) /\ Len(t) = L + 1
      /\ \A n \in 1..(L + 1) : t[n] = IF n < k THEN s[n] ELSE IF n = k THEN c ELSE s[n - 1]
  <2>1. k \in 1..(Len(s) + 1) /\ c \in N
    OBVIOUS
  <2>. HIDE DEF t
  <2>. QED
    BY <1>0, <2>1, SMTT(30) DEF Putting, t
<1>2. /\ L \in Nat /\ k \in 1..(L + 1) /\ DOMAIN s = 1..L /\ \A p, q \in 1..L : s[p] = s[q] => p = q
      /\ \A p \in 1..L : s[p] # c
  BY DEF Distinct, ToSet
<1>. HIDE DEF t, L
<1>3. DOMAIN t = 1..(L + 1)
  BY <1>1, <1>2
<1>4. \A n \in 1..(L + 1) : n # k => \E v \in 1..L : t[n] = s[v] /\ v = IF n < k THEN n ELSE n - 1
  <2>1. ASSUME NEW n \in 1..(L + 1), n # k
        PROVE  \E v \in 1..L : t[n] = s[v] /\ v = IF n < k THEN n ELSE n - 1
    <3>. DEFINE v == IF n < k THEN n ELSE n - 1
    <3>1. v \in 1..L /\ t[n] = s[v]
      BY <1>1, <1>2, <2>1
    <3>. QED
      BY <3>1
  <2>. QED
    BY <2>1
<1>5. t[k] = c
  BY <1>1, <1>2
<1>6. ASSUME NEW p \in 1..(L + 1), NEW q \in 1..(L + 1), t[p] = t[q] PROVE p = q
  <2>1. CASE p = k
    <3>1. q = k
      BY <1>2, <1>4, <1>5, <1>6, <2>1
    <3>. QED
      BY <2>1, <3>1
  <2>2. CASE q = k
    <3>1. p = k
      BY <1>2, <1>4, <1>5, <1>6, <2>2
    <3>. QED
      BY <2>2, <3>1
  <2>3. CASE p # k /\ q # k
    <3>1. PICK v \in 1..L : t[p] = s[v] /\ v = IF p < k THEN p ELSE p - 1
      BY <1>4, <2>3
    <3>2. PICK w \in 1..L : t[q] = s[w] /\ w = IF q < k THEN q ELSE q - 1
      BY <1>4, <2>3
    <3>3. v = w
      BY <1>2, <1>6, <3>1, <3>2
    <3>. QED
      BY <1>2, <2>3, <3>1, <3>2, <3>3
  <2>. QED
    BY <2>1, <2>2, <2>3
<1>7. ASSUME NEW p \in 1..L PROVE \E n \in 1..(L + 1) : t[n] = s[p]
  <2>. DEFINE v == IF p < k THEN p ELSE p + 1
  <2>1. /\ v \in 1..(L + 1) /\ (v < k <=> p < k) /\ v # k /\ (~(p < k) => v - 1 = p)
        /\ (p < k => v = p)
    BY <1>2
  <2>. HIDE DEF v
  <2>2. t[v] = s[p]
    BY <1>1, <2>1
  <2>. QED
    BY <2>1, <2>2
<1>8. ToSet(t) = ToSet(s) \cup {c}
  <2>1. ASSUME NEW x \in ToSet(t) PROVE x \in ToSet(s) \cup {c}
    <3>1. PICK n \in 1..(L + 1) : t[n] = x
      BY <1>3 DEF ToSet
    <3>2. CASE n = k
      BY <1>5, <3>1, <3>2
    <3>3. CASE n # k
      BY <1>2, <1>4, <3>1, <3>3, SMTT(30) DEF ToSet
    <3>. QED
      BY <3>2, <3>3
  <2>2. ASSUME NEW x \in ToSet(s) PROVE x \in ToSet(t)
    <3>1. PICK p \in 1..L : s[p] = x
      BY <1>2 DEF ToSet
    <3>2. \E n \in 1..(L + 1) : t[n] = s[p]
      BY <1>7
    <3>. QED
      BY <1>3, <3>1, <3>2 DEF ToSet
  <2>3. c \in ToSet(t)
    BY <1>2, <1>3, <1>5 DEF ToSet
  <2>. QED
    BY <2>1, <2>2, <2>3
<1>9. Distinct(t)
  BY <1>3, <1>6 DEF Distinct
<1>. QED
  BY <1>1, <1>8, <1>9 DEF t

\* The children after an insertion.
LEMMA WithFacts ==
  ASSUME NEW N, NEW s \in Seq(N), Distinct(s), NEW c \in N, c \notin ToSet(s),
         NEW b \in ToSet(s) \cup {AtEnd}
  PROVE  /\ With(s, c, b) \in Seq(N) /\ Distinct(With(s, c, b))
         /\ ToSet(With(s, c, b)) = ToSet(s) \cup {c}
<1>0. Len(s) \in Nat
  OBVIOUS
<1>1. CASE b = AtEnd
  <2>. DEFINE k == Len(s) + 1
  <2>1. With(s, c, b) = PutAt(s, k, c)
    BY <1>0, <1>1 DEF With, PutAt
  <2>2. k \in 1..(Len(s) + 1)
    BY <1>0
  <2>. HIDE DEF k
  <2>. QED
    BY <2>1, <2>2, PutInto
<1>2. CASE b # AtEnd
  <2>. DEFINE k == CHOOSE n \in DOMAIN s : s[n] = b
  <2>1. k \in 1..Len(s)
    BY <1>2, Located
  <2>2. With(s, c, b) = InsertAt(s, k, c)
    BY <1>2 DEF With
  <2>. HIDE DEF k
  <2>3. k \in 1..(Len(s) + 1) /\ PutAt(s, k, c) = InsertAt(s, k, c)
    BY <1>0, <2>1 DEF PutAt
  <2>. QED
    BY <2>2, <2>3, PutInto
<1>. QED
  BY <1>1, <1>2

\* The children after a removal.
LEMMA WithoutFacts ==
  ASSUME NEW N, childNodes \in Seq(N), Distinct(childNodes), NEW c \in Children
  PROVE  /\ Without(c) \in Seq(N) /\ Distinct(Without(c)) /\ ToSet(Without(c)) = Children \ {c}
<1>. DEFINE s == childNodes
            k == CHOOSE n \in DOMAIN s : s[n] = c
<1>1. k \in 1..Len(s) /\ s[k] = c
  BY Located DEF Children
<1>2. Without(c) = RemoveAt(s, k)
  BY DEF Without
<1>. HIDE DEF k
<1>. QED
  BY <1>1, <1>2, TakenFrom DEF Children

-----------------------------------------------------------------------------
(* Records *)

\* A record of fewer items is one of more.
LEMMA RecordGrows ==
  ASSUME NEW N, NEW M, N \subseteq M, NEW r, RecordType(r, N)
  PROVE  RecordType(r, M)
<1>1. \A q : q \in Seq(N) => q \in Seq(M)
  OBVIOUS
<1>2. r.insertBefore \in [Items -> Seq(M)]
  BY <1>1 DEF RecordType
<1>. QED
  BY <1>1, <1>2 DEF RecordType

\* What the record u has when an item is put before b, or at the end.
Records(r, u, c, h, b) ==
  /\ u.old = r.old /\ u.removeChild = IF h THEN r.removeChild \cup {c} ELSE r.removeChild
  /\ u.insertBefore = IF b = AtEnd THEN r.insertBefore
                      ELSE [r.insertBefore EXCEPT ![b] = Append(@, c)]
  /\ u.appendChild = IF b = AtEnd THEN Append(r.appendChild, c) ELSE r.appendChild

\* onInsertBefore keeps the types of the record.
LEMMA InsertRecord ==
  ASSUME NEW N, N \subseteq Items, NEW r, RecordType(r, N), NEW c \in N, NEW h \in BOOLEAN,
         NEW b \in N \cup {AtEnd}
  PROVE  /\ RecordType(onInsertBefore(r, c, h, b), N)
         /\ Records(r, onInsertBefore(r, c, h, b), c, h, b)
<1>. DEFINE u == onInsertBefore(r, c, h, b)
<1>1. /\ r.old \in Seq(N) /\ Distinct(r.old) /\ r.removeChild \subseteq N
         /\ r.platformInfoUpdate \subseteq N
      /\ r.insertBefore \in [Items -> Seq(N)] /\ r.appendChild \in Seq(N)
      /\ DOMAIN r = {"old", "removeChild", "insertBefore", "appendChild", "platformInfoUpdate"}
  BY DEF RecordType
<1>2. /\ u.old = r.old /\ u.platformInfoUpdate = r.platformInfoUpdate /\ DOMAIN u = DOMAIN r
      /\ u.removeChild = IF h THEN r.removeChild \cup {c} ELSE r.removeChild
      /\ u.insertBefore = IF b = AtEnd THEN r.insertBefore
                          ELSE [r.insertBefore EXCEPT ![b] = Append(@, c)]
      /\ u.appendChild = IF b = AtEnd THEN Append(r.appendChild, c) ELSE r.appendChild
  <2>1. u.old = r.old /\ u.platformInfoUpdate = r.platformInfoUpdate /\ DOMAIN u = DOMAIN r
    BY <1>1 DEF onInsertBefore
  <2>2. u.removeChild = IF h THEN r.removeChild \cup {c} ELSE r.removeChild
    BY <1>1 DEF onInsertBefore
  <2>3. u.insertBefore = IF b = AtEnd THEN r.insertBefore
                         ELSE [r.insertBefore EXCEPT ![b] = Append(@, c)]
    BY <1>1 DEF onInsertBefore
  <2>4. u.appendChild = IF b = AtEnd THEN Append(r.appendChild, c) ELSE r.appendChild
    BY <1>1 DEF onInsertBefore
  <2>. QED
    BY <2>1, <2>2, <2>3, <2>4
<1>. HIDE DEF u
<1>3. u.insertBefore \in [Items -> Seq(N)]
  <2>1. CASE b = AtEnd
    BY <1>1, <1>2, <2>1
  <2>2. CASE b # AtEnd
    <3>1. b \in Items /\ r.insertBefore[b] \in Seq(N)
      BY <1>1, <2>2
    <3>2. Append(r.insertBefore[b], c) \in Seq(N)
      BY <3>1
    <3>3. u.insertBefore = [r.insertBefore EXCEPT ![b] = Append(r.insertBefore[b], c)]
      BY <1>2, <2>2
    <3>. QED
      BY <1>1, <3>1, <3>2, <3>3
  <2>. QED
    BY <2>1, <2>2
<1>4. u.appendChild \in Seq(N)
  <2>1. Append(r.appendChild, c) \in Seq(N)
    BY <1>1
  <2>. QED
    BY <1>1, <1>2, <2>1
<1>5. u.removeChild \subseteq N
  BY <1>1, <1>2
<1>6. RecordType(u, N)
  BY <1>1, <1>2, <1>3, <1>4, <1>5 DEF RecordType
<1>. QED
  BY <1>2, <1>6 DEF u, Records

\* onRemoveChild keeps the types of the record.
LEMMA RemoveRecord ==
  ASSUME NEW N, NEW r, RecordType(r, N), NEW c \in N
  PROVE  LET u == onRemoveChild(r, c)
         IN  /\ RecordType(u, N) /\ u.old = r.old /\ u.removeChild = r.removeChild \cup {c}
             /\ u.insertBefore = r.insertBefore /\ u.appendChild = r.appendChild
<1>. DEFINE u == onRemoveChild(r, c)
<1>1. DOMAIN r = {"old", "removeChild", "insertBefore", "appendChild", "platformInfoUpdate"}
  BY DEF RecordType
<1>2. /\ u.old = r.old /\ u.platformInfoUpdate = r.platformInfoUpdate /\ DOMAIN u = DOMAIN r
      /\ u.removeChild = r.removeChild \cup {c}
      /\ u.insertBefore = r.insertBefore /\ u.appendChild = r.appendChild
  BY <1>1 DEF onRemoveChild
<1>. HIDE DEF u
<1>3. RecordType(u, N)
  BY <1>2 DEF RecordType
<1>. QED
  BY <1>2, <1>3 DEF u

\* onSetAttribute keeps the types of the record.
LEMMA UpdateRecord ==
  ASSUME NEW N, NEW r, RecordType(r, N), NEW c \in N
  PROVE  LET u == onSetAttribute(r, c)
         IN  /\ RecordType(u, N) /\ u.old = r.old /\ u.removeChild = r.removeChild
             /\ u.insertBefore = r.insertBefore /\ u.appendChild = r.appendChild
<1>. DEFINE u == onSetAttribute(r, c)
<1>1. DOMAIN r = {"old", "removeChild", "insertBefore", "appendChild", "platformInfoUpdate"}
  BY DEF RecordType
<1>2. /\ u.old = r.old /\ u.platformInfoUpdate = r.platformInfoUpdate \cup {c}
         /\ DOMAIN u = DOMAIN r
      /\ u.removeChild = r.removeChild
      /\ u.insertBefore = r.insertBefore /\ u.appendChild = r.appendChild
  BY <1>1 DEF onSetAttribute
<1>. HIDE DEF u
<1>3. RecordType(u, N)
  BY <1>2 DEF RecordType
<1>. QED
  BY <1>2, <1>3 DEF u

\* A record is not Nothing.
LEMMA NotNothing ==
  ASSUME NEW N, N \subseteq Items, NEW r, RecordType(r, N)
  PROVE  r # Nothing
<1>1. r.old \in Seq(N)
  BY DEF RecordType
<1>2. Nothing.old = <<-1>> /\ Len(<<-1>>) = 1 /\ <<-1>>[1] = -1
  BY DEF Nothing, Recorded
<1>3. SUFFICES ASSUME r = Nothing PROVE FALSE
  OBVIOUS
<1>4. Len(r.old) = 1 /\ r.old[1] = -1
  BY <1>2, <1>3
<1>5. r.old[1] \in N
  BY <1>1, <1>4
<1>6. MaxItems \in Nat
  BY ConstantsAssumption
<1>. QED
  BY <1>4, <1>5, <1>6 DEF Items

\* Nothing has happened to the children yet.
LEMMA RecordedShows ==
  ASSUME NEW N, N \subseteq Items, NEW s \in Seq(N), Distinct(s)
  PROVE  RecordType(Recorded(s), N) /\ Shows(s, Recorded(s)) /\ Recorded(s).old = s
         /\ Recorded(s).removeChild = {}
<1>. DEFINE r == Recorded(s)
            L == Len(s)
<1>1. /\ r.old = s /\ r.removeChild = {} /\ r.insertBefore = [c \in Items |-> <<>>]
         /\ r.appendChild = <<>>
      /\ r.platformInfoUpdate = {}
      /\ DOMAIN r = {"old", "removeChild", "insertBefore", "appendChild", "platformInfoUpdate"}
  BY DEF Recorded
<1>2. r.insertBefore \in [Items -> Seq(N)]
  BY <1>1
<1>3. RecordType(r, N)
  <2>1. <<>> \in Seq(N)
    OBVIOUS
  <2>. HIDE DEF r
  <2>. QED
    BY <1>1, <1>2, <2>1 DEF RecordType
<1>. HIDE DEF r
<1>4. L \in Nat /\ DOMAIN s = 1..L /\ \A p \in 1..L : s[p] \in Items
  OBVIOUS
<1>5. \A p \in 1..L : Inserted(r, p) = 0 /\ ~IsRemoved(r, p)
  BY <1>1, <1>4 DEF Inserted, IsRemoved
<1>. DEFINE T == {n \in 0..L : PlaceOf(r, n + 1) = n + 1}
<1>6. 0 \in T
  <2>1. PlaceOf(r, 1) = 1
    BY <1>3, PlaceSteps
  <2>. QED
    BY <1>4, <2>1
<1>7. ASSUME NEW n \in 0..L, n + 1 <= L, n \in T PROVE n + 1 \in T
  <2>1. n + 1 \in 1..L /\ n + 1 \in 0..L
    BY <1>4, <1>7
  <2>2. Step(r, n + 1) = 1
    BY <1>5, <2>1 DEF Step
  <2>3. PlaceOf(r, (n + 1) + 1) = PlaceOf(r, n + 1) + Step(r, n + 1)
    BY <1>1, <1>3, <2>1, PlaceSteps
  <2>. QED
    BY <1>7, <2>1, <2>2, <2>3
<1>8. \A n \in 0..L : n \in T
  <2>. HIDE DEF T
  <2>. QED
    BY <1>4, <1>6, <1>7, UpTo
<1>9. \A p \in 1..(L + 1) : PlaceOf(r, p) = p
  <2>1. ASSUME NEW p \in 1..(L + 1) PROVE PlaceOf(r, p) = p
    <3>1. p - 1 \in 0..L /\ (p - 1) + 1 = p
      BY <1>4
    <3>2. p - 1 \in T
      BY <1>8, <3>1
    <3>. QED
      BY <3>1, <3>2
  <2>. QED
    BY <2>1
<1>10. PlaceAfter(r) = L + 1
  BY <1>1, <1>4, <1>9 DEF PlaceAfter
<1>11. L = LastPlace(r)
  BY <1>1, <1>4, <1>10 DEF LastPlace
<1>12. \A p \in 1..L : UpdatePosition(r, p) = p
  BY <1>4, <1>5, <1>9 DEF UpdatePosition
<1>13. Shows(s, r)
  BY <1>1, <1>4, <1>5, <1>11, <1>12 DEF Shows
<1>. QED
  BY <1>1, <1>3, <1>13 DEF r

\* All children are appended to a native list that has none.
LEMMA EverythingShows ==
  ASSUME NEW N, N \subseteq Items, childNodes \in Seq(N), Distinct(childNodes)
  PROVE  RecordType(Everything, N) /\ Shows(childNodes, Everything) /\ Holds(<<>>, Everything)
<1>. DEFINE r == Everything
            s == childNodes
            L == Len(s)
<1>1. /\ r.old = s /\ r.removeChild = ToSet(s) /\ r.insertBefore = [c \in Items |-> <<>>]
      /\ r.appendChild = s /\ r.platformInfoUpdate = {}
      /\ DOMAIN r = {"old", "removeChild", "insertBefore", "appendChild", "platformInfoUpdate"}
  BY DEF Everything, Recorded, Children
<1>2. r.insertBefore \in [Items -> Seq(N)]
  <2>1. <<>> \in Seq(N)
    OBVIOUS
  <2>. QED
    BY <1>1, <2>1
<1>3. L \in Nat /\ DOMAIN s = 1..L /\ \A p \in 1..L : s[p] \in Items /\ s[p] \in ToSet(s)
  BY DEF ToSet
<1>4. ToSet(s) \subseteq N
  BY <1>3 DEF ToSet
<1>5. RecordType(r, N)
  <2>. HIDE DEF r
  <2>. QED
    BY <1>1, <1>2, <1>4 DEF RecordType
<1>. HIDE DEF r
<1>6. \A p \in 1..L : Inserted(r, p) = 0 /\ IsRemoved(r, p)
  BY <1>1, <1>3 DEF Inserted, IsRemoved
<1>. DEFINE T == {n \in 0..L : PlaceOf(r, n + 1) = 1}
<1>7. 0 \in T
  <2>1. PlaceOf(r, 1) = 1
    BY <1>5, PlaceSteps
  <2>. QED
    BY <1>3, <2>1
<1>8. ASSUME NEW n \in 0..L, n + 1 <= L, n \in T PROVE n + 1 \in T
  <2>1. n + 1 \in 1..L /\ n + 1 \in 0..L
    BY <1>3, <1>8
  <2>2. Step(r, n + 1) = 0
    BY <1>6, <2>1 DEF Step
  <2>3. PlaceOf(r, (n + 1) + 1) = PlaceOf(r, n + 1) + Step(r, n + 1)
    BY <1>1, <1>5, <2>1, PlaceSteps
  <2>. QED
    BY <1>8, <2>1, <2>2, <2>3
<1>9. L \in T
  <2>. HIDE DEF T, L
  <2>1. L \in 0..L
    BY <1>3
  <2>. QED
    BY <1>3, <1>7, <1>8, <2>1, UpTo
<1>10. PlaceAfter(r) = 1
  BY <1>1, <1>9 DEF PlaceAfter
<1>11. L = LastPlace(r)
  BY <1>1, <1>3, <1>10 DEF LastPlace
<1>12. \A n \in 1..L : s[PlaceAfter(r) + n - 1] = s[n]
  BY <1>10
<1>13. Shows(s, r)
  BY <1>1, <1>3, <1>6, <1>11, <1>12 DEF Shows
<1>14. Holds(<<>>, r)
  BY <1>1, <1>3, <1>6 DEF Holds
<1>. QED
  BY <1>5, <1>13, <1>14 DEF r

-----------------------------------------------------------------------------
(* Types *)

\* What TypeInv says of the state.
LEMMA StateFacts ==
  ASSUME TypeInv
  PROVE  /\ created \in Nat /\ 1..created \subseteq Items
         /\ Recording # Nothing /\ RecordType(Recording, 1..created)
         /\ childNodes \in Seq(1..created) /\ Distinct(childNodes) /\ engine \in Seq(1..created)
         /\ Children \subseteq 1..created /\ Children = ToSet(childNodes)
            /\ placed \subseteq Children
         /\ Recording = IF recording = Nothing THEN Recorded(childNodes) ELSE recording
<1>1. MaxItems \in Nat /\ created \in 0..MaxItems /\ childNodes \in Seq(1..created)
      /\ Distinct(childNodes)
  BY ConstantsAssumption DEF TypeInv
<1>2. created \in Nat /\ 1..created \subseteq Items
  BY <1>1 DEF Items
<1>3. RecordType(Recording, 1..created)
  BY <1>1, <1>2, RecordedShows DEF TypeInv, Recording
<1>4. Recording # Nothing
  BY <1>2, <1>3, NotNothing
<1>5. Children \subseteq 1..created
  BY <1>1 DEF Children, ToSet
<1>. QED
  BY <1>1, <1>2, <1>3, <1>4, <1>5 DEF TypeInv, Children, Recording

LEMMA TypeInit == Init => TypeInv
<1>1. SUFFICES ASSUME Init PROVE TypeInv
  OBVIOUS
<1>2. MaxItems \in Nat /\ MaxPatches \in Nat
  BY ConstantsAssumption
<1>3. childNodes = <<>> /\ engine = <<>> /\ created = 0 /\ patches = 0 /\ attached = FALSE
      /\ placed = {} /\ recording = Nothing
  BY <1>1 DEF Init
<1>. DEFINE e == <<>>
<1>4. e \in Seq(1..created) /\ Distinct(e) /\ childNodes = e /\ engine = e
  BY <1>3 DEF Distinct
<1>. HIDE DEF e
<1>5. childNodes \in Seq(1..created) /\ Distinct(childNodes) /\ engine \in Seq(1..created)
  BY <1>4
<1>6. created \in 0..MaxItems /\ patches \in 0..MaxPatches
  BY <1>2, <1>3
<1>7. attached \in BOOLEAN /\ placed \subseteq ToSet(childNodes) /\ recording = Nothing
  <2>. HIDE DEF e
  <2>1. attached \in BOOLEAN /\ recording = Nothing
    BY <1>3
  <2>2. placed \subseteq ToSet(childNodes)
    BY <1>3
  <2>. QED
    BY <2>1, <2>2
<1>. QED
  BY <1>5, <1>6, <1>7 DEF TypeInv

LEMMA InsertNewType ==
  ASSUME TypeInv, NEW b \in Items \cup {AtEnd}, InsertNew(b)
  PROVE  TypeInv' /\ RecordType(recording', 1..created') /\ 1..created' \subseteq Items
<1>. DEFINE r == Recording
            c == created'
            N == 1..created'
<1>1. /\ created < MaxItems /\ b \in Untouched \cup {AtEnd} /\ c = created + 1
         /\ placed' = placed \cup {c}
      /\ recording' = onInsertBefore(r, c, FALSE, b) /\ childNodes' = With(childNodes, c, b)
      /\ attached' = attached /\ patches' = patches /\ engine' = engine
  BY DEF InsertNew
<1>2. /\ created \in Nat /\ childNodes \in Seq(1..created) /\ Distinct(childNodes)
      /\ engine \in Seq(1..created) /\ Children \subseteq 1..created /\ placed \subseteq Children
      /\ RecordType(r, 1..created) /\ Children = ToSet(childNodes)
  BY StateFacts
<1>3. MaxItems \in Nat
  BY ConstantsAssumption
<1>4. /\ c \in N /\ c \in 0..MaxItems /\ N \subseteq Items /\ 1..created \subseteq N
         /\ c \notin 1..created
  BY <1>1, <1>2, <1>3 DEF Items
<1>5. childNodes \in Seq(N) /\ engine \in Seq(N) /\ RecordType(r, N)
  BY <1>2, <1>4, RecordGrows
<1>6. c \notin ToSet(childNodes) /\ b \in ToSet(childNodes) \cup {AtEnd} /\ b \in N \cup {AtEnd}
  BY <1>1, <1>2, <1>4 DEF Untouched
<1>. HIDE DEF N, c, r
<1>7. childNodes' \in Seq(N) /\ Distinct(childNodes')
      /\ ToSet(childNodes') = ToSet(childNodes) \cup {c}
  BY <1>1, <1>2, <1>4, <1>5, <1>6, WithFacts
<1>8. RecordType(recording', N)
  <2>. DEFINE u == onInsertBefore(r, c, FALSE, b)
  <2>1. RecordType(u, N)
    BY <1>4, <1>5, <1>6, InsertRecord
  <2>. QED
    BY <1>1, <2>1
<1>9. placed' \subseteq ToSet(childNodes')
  BY <1>1, <1>2, <1>7
<1>10. attached \in BOOLEAN /\ patches \in 0..MaxPatches
  BY DEF TypeInv
<1>. QED
  BY <1>1, <1>4, <1>5, <1>7, <1>8, <1>9, <1>10 DEF TypeInv, N, c

LEMMA MoveType ==
  ASSUME TypeInv, NEW c \in Items, NEW b \in Items \cup {AtEnd}, Move(c, b)
  PROVE  TypeInv' /\ RecordType(recording', 1..created') /\ 1..created' \subseteq Items
         /\ Children' = Children
<1>. DEFINE r == Recording
            N == 1..created
            t == Without(c)
<1>1. /\ c \in Untouched /\ b \in (Untouched \cup {AtEnd}) \ {c} /\ placed' = placed \cup {c}
      /\ recording' = onInsertBefore(r, c, TRUE, b) /\ childNodes' = With(t, c, b)
      /\ created' = created /\ attached' = attached /\ patches' = patches /\ engine' = engine
  BY DEF Move
<1>2. /\ created \in Nat /\ childNodes \in Seq(N) /\ Distinct(childNodes) /\ N \subseteq Items
      /\ engine \in Seq(N) /\ Children \subseteq N /\ placed \subseteq Children
      /\ RecordType(r, N) /\ Children = ToSet(childNodes)
  BY StateFacts
<1>3. c \in Children /\ b \in (Children \cup {AtEnd}) \ {c} /\ c \in N /\ b \in N \cup {AtEnd}
  BY <1>1, <1>2 DEF Untouched
<1>. HIDE DEF N, r, t
<1>4. t \in Seq(N) /\ Distinct(t) /\ ToSet(t) = Children \ {c}
  BY <1>2, <1>3, WithoutFacts DEF t
<1>5. c \notin ToSet(t) /\ b \in ToSet(t) \cup {AtEnd}
  BY <1>3, <1>4
<1>7. childNodes' \in Seq(N) /\ Distinct(childNodes') /\ ToSet(childNodes') = Children
  <2>1. With(t, c, b) \in Seq(N) /\ Distinct(With(t, c, b))
        /\ ToSet(With(t, c, b)) = ToSet(t) \cup {c}
    BY <1>3, <1>4, <1>5, WithFacts
  <2>. QED
    BY <1>1, <1>3, <1>4, <2>1
<1>8. RecordType(recording', N)
  <2>. DEFINE u == onInsertBefore(r, c, TRUE, b)
  <2>1. RecordType(u, N)
    BY <1>2, <1>3, InsertRecord
  <2>. QED
    BY <1>1, <2>1
<1>9. placed' \subseteq ToSet(childNodes') /\ Children' = Children
  BY <1>1, <1>2, <1>3, <1>7 DEF Children
<1>10. attached \in BOOLEAN /\ patches \in 0..MaxPatches /\ created \in 0..MaxItems
  BY DEF TypeInv
<1>11. N = 1..created'
  BY <1>1 DEF N
<1>. QED
  BY <1>1, <1>2, <1>7, <1>8, <1>9, <1>10, <1>11 DEF TypeInv

LEMMA RemoveChildType ==
  ASSUME TypeInv, NEW c \in Items, removeChild(c)
  PROVE  TypeInv' /\ RecordType(recording', 1..created') /\ 1..created' \subseteq Items
         /\ Children' = Children \ {c}
<1>. DEFINE r == Recording
            N == 1..created
<1>1. /\ c \in Untouched /\ recording' = onRemoveChild(r, c) /\ childNodes' = Without(c)
      /\ created' = created /\ attached' = attached /\ placed' = placed /\ patches' = patches
         /\ engine' = engine
  BY DEF removeChild
<1>2. /\ created \in Nat /\ childNodes \in Seq(N) /\ Distinct(childNodes) /\ N \subseteq Items
      /\ engine \in Seq(N) /\ Children \subseteq N /\ placed \subseteq Children
      /\ RecordType(r, N) /\ Children = ToSet(childNodes)
  BY StateFacts
<1>3. c \in Children /\ c \notin placed /\ c \in N
  BY <1>1, <1>2 DEF Untouched
<1>. HIDE DEF N, r
<1>4. childNodes' \in Seq(N) /\ Distinct(childNodes') /\ ToSet(childNodes') = Children \ {c}
  BY <1>1, <1>2, <1>3, WithoutFacts
<1>5. RecordType(recording', N)
  <2>. DEFINE u == onRemoveChild(r, c)
  <2>1. RecordType(u, N)
    BY <1>2, <1>3, RemoveRecord
  <2>. QED
    BY <1>1, <2>1
<1>6. placed' \subseteq ToSet(childNodes') /\ Children' = Children \ {c}
  BY <1>1, <1>2, <1>3, <1>4 DEF Children
<1>7. attached \in BOOLEAN /\ patches \in 0..MaxPatches /\ created \in 0..MaxItems
  BY DEF TypeInv
<1>8. N = 1..created'
  BY <1>1 DEF N
<1>. QED
  BY <1>1, <1>2, <1>4, <1>5, <1>6, <1>7, <1>8 DEF TypeInv

LEMMA SetAttributeType ==
  ASSUME TypeInv, NEW c \in Items, setAttribute(c)
  PROVE  TypeInv' /\ RecordType(recording', 1..created') /\ 1..created' \subseteq Items
<1>. DEFINE r == Recording
            N == 1..created
<1>1. /\ c \in Children /\ recording' = onSetAttribute(r, c) /\ childNodes' = childNodes
      /\ created' = created /\ attached' = attached /\ placed' = placed /\ patches' = patches
         /\ engine' = engine
  BY DEF setAttribute
<1>2. RecordType(r, N) /\ c \in N /\ N \subseteq Items
  BY <1>1, StateFacts
<1>3. RecordType(recording', N)
  <2>. DEFINE u == onSetAttribute(r, c)
  <2>1. RecordType(u, N)
    BY <1>2, UpdateRecord
  <2>. QED
    BY <1>1, <2>1
<1>. QED
  BY <1>1, <1>2, <1>3 DEF TypeInv

LEMMA flushType ==
  ASSUME TypeInv, flush
  PROVE  TypeInv'
<1>. DEFINE N == 1..created
<1>1. /\ patches < MaxPatches /\ patches' = patches + 1 /\ placed' = {}
      /\ childNodes' = childNodes /\ created' = created /\ attached' = attached
  BY DEF flush
<1>2. MaxPatches \in Nat /\ patches \in 0..MaxPatches
  BY ConstantsAssumption DEF TypeInv
<1>3. patches' \in 0..MaxPatches
  BY <1>1, <1>2
<1>4. N \subseteq Items /\ engine \in Seq(N)
  BY StateFacts
<1>5. CASE attached /\ recording # Nothing
  <2>1. engine' = Applied(engine, recording) /\ recording' = Nothing
    BY <1>5 DEF flush
  <2>2. RecordType(recording, N)
    BY <1>5 DEF TypeInv
  <2>3. engine' \in Seq(N)
    BY <1>4, <2>1, <2>2, AppliedType
  <2>. QED
    BY <1>1, <1>3, <2>1, <2>3 DEF TypeInv
<1>6. CASE ~(attached /\ recording # Nothing)
  <2>1. engine' = engine /\ recording' = recording
    BY <1>6 DEF flush
  <2>. QED
    BY <1>1, <1>3, <2>1 DEF TypeInv
<1>. QED
  BY <1>5, <1>6

LEMMA ensureElementsType ==
  ASSUME TypeInv, ensureElements
  PROVE  TypeInv'
<1>. DEFINE N == 1..created
            r == IF recording = Nothing THEN Everything ELSE recording
<1>1. /\ attached' = TRUE /\ engine' = Applied(<<>>, r) /\ recording' = Nothing
      /\ childNodes' = childNodes /\ created' = created /\ placed' = placed /\ patches' = patches
  BY DEF ensureElements
<1>2. N \subseteq Items /\ childNodes \in Seq(N) /\ Distinct(childNodes) /\ <<>> \in Seq(N)
  BY StateFacts
<1>3. RecordType(r, N)
  BY <1>2, EverythingShows DEF TypeInv
<1>. HIDE DEF r
<1>. DEFINE e == <<>>
<1>4. e \in Seq(N) /\ engine' = Applied(e, r)
  BY <1>1, <1>2
<1>. HIDE DEF e
<1>5. Applied(e, r) \in Seq(N)
  BY <1>2, <1>3, <1>4, AppliedType
<1>. QED
  BY <1>1, <1>4, <1>5 DEF TypeInv

LEMMA TypeInductive == TypeInv /\ [Next]_vars => TypeInv'
<1>1. SUFFICES ASSUME TypeInv, [Next]_vars PROVE TypeInv'
  OBVIOUS
<1>2. CASE UNCHANGED vars
  BY <1>1, <1>2 DEF TypeInv, vars
<1>3. ASSUME NEW b \in Items \cup {AtEnd}, InsertNew(b) PROVE TypeInv'
  BY <1>1, <1>3, InsertNewType
<1>4. ASSUME NEW b \in Items \cup {AtEnd}, NEW c \in Items, Move(c, b) PROVE TypeInv'
  BY <1>1, <1>4, MoveType
<1>5. ASSUME NEW c \in Items, removeChild(c) PROVE TypeInv'
  BY <1>1, <1>5, RemoveChildType
<1>6. ASSUME NEW c \in Items, setAttribute(c) PROVE TypeInv'
  BY <1>1, <1>6, SetAttributeType
<1>7. CASE flush
  BY <1>1, <1>7, flushType
<1>8. CASE ensureElements
  BY <1>1, <1>8, ensureElementsType
<1>9. CASE hydrate
  BY <1>1, <1>9 DEF hydrate, TypeInv
<1>10. CASE unRenderElements
  <2>1. <<>> \in Seq(1..created)
    OBVIOUS
  <2>. QED
    BY <1>1, <1>10, <2>1 DEF unRenderElements, TypeInv
<1>. QED
  BY <1>1, <1>2, <1>3, <1>4, <1>5, <1>6, <1>7, <1>8, <1>9, <1>10 DEF Next

LEMMA TypeInvAlways == Spec => []TypeInv
<1>1. TypeInv /\ [Next]_vars => TypeInv'
  BY TypeInductive
<1>. QED
  BY <1>1, TypeInit, PTL DEF Spec

\* Every item of the list, of its record and of the native list is one that was created,
\* no item is twice in the list and every item the patch has placed is in it, whatever
\* patches do to the list and whenever it gets and loses its element.
THEOREM TypeCorrect == Spec => []TypeOK
<1>1. TypeInv => TypeOK
  <2>1. SUFFICES ASSUME TypeInv PROVE TypeOK
    OBVIOUS
  <2>2. /\ childNodes \in Seq(1..created) /\ engine \in Seq(1..created) /\ Distinct(childNodes)
        /\ placed \subseteq ToSet(childNodes)
        /\ attached \in BOOLEAN /\ created \in 0..MaxItems /\ patches \in 0..MaxPatches
    BY <2>1 DEF TypeInv
  <2>3. \A s : s \in Seq(1..created) => ToSet(s) \subseteq 1..created
    <3>1. ASSUME NEW s, s \in Seq(1..created) PROVE ToSet(s) \subseteq 1..created
      <4>. DEFINE N == 1..created
      <4>1. s \in Seq(N)
        BY <3>1
      <4>. HIDE DEF N
      <4>2. \A n \in DOMAIN s : s[n] \in N
        BY <4>1
      <4>3. ToSet(s) \subseteq N
        BY <4>2 DEF ToSet
      <4>. QED
        BY <4>3 DEF N
    <3>. QED
      BY <3>1
  <2>4. IsInjective(childNodes)
    BY <2>2 DEF IsInjective, Distinct
  <2>5. ASSUME recording # Nothing
        PROVE  /\ ToSet(recording.appendChild) \subseteq 1..created
               /\ recording.removeChild \cup recording.platformInfoUpdate \subseteq 1..created
               /\ \A c \in Items : ToSet(recording.insertBefore[c]) \subseteq 1..created
    <3>1. RecordType(recording, 1..created)
      BY <2>1, <2>5 DEF TypeInv
    <3>2. /\ recording.appendChild \in Seq(1..created)
          /\ recording.insertBefore \in [Items -> Seq(1..created)]
          /\ recording.removeChild \cup recording.platformInfoUpdate \subseteq 1..created
      BY <3>1 DEF RecordType
    <3>. QED
      BY <2>3, <3>2
  <2>6. ToSet(recording.appendChild) \subseteq 1..created
    <3>1. CASE recording = Nothing
      <4>1. recording.appendChild = <<>>
        BY <3>1 DEF Nothing, Recorded
      <4>2. <<>> \in Seq(1..created)
        OBVIOUS
      <4>. QED
        BY <2>3, <4>1, <4>2
    <3>. QED
      BY <2>5, <3>1
  <2>. QED
    BY <2>2, <2>3, <2>4, <2>5, <2>6 DEF TypeOK, Children
<1>. QED
  BY <1>1, TypeInvAlways, PTL

-----------------------------------------------------------------------------
(* What is recorded leads to the children *)

\* What RecordInv says of the record that an operation extends.
LEMMA RecordingFacts ==
  ASSUME TypeInv, RecordInv, attached \/ (recording = Nothing => childNodes = <<>>)
  PROVE  /\ Shows(childNodes, Recording) /\ engine = Recording.old
         /\ ~attached => Recording.old = <<>>
         /\ attached => \A c \in Children \ placed :
                          c \in ToSet(Recording.old) \ Recording.removeChild
<1>1. /\ childNodes \in Seq(1..created) /\ Distinct(childNodes) /\ 1..created \subseteq Items
      /\ Children = ToSet(childNodes)
      /\ Recording = IF recording = Nothing THEN Recorded(childNodes) ELSE recording
  BY StateFacts
<1>2. CASE recording = Nothing
  <2>1. /\ Shows(childNodes, Recorded(childNodes)) /\ Recorded(childNodes).old = childNodes
        /\ Recorded(childNodes).removeChild = {}
    BY <1>1, RecordedShows
  <2>2. Recording = Recorded(childNodes)
    BY <1>1, <1>2
  <2>3. engine = IF attached THEN childNodes ELSE <<>>
    BY <1>2 DEF RecordInv
  <2>4. ~attached => childNodes = <<>>
    BY <1>2
  <2>. QED
    BY <1>1, <2>1, <2>2, <2>3, <2>4
<1>3. CASE recording # Nothing
  <2>1. Recording = recording
    BY <1>1, <1>3
  <2>. QED
    BY <1>3, <2>1 DEF RecordInv
<1>. QED
  BY <1>2, <1>3

\* An item is put before an old one or at the end: the record u of r shows the new children.
LEMMA ShowsWith ==
  ASSUME NEW N, N \subseteq Items, NEW r, RecordType(r, N), NEW u, RecordType(u, N),
         NEW s \in Seq(N), Distinct(s), Shows(s, r), NEW c \in N,
         NEW b \in (ToSet(r.old) \ r.removeChild) \cup {AtEnd}, Records(r, u, c, FALSE, b)
  PROVE  Shows(With(s, c, b), u)
<1>1. CASE b = AtEnd
  <2>1. PutAtEnd(r, u, c)
    BY <1>1 DEF PutAtEnd, Records
  <2>2. With(s, c, b) = Append(s, c)
    BY <1>1 DEF With
  <2>. QED
    BY <2>1, <2>2, ShowsAppended
<1>2. CASE b # AtEnd
  <2>0. DOMAIN r.old = 1..Len(r.old)
    BY RecordFacts
  <2>1. PICK o \in 1..Len(r.old) : r.old[o] = b
    BY <1>2, <2>0 DEF ToSet
  <2>2. ~IsRemoved(r, o)
    BY <1>2, <2>1 DEF IsRemoved
  <2>3. PutBefore(r, u, o, c)
    BY <1>2, <2>1 DEF PutBefore, Records
  <2>. DEFINE k == UpdatePosition(r, o)
  <2>4. Shows(InsertAt(s, k, c), u)
    BY <2>3, ShowsInserted
  <2>5. k \in 1..Len(s) /\ s[k] = b
    <3>1. /\ PlaceOf(r, o) \in Nat \ {0} /\ Inserted(r, o) \in Nat
          /\ k = PlaceOf(r, o) + Inserted(r, o)
          /\ Step(r, o) = Inserted(r, o) + 1 /\ PlaceOf(r, o) + Step(r, o) <= PlaceAfter(r)
      BY <2>2, PlaceBounds
    <3>2. /\ PlaceAfter(r) \in Nat /\ Len(r.appendChild) \in Nat
          /\ LastPlace(r) = PlaceAfter(r) + Len(r.appendChild) - 1
      BY PlaceBounds
    <3>3. Len(s) = LastPlace(r)
      BY DEF Shows
    <3>4. s[k] = b
      BY <2>0, <2>1, <2>2 DEF Shows
    <3>. HIDE DEF k
    <3>5. k \in 1..Len(s)
      BY <3>1, <3>2, <3>3, SMTT(30)
    <3>. QED
      BY <3>4, <3>5
  <2>. HIDE DEF k
  <2>6. (CHOOSE n \in DOMAIN s : s[n] = b) = k
    BY <2>5, LocatedAt
  <2>7. With(s, c, b) = InsertAt(s, k, c)
    BY <1>2, <2>6 DEF With
  <2>. QED
    BY <2>4, <2>7
<1>. QED
  BY <1>1, <1>2

\* A child is taken out.
LEMMA ShowsWithout ==
  ASSUME NEW N, N \subseteq Items, NEW r, RecordType(r, N), NEW u, RecordType(u, N),
         childNodes \in Seq(N), Distinct(childNodes), Shows(childNodes, r),
         NEW c \in ToSet(r.old) \ r.removeChild,
         u.old = r.old, u.removeChild = r.removeChild \cup {c},
         u.insertBefore = r.insertBefore, u.appendChild = r.appendChild
  PROVE  Shows(Without(c), u)
<1>. DEFINE s == childNodes
<1>0. DOMAIN r.old = 1..Len(r.old)
  BY RecordFacts
<1>1. PICK o \in 1..Len(r.old) : r.old[o] = c
  BY <1>0 DEF ToSet
<1>2. ~IsRemoved(r, o) /\ TakenOut(r, u, o)
  BY <1>1 DEF IsRemoved, TakenOut
<1>. DEFINE k == UpdatePosition(r, o)
<1>3. Shows(RemoveAt(s, k), u) /\ k \in 1..Len(s) /\ s[k] = c
  BY <1>1, <1>2, ShowsRemoved
<1>. HIDE DEF k
<1>4. (CHOOSE n \in DOMAIN s : s[n] = c) = k
  BY <1>3, LocatedAt
<1>5. Without(c) = RemoveAt(s, k)
  BY <1>4 DEF Without
<1>. QED
  BY <1>3, <1>5

LEMMA InsertNewRecord ==
  ASSUME LateChanges = FALSE, TypeInv, RecordInv, NEW b \in Items \cup {AtEnd}, InsertNew(b)
  PROVE  RecordInv'
<1>. DEFINE r == Recording
            c == created'
            N == 1..created'
            u == onInsertBefore(r, c, FALSE, b)
<1>1. /\ (MayChange \/ (MayFill /\ b = AtEnd)) /\ c = created + 1 /\ placed' = placed \cup {c}
      /\ b \in Untouched \cup {AtEnd}
      /\ recording' = u /\ childNodes' = With(childNodes, c, b) /\ attached' = attached
         /\ engine' = engine
  BY DEF InsertNew
<1>2. attached \/ (recording = Nothing => childNodes = <<>>)
  BY <1>1 DEF MayChange, MayFill
<1>3. attached \/ b = AtEnd
  BY <1>1 DEF MayChange
<1>4. /\ Shows(childNodes, r) /\ engine = r.old /\ (~attached => r.old = <<>>)
      /\ attached => \A x \in Children \ placed : x \in ToSet(r.old) \ r.removeChild
  BY <1>2, RecordingFacts
<1>5. /\ created \in Nat /\ childNodes \in Seq(1..created) /\ Distinct(childNodes)
      /\ Children \subseteq 1..created /\ RecordType(r, 1..created) /\ Children = ToSet(childNodes)
  BY StateFacts
<1>6. RecordType(recording', N) /\ N \subseteq Items /\ TypeInv'
  BY InsertNewType
<1>7. c \in N /\ 1..created \subseteq N /\ c \notin 1..created
  BY <1>1, <1>5
<1>8. childNodes \in Seq(N) /\ RecordType(r, N)
  BY <1>5, <1>7, RecordGrows
<1>9. c \notin ToSet(childNodes) /\ b \in ToSet(childNodes) \cup {AtEnd} /\ b \in N \cup {AtEnd}
  BY <1>1, <1>5, <1>7 DEF Untouched
<1>10. b \in (ToSet(r.old) \ r.removeChild) \cup {AtEnd}
  BY <1>1, <1>3, <1>4 DEF Untouched
<1>. HIDE DEF r, N, c
<1>11. RecordType(u, N) /\ Records(r, u, c, FALSE, b)
  BY <1>6, <1>7, <1>8, <1>9, InsertRecord
<1>16. u.old = r.old /\ u.removeChild = r.removeChild
  BY <1>11 DEF Records
<1>. HIDE DEF u
<1>12. Shows(childNodes', recording')
  BY <1>1, <1>4, <1>5, <1>6, <1>7, <1>8, <1>10, <1>11, ShowsWith
<1>13. ToSet(childNodes') = ToSet(childNodes) \cup {c}
  BY <1>1, <1>5, <1>7, <1>8, <1>9, WithFacts
<1>14. Children' \ placed' \subseteq Children \ placed
  BY <1>1, <1>5, <1>13 DEF Children
<1>15. recording' # Nothing
  BY <1>6, NotNothing
<1>. QED
  BY <1>1, <1>4, <1>12, <1>14, <1>15, <1>16 DEF RecordInv

LEMMA MoveRecord ==
  ASSUME LateChanges = FALSE, TypeInv, RecordInv, NEW c \in Items, NEW b \in Items \cup {AtEnd},
         Move(c, b)
  PROVE  RecordInv'
<1>. DEFINE r == Recording
            N == 1..created
            t == Without(c)
            u == onInsertBefore(r, c, TRUE, b)
            v == onRemoveChild(r, c)
<1>1. /\ MayChange /\ c \in Untouched /\ b \in (Untouched \cup {AtEnd}) \ {c}
         /\ placed' = placed \cup {c}
      /\ recording' = u /\ childNodes' = With(t, c, b)
      /\ attached' = attached /\ engine' = engine /\ created' = created
  BY DEF Move
<1>2. attached
  BY <1>1 DEF MayChange
<1>3. /\ Shows(childNodes, r) /\ engine = r.old
      /\ \A x \in Children \ placed : x \in ToSet(r.old) \ r.removeChild
  BY <1>2, RecordingFacts
<1>4. /\ created \in Nat /\ childNodes \in Seq(N) /\ Distinct(childNodes) /\ N \subseteq Items
      /\ Children \subseteq N /\ RecordType(r, N) /\ Children = ToSet(childNodes)
  BY StateFacts
<1>5. c \in Children /\ c \in N /\ b \in N \cup {AtEnd} /\ c \in ToSet(r.old) \ r.removeChild
      /\ b \in (ToSet(r.old) \ (r.removeChild \cup {c})) \cup {AtEnd}
  BY <1>1, <1>3, <1>4 DEF Untouched
<1>. HIDE DEF r, N, t
<1>6. /\ RecordType(v, N) /\ v.old = r.old /\ v.removeChild = r.removeChild \cup {c}
      /\ v.insertBefore = r.insertBefore /\ v.appendChild = r.appendChild
  BY <1>4, <1>5, RemoveRecord
<1>15. RecordType(u, N) /\ Records(r, u, c, TRUE, b)
  BY <1>4, <1>5, InsertRecord
<1>7. u.old = r.old /\ u.removeChild = r.removeChild \cup {c}
  BY <1>15 DEF Records
<1>. HIDE DEF u, v
<1>8. Shows(t, v)
  BY <1>3, <1>4, <1>5, <1>6, ShowsWithout DEF t
<1>9. t \in Seq(N) /\ Distinct(t)
  BY <1>4, <1>5, WithoutFacts DEF t
<1>10. b \in (ToSet(v.old) \ v.removeChild) \cup {AtEnd} /\ Records(v, u, c, FALSE, b)
  <2>1. Records(v, u, c, FALSE, b)
    BY <1>6, <1>15 DEF Records
  <2>. QED
    BY <1>5, <1>6, <2>1
<1>11. Shows(With(t, c, b), u)
  BY <1>4, <1>5, <1>6, <1>8, <1>9, <1>10, <1>15, ShowsWith
<1>12. Children' = Children
  BY MoveType
<1>13. u # Nothing
  BY <1>4, <1>15, NotNothing
<1>14. \A x \in Children' \ placed' : x \in ToSet(u.old) \ u.removeChild
  BY <1>1, <1>3, <1>7, <1>12
<1>. QED
  BY <1>1, <1>2, <1>3, <1>7, <1>11, <1>13, <1>14 DEF RecordInv

LEMMA RemoveChildRecord ==
  ASSUME LateChanges = FALSE, TypeInv, RecordInv, NEW c \in Items, removeChild(c)
  PROVE  RecordInv'
<1>. DEFINE r == Recording
            N == 1..created
            u == onRemoveChild(r, c)
<1>1. /\ MayChange /\ c \in Untouched /\ recording' = u /\ childNodes' = Without(c)
      /\ attached' = attached /\ engine' = engine /\ placed' = placed
  BY DEF removeChild
<1>2. attached
  BY <1>1 DEF MayChange
<1>3. /\ Shows(childNodes, r) /\ engine = r.old
      /\ \A x \in Children \ placed : x \in ToSet(r.old) \ r.removeChild
  BY <1>2, RecordingFacts
<1>4. /\ childNodes \in Seq(N) /\ Distinct(childNodes) /\ N \subseteq Items
      /\ Children \subseteq N /\ RecordType(r, N) /\ Children = ToSet(childNodes)
  BY StateFacts
<1>5. c \in Children /\ c \in N /\ c \in ToSet(r.old) \ r.removeChild
  BY <1>1, <1>3, <1>4 DEF Untouched
<1>. HIDE DEF r, N
<1>6. /\ RecordType(u, N) /\ u.old = r.old /\ u.removeChild = r.removeChild \cup {c}
      /\ u.insertBefore = r.insertBefore /\ u.appendChild = r.appendChild
  BY <1>4, <1>5, RemoveRecord
<1>. HIDE DEF u
<1>7. Shows(childNodes', u)
  BY <1>1, <1>3, <1>4, <1>5, <1>6, ShowsWithout
<1>8. Children' = Children \ {c}
  BY RemoveChildType
<1>9. u # Nothing
  BY <1>4, <1>6, NotNothing
<1>10. \A x \in Children' \ placed' : x \in ToSet(u.old) \ u.removeChild
  BY <1>1, <1>3, <1>6, <1>8
<1>. QED
  BY <1>1, <1>2, <1>3, <1>6, <1>7, <1>9, <1>10 DEF RecordInv

LEMMA SetAttributeRecord ==
  ASSUME LateChanges = FALSE, TypeInv, RecordInv, NEW c \in Items, setAttribute(c)
  PROVE  RecordInv'
<1>. DEFINE r == Recording
            N == 1..created
            u == onSetAttribute(r, c)
            s == childNodes
<1>1. /\ MayChange /\ c \in Children /\ recording' = u /\ childNodes' = s
      /\ attached' = attached /\ engine' = engine /\ placed' = placed
  BY DEF setAttribute
<1>2. attached
  BY <1>1 DEF MayChange
<1>3. /\ Shows(s, r) /\ engine = r.old
      /\ \A x \in Children \ placed : x \in ToSet(r.old) \ r.removeChild
  BY <1>2, RecordingFacts
<1>4. N \subseteq Items /\ RecordType(r, N) /\ c \in N
  BY <1>1, StateFacts
<1>. HIDE DEF r, N
<1>5. /\ RecordType(u, N) /\ u.old = r.old /\ u.removeChild = r.removeChild
      /\ u.insertBefore = r.insertBefore /\ u.appendChild = r.appendChild
  BY <1>4, UpdateRecord
<1>. HIDE DEF u
<1>6. Shows(s, u)
  BY <1>3, <1>4, <1>5, ShowsUpdated
<1>7. u # Nothing
  BY <1>4, <1>5, NotNothing
<1>8. Children' = Children
  BY <1>1 DEF Children
<1>. QED
  BY <1>1, <1>2, <1>3, <1>5, <1>6, <1>7, <1>8 DEF RecordInv

\* The native list is told the record and then has the children.
LEMMA ToldRecord ==
  ASSUME TypeInv, NEW r, RecordType(r, 1..created), Shows(childNodes, r), NEW list,
         list = r.old \/ Holds(list, r)
  PROVE  Applied(list, r) = childNodes
<1>. DEFINE N == 1..created
<1>1. childNodes \in Seq(N) /\ N \subseteq Items
  BY StateFacts
<1>. HIDE DEF N
<1>2. RecordType(r, N)
  BY DEF N
<1>3. CASE list = r.old
  <2>1. Len(r.old) \in Nat
    BY <1>1, <1>2, RecordFacts
  <2>2. Holds(list, r)
    BY <1>3, <2>1 DEF Holds
  <2>. QED
    BY <1>1, <1>2, <2>2, AppliedShows
<1>4. CASE Holds(list, r)
  BY <1>1, <1>2, <1>4, AppliedShows
<1>. QED
  BY <1>3, <1>4

LEMMA flushRecord ==
  ASSUME TypeInv, RecordInv, flush
  PROVE  RecordInv'
<1>1. placed' = {} /\ childNodes' = childNodes /\ attached' = attached
  BY DEF flush
<1>2. CASE attached /\ recording # Nothing
  <2>1. engine' = Applied(engine, recording) /\ recording' = Nothing
    BY <1>2 DEF flush
  <2>2. Shows(childNodes, recording) /\ engine = recording.old
    BY <1>2 DEF RecordInv
  <2>3. RecordType(recording, 1..created)
    BY <1>2 DEF TypeInv
  <2>4. Applied(engine, recording) = childNodes
    BY <2>2, <2>3, ToldRecord
  <2>. QED
    BY <1>1, <1>2, <2>1, <2>4 DEF RecordInv
<1>3. CASE ~(attached /\ recording # Nothing)
  <2>1. engine' = engine /\ recording' = recording
    BY <1>3 DEF flush
  <2>. QED
    BY <1>1, <1>3, <2>1 DEF RecordInv
<1>. QED
  BY <1>2, <1>3

LEMMA ensureElementsRecord ==
  ASSUME TypeInv, RecordInv, ensureElements
  PROVE  RecordInv'
<1>. DEFINE r == IF recording = Nothing THEN Everything ELSE recording
            e == <<>>
<1>1. /\ ~attached /\ attached' = TRUE /\ engine' = Applied(e, r) /\ recording' = Nothing
      /\ childNodes' = childNodes
  BY DEF ensureElements
<1>2. childNodes \in Seq(1..created) /\ Distinct(childNodes) /\ 1..created \subseteq Items
  BY StateFacts
<1>3. RecordType(r, 1..created) /\ Shows(childNodes, r) /\ (e = r.old \/ Holds(e, r))
  <2>1. CASE recording = Nothing
    BY <1>2, <2>1, EverythingShows
  <2>2. CASE recording # Nothing
    <3>1. RecordType(recording, 1..created) /\ Shows(childNodes, recording) /\ recording.old = e
      BY <1>1, <2>2 DEF TypeInv, RecordInv
    <3>. QED
      BY <2>2, <3>1
  <2>. QED
    BY <2>1, <2>2
<1>. HIDE DEF r, e
<1>4. Applied(e, r) = childNodes
  BY <1>3, ToldRecord
<1>. QED
  BY <1>1, <1>4 DEF RecordInv

LEMMA RecordInductive ==
  LateChanges = FALSE /\ TypeInv /\ RecordInv /\ [Next]_vars => RecordInv'
<1>1. SUFFICES ASSUME LateChanges = FALSE, TypeInv, RecordInv, [Next]_vars PROVE RecordInv'
  OBVIOUS
<1>2. CASE UNCHANGED vars
  <2>1. Children' = Children
    BY <1>2 DEF Children, vars
  <2>. QED
    BY <1>1, <1>2, <2>1 DEF RecordInv, vars
<1>3. ASSUME NEW b \in Items \cup {AtEnd}, InsertNew(b) PROVE RecordInv'
  BY <1>1, <1>3, InsertNewRecord
<1>4. ASSUME NEW b \in Items \cup {AtEnd}, NEW c \in Items, Move(c, b) PROVE RecordInv'
  BY <1>1, <1>4, MoveRecord
<1>5. ASSUME NEW c \in Items, removeChild(c) PROVE RecordInv'
  BY <1>1, <1>5, RemoveChildRecord
<1>6. ASSUME NEW c \in Items, setAttribute(c) PROVE RecordInv'
  BY <1>1, <1>6, SetAttributeRecord
<1>7. CASE flush
  BY <1>1, <1>7, flushRecord
<1>8. CASE ensureElements
  BY <1>1, <1>8, ensureElementsRecord
<1>9. CASE hydrate
  BY <1>1, <1>9 DEF hydrate, RecordInv
<1>10. CASE unRenderElements
  BY <1>1, <1>10 DEF unRenderElements, RecordInv
<1>. QED
  BY <1>1, <1>2, <1>3, <1>4, <1>5, <1>6, <1>7, <1>8, <1>9, <1>10 DEF Next

LEMMA RecordInvAlways ==
  ASSUME LateChanges = FALSE
  PROVE  Spec => [](TypeInv /\ RecordInv)
<1>1. Init => TypeInv /\ RecordInv
  <2>1. Init => RecordInv
    BY DEF Init, RecordInv
  <2>. QED
    BY <2>1, TypeInit
<1>2. TypeInv /\ RecordInv /\ [Next]_vars => (TypeInv /\ RecordInv)'
  BY TypeInductive, RecordInductive
<1>. QED
  BY <1>1, <1>2, PTL DEF Spec

\* Where items change only while the list has its element, the native list always comes to
\* have one place for every child, in their order, whatever patches insert, move and remove
\* and however often the list gets and loses its element.
THEOREM NativeShowsAlways ==
  ASSUME LateChanges = FALSE
  PROVE  Spec => []NativeShowsItems
<1>1. RecordInv => NativeShowsItems
  BY DEF RecordInv, NativeShowsItems
<1>. QED
  BY <1>1, RecordInvAlways, PTL

\* Under the same condition the new platform info of an item that stays reaches this item.
THEOREM UpdatesReachAlways ==
  ASSUME LateChanges = FALSE
  PROVE  Spec => []UpdatesReachTheirItem
<1>1. TypeInv /\ RecordInv => UpdatesReachTheirItem
  <2>1. SUFFICES ASSUME TypeInv, RecordInv, attached, recording # Nothing,
                        NEW p \in DOMAIN recording.old,
                        recording.old[p] \in recording.platformInfoUpdate \ recording.removeChild
                 PROVE  /\ UpdatePosition(recording, p) \in DOMAIN childNodes
                        /\ childNodes[UpdatePosition(recording, p)] = recording.old[p]
    BY DEF UpdatesReachTheirItem
  <2>. DEFINE N == 1..created
              r == recording
  <2>2. RecordType(r, N) /\ Shows(childNodes, r)
    BY <2>1 DEF TypeInv, RecordInv
  <2>3. N \subseteq Items /\ childNodes \in Seq(N)
    BY <2>1, StateFacts
  <2>. HIDE DEF N, r
  <2>4. p \in 1..Len(r.old) /\ ~IsRemoved(r, p)
    <3>1. DOMAIN r.old = 1..Len(r.old)
      BY <2>2, <2>3, RecordFacts
    <3>. QED
      BY <2>1, <3>1 DEF r, IsRemoved
  <2>5. childNodes[UpdatePosition(r, p)] = r.old[p]
    <3>1. ShownAt(childNodes, r, p)
      BY <2>2, <2>3, <2>4, ShowsAt
    <3>. QED
      BY <2>4, <3>1 DEF ShownAt
  <2>6. UpdatePosition(r, p) \in 1..LastPlace(r)
    <3>1. /\ PlaceOf(r, p) \in Nat \ {0} /\ Inserted(r, p) \in Nat
          /\ UpdatePosition(r, p) = PlaceOf(r, p) + Inserted(r, p)
          /\ Step(r, p) = Inserted(r, p) + 1 /\ PlaceOf(r, p) + Step(r, p) <= PlaceAfter(r)
      BY <2>2, <2>3, <2>4, PlaceBounds
    <3>2. /\ PlaceAfter(r) \in Nat /\ Len(r.appendChild) \in Nat
          /\ LastPlace(r) = PlaceAfter(r) + Len(r.appendChild) - 1
      BY <2>2, <2>3, <2>4, PlaceBounds
    <3>. QED
      BY <3>1, <3>2
  <2>7. DOMAIN childNodes = 1..LastPlace(r)
    BY <2>2, <2>3 DEF Shows
  <2>. QED
    BY <2>5, <2>6, <2>7 DEF r
<1>. QED
  BY <1>1, RecordInvAlways, PTL
=============================================================================
