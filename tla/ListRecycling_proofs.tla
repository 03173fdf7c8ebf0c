---------------------- MODULE ListRecycling_proofs ----------------------
(***************************************************************************)
(* Theorems about ListRecycling, for any items, types, reuse-identifiers   *)
(* and number of updates.                                                  *)
(***************************************************************************)
EXTENDS ListRecycling, SequenceTheorems, TLAPS

Entries == [sign : Signs, ctx : Ctxs]
Events == [name : {"onComponentAtIndex", "onRecycleComponent"}, item : Deferred]
Patches ==
  [kind : {"ready", "unready"}, item : Deferred] \cup [kind : {"remove"}, item : Items]

\* What TypeOK leaves out: the table of signs knows every sign, and the queues hold events
\* of deferred items and patches.
TypeInv ==
  /\ reuseId \in ReuseIds /\ unmount \in BOOLEAN
  /\ items \subseteq Items /\ generation \in 0..MaxUpdates /\ created \in Nat
  /\ elements \in [DOMAIN elements -> Signs] /\ DOMAIN elements \subseteq Ctxs
  /\ signMap \in [Signs -> Ctxs]
  /\ recycleMap \in [Pools -> Seq(Entries)]
  /\ isReady \in [Items -> {"0", "promise", "1"}]
  /\ \A i \in Items : isReady[i] # "1" => i \in Deferred
  /\ screen \subseteq Signs \X items /\ leaving \subseteq Signs
  /\ mounted \subseteq items /\ rendered \in [Deferred -> BOOLEAN]
  /\ toBackground \in Seq(Events) /\ toMain \in Seq(Patches)
  /\ moves \in 0..MaxUpdates

\* A patch is about an item that is still in the list when it arrives: nothing comes after
\* the removal of an item.
RemovalInv ==
  /\ \A n \in 1..Len(toMain) : toMain[n].item \in items
  /\ \A n \in 1..Len(toMain) : toMain[n].kind = "remove" =>
       /\ toMain[n].item \notin mounted
       /\ \A m \in 1..Len(toMain) : n < m => toMain[m].item # toMain[n].item

-----------------------------------------------------------------------------
(* Sequences and tables *)

LEMMA ToSetOfSeq ==
  ASSUME NEW S, NEW q \in Seq(S)
  PROVE  /\ ToSet(q) \subseteq S
         /\ \A n \in 1..Len(q) : q[n] \in ToSet(q)
         /\ \A e \in ToSet(q) : \E n \in 1..Len(q) : q[n] = e
  BY DEF ToSet

\* What is left when the entry at k is taken out.
LEMMA RemovedAt ==
  ASSUME NEW S, NEW q \in Seq(S), NEW k \in 1..Len(q)
  PROVE  /\ RemoveAt(q, k) \in Seq(S) /\ Len(RemoveAt(q, k)) = Len(q) - 1
         /\ \A n \in 1..(Len(q) - 1) : RemoveAt(q, k)[n] = IF n < k THEN q[n] ELSE q[n + 1]
<1>. DEFINE a == SubSeq(q, 1, k - 1)
            b == SubSeq(q, k + 1, Len(q))
<1>1. a \in Seq(S) /\ Len(a) = k - 1 /\ \A n \in 1..(k - 1) : a[n] = q[n]
  OBVIOUS
<1>2. b \in Seq(S) /\ Len(b) = Len(q) - k /\ \A n \in 1..(Len(q) - k) : b[n] = q[k + n]
  OBVIOUS
<1>3. RemoveAt(q, k) = a \o b
  BY DEF RemoveAt
<1>4. Len(q) \in Nat /\ k \in 1..Len(q)
  OBVIOUS
<1>. HIDE DEF a, b
<1>5. /\ a \o b \in Seq(S) /\ Len(a \o b) = Len(a) + Len(b)
      /\ \A n \in 1..(Len(a) + Len(b)) :
           (a \o b)[n] = IF n <= Len(a) THEN a[n] ELSE b[n - Len(a)]
  BY <1>1, <1>2, ConcatProperties
<1>. QED
  BY <1>1, <1>2, <1>3, <1>4, <1>5

\* A key occurs once.
Keyed(q) == \A n, m \in 1..Len(q) : q[n].sign = q[m].sign => n = m

LEMMA RemovedKey ==
  ASSUME NEW S, NEW q \in Seq(S), Keyed(q), NEW k \in 1..Len(q)
  PROVE  /\ RemoveAt(q, k) \in Seq(S) /\ Keyed(RemoveAt(q, k))
         /\ ToSet(RemoveAt(q, k)) = {e \in ToSet(q) : e.sign # q[k].sign}
<1>. DEFINE r == RemoveAt(q, k)
<1>1. r \in Seq(S) /\ Len(r) = Len(q) - 1 /\ Len(q) \in Nat
  BY RemovedAt
<1>2. \A n \in 1..Len(r) : r[n] = IF n < k THEN q[n] ELSE q[n + 1]
  BY RemovedAt
<1>. HIDE DEF r
<1>3. Keyed(r)
  BY <1>1, <1>2 DEF Keyed
<1>4. ASSUME NEW e \in ToSet(r) PROVE e \in ToSet(q) /\ e.sign # q[k].sign
  <2>1. PICK n \in 1..Len(r) : r[n] = e
    BY <1>1, ToSetOfSeq
  <2>2. PICK m \in 1..Len(q) : m # k /\ e = q[m]
    BY <2>1, <1>1, <1>2
  <2>. QED
    BY <2>2, ToSetOfSeq DEF Keyed
<1>5. ASSUME NEW e \in ToSet(q), e.sign # q[k].sign PROVE e \in ToSet(r)
  <2>1. PICK m \in 1..Len(q) : q[m] = e
    BY ToSetOfSeq
  <2>2. PICK n \in 1..Len(r) : r[n] = e
    <3>1. CASE m < k
      <4>1. m \in 1..Len(r) /\ r[m] = q[m]
        BY <3>1, <1>1, <1>2
      <4>. QED
        BY <4>1, <2>1
    <3>2. CASE m > k
      <4>1. m - 1 \in 1..Len(r) /\ r[m - 1] = q[m]
        BY <3>2, <1>1, <1>2
      <4>. QED
        BY <4>1, <2>1
    <3>. QED
      BY <3>1, <3>2, <2>1, <1>5
  <2>. QED
    BY <2>2, <1>1, ToSetOfSeq
<1>6. ToSet(r) = {e \in ToSet(q) : e.sign # q[k].sign}
  BY <1>4, <1>5
<1>. QED
  BY <1>1, <1>3, <1>6 DEF r

LEMMA AppendedKey ==
  ASSUME NEW S, NEW q \in Seq(S), NEW x \in S
  PROVE  /\ Append(q, x) \in Seq(S) /\ ToSet(Append(q, x)) = ToSet(q) \cup {x}
         /\ Keyed(q) /\ (\A e \in ToSet(q) : e.sign # x.sign) => Keyed(Append(q, x))
<1>. DEFINE r == Append(q, x)
<1>1. r \in Seq(S) /\ Len(r) = Len(q) + 1 /\ Len(q) \in Nat /\ r[Len(r)] = x
      /\ \A n \in 1..Len(q) : r[n] = q[n]
  OBVIOUS
<1>. HIDE DEF r
<1>2. ASSUME NEW e \in ToSet(r) PROVE e \in ToSet(q) \cup {x}
  <2>1. PICK n \in 1..Len(r) : r[n] = e
    BY <1>1, ToSetOfSeq
  <2>2. n = Len(r) \/ n \in 1..Len(q)
    BY <1>1
  <2>. QED
    BY <2>1, <2>2, <1>1, ToSetOfSeq
<1>3. ASSUME NEW e \in ToSet(q) PROVE e \in ToSet(r)
  <2>1. PICK n \in 1..Len(q) : q[n] = e
    BY ToSetOfSeq
  <2>2. n \in 1..Len(r) /\ r[n] = e
    BY <2>1, <1>1
  <2>. QED
    BY <2>2, <1>1, ToSetOfSeq
<1>4. x \in ToSet(r)
  <2>1. Len(r) \in 1..Len(r)
    BY <1>1
  <2>. QED
    BY <2>1, <1>1, ToSetOfSeq
<1>5. ASSUME Keyed(q), \A e \in ToSet(q) : e.sign # x.sign PROVE Keyed(r)
  <2>1. \A n \in 1..Len(q) : q[n].sign # x.sign
    BY <1>5, ToSetOfSeq
  <2>. QED
    BY <2>1, <1>1, <1>5 DEF Keyed
<1>. QED
  BY <1>1, <1>2, <1>3, <1>4, <1>5 DEF r

LEMMA Dropping ==
  ASSUME NEW f, NEW x
  PROVE  /\ DOMAIN Drop(f, x) = DOMAIN f \ {x}
         /\ \A y \in DOMAIN f : y # x => Drop(f, x)[y] = f[y]
  BY DEF Drop

LEMMA PutTyped ==
  ASSUME NEW A, NEW B, NEW f \in [A -> B], NEW x, NEW v \in B
  PROVE  Put(f, x, v) \in [A \cup {x} -> B]
  BY DEF Put

LEMMA DropTyped ==
  ASSUME NEW A, NEW B, NEW f \in [A -> B], NEW x
  PROVE  Drop(f, x) \in [A \ {x} -> B]
  BY DEF Drop

\* Headed and tailed queues.
LEMMA HeadAndTail ==
  ASSUME NEW S, NEW q \in Seq(S), q # <<>>
  PROVE  /\ Head(q) \in S /\ Tail(q) \in Seq(S) /\ Len(Tail(q)) = Len(q) - 1
         /\ Len(q) \in Nat /\ Len(q) > 0 /\ Head(q) = q[1]
         /\ \A n \in 1..(Len(q) - 1) : Tail(q)[n] = q[n + 1]
  OBVIOUS

-----------------------------------------------------------------------------
(* Types *)

LEMMA InitTypes == Init => TypeInv
<1>. SUFFICES ASSUME Init PROVE TypeInv
  OBVIOUS
<1>1. elements \in [DOMAIN elements -> Signs] /\ DOMAIN elements \subseteq Ctxs
  BY DEF Init
<1>2. signMap \in [Signs -> Ctxs]
  BY DEF Init, Signs
<1>3. recycleMap \in [Pools -> Seq(Entries)]
  BY DEF Init
<1>4. isReady \in [Items -> {"0", "promise", "1"}]
      /\ \A i \in Items : isReady[i] # "1" => i \in Deferred
  BY DEF Init
<1>5. toBackground \in Seq(Events) /\ toMain \in Seq(Patches)
  BY DEF Init
<1>6. generation \in 0..MaxUpdates /\ moves \in 0..MaxUpdates /\ created \in Nat
  BY ConstantsAssumption DEF Init
<1>. QED
  BY <1>1, <1>2, <1>3, <1>4, <1>5, <1>6 DEF Init, TypeInv

LEMMA CtxTyped ==
  ASSUME TypeInv, NEW i \in Items
  PROVE  Ctx(i) \in Ctxs /\ Ctx(i)[1] = i /\ ~IsClone(Ctx(i))
<1>1. generation \in 0..generation /\ 0 \in 0..created
  BY ConstantsAssumption DEF TypeInv
<1>. QED
  BY <1>1 DEF Ctxs, Ctx, IsClone

LEMMA CloneTyped ==
  ASSUME TypeInv, NEW i \in Items, NEW s \in Signs
  PROVE  CloneOf(i, s) \in Ctxs /\ CloneOf(i, s)[1] = i /\ CloneOf(i, s)[3] = s /\ s # 0
<1>1. generation \in 0..generation /\ s \in 0..created /\ s # 0
  BY ConstantsAssumption DEF TypeInv, Signs
<1>. QED
  BY <1>1 DEF Ctxs, CloneOf

LEMMA CtxParts ==
  ASSUME NEW c \in Ctxs
  PROVE  c = <<c[1], c[2], c[3]>> /\ c[1] \in Items /\ c[2] \in 0..generation /\ c[3] \in 0..created
  BY DEF Ctxs

LEMMA PoolOf ==
  ASSUME TypeInv, NEW c \in Ctxs
  PROVE  uniqID(c) \in Pools /\ (~IsClone(c) => uniqID(c) \in ItemPools)
<1>1. c[1] \in Items
  BY CtxParts
<1>. DEFINE R == {"none"} \cup {reuseId[j] : j \in Items}
<1>2. ItemPools = {<<Types[i], t>> : i \in Items, t \in R}
  BY DEF ItemPools
<1>3. ASSUME ~IsClone(c) PROVE uniqID(c) \in ItemPools
  <2>1. uniqID(c) = <<Types[c[1]], reuseId[c[1]]>> /\ reuseId[c[1]] \in R
    BY <1>1, <1>3 DEF uniqID
  <2>. HIDE DEF R
  <2>. QED
    BY <1>1, <1>2, <2>1
<1>4. IsClone(c) => uniqID(c) = ClonePool
  BY DEF uniqID
<1>. QED
  BY <1>3, <1>4 DEF Pools

LEMMA PoolTyped ==
  ASSUME TypeInv, NEW p \in Pools
  PROVE  /\ recycleMap[p] \in Seq(Entries)
         /\ \A s \in Pooled(p) : \E n \in 1..Len(recycleMap[p]) : recycleMap[p][n].sign = s
         /\ Pooled(p) \subseteq Signs
<1>1. recycleMap[p] \in Seq(Entries)
  BY DEF TypeInv
<1>2. ASSUME NEW s \in Pooled(p)
      PROVE  s \in Signs /\ \E n \in 1..Len(recycleMap[p]) : recycleMap[p][n].sign = s
  <2>1. PICK e \in ToSet(recycleMap[p]) : e.sign = s
    BY DEF Pooled
  <2>2. PICK n \in 1..Len(recycleMap[p]) : recycleMap[p][n] = e
    BY <1>1, ToSetOfSeq
  <2>3. e \in Entries
    BY <1>1, ToSetOfSeq
  <2>. QED
    BY <2>1, <2>2, <2>3 DEF Entries
<1>. QED
  BY <1>1, <1>2

\* New signs and generations do not take old ones away.
LEMMA Growth ==
  ASSUME TypeInv, created' \in Nat, generation' \in Nat,
         created <= created', generation <= generation', reuseId' = reuseId
  PROVE  Signs \subseteq Signs' /\ Ctxs \subseteq Ctxs' /\ Entries \subseteq Entries'
         /\ Pools' = Pools
<1>1. 0..generation \subseteq 0..generation' /\ 0..created \subseteq 0..created'
      /\ 1..created \subseteq 1..created'
  BY DEF TypeInv
<1>2. Signs \subseteq Signs' /\ Ctxs \subseteq Ctxs'
  BY <1>1 DEF Signs, Ctxs
<1>3. Pools' = Pools
  BY DEF Pools, ItemPools, ClonePool
<1>. QED
  BY <1>2, <1>3 DEF Entries

\* The entry of s in pool p.
Place(p, s) == CHOOSE n \in 1..Len(recycleMap[p]) : recycleMap[p][n].sign = s

LEMMA DeleteAt ==
  ASSUME TypeInv, NEW p \in Pools, NEW s \in Pooled(p)
  PROVE  /\ Place(p, s) \in 1..Len(recycleMap[p]) /\ recycleMap[p][Place(p, s)].sign = s
         /\ PoolDelete(p, s) = [recycleMap EXCEPT ![p] = RemoveAt(recycleMap[p], Place(p, s))]
<1>1. recycleMap[p] \in Seq(Entries)
      /\ \E n \in 1..Len(recycleMap[p]) : recycleMap[p][n].sign = s
  BY PoolTyped
<1>2. DOMAIN recycleMap[p] = 1..Len(recycleMap[p])
  BY <1>1
<1>3. Place(p, s) = CHOOSE n \in DOMAIN recycleMap[p] : recycleMap[p][n].sign = s
  BY <1>2 DEF Place
<1>. QED
  BY <1>1, <1>3 DEF PoolDelete, Place

LEMMA DeleteTyped ==
  ASSUME TypeInv, NEW p \in Pools, NEW s \in Pooled(p)
  PROVE  PoolDelete(p, s) \in [Pools -> Seq(Entries)]
<1>1. RemoveAt(recycleMap[p], Place(p, s)) \in Seq(Entries)
  BY DeleteAt, PoolTyped, RemovedAt
<1>2. recycleMap \in [Pools -> Seq(Entries)]
  BY DEF TypeInv
<1>. QED
  BY <1>1, <1>2, DeleteAt

LEMMA SetTyped ==
  ASSUME TypeInv, NEW p \in Pools, NEW s \in Signs, NEW c \in Ctxs
  PROVE  PoolSet(p, s, c) \in [Pools -> Seq(Entries)]
<1>1. Entry(s, c) \in Entries
  BY DEF Entry, Entries
<1>2. recycleMap \in [Pools -> Seq(Entries)] /\ recycleMap[p] \in Seq(Entries)
  BY DEF TypeInv
<1>3. Append(recycleMap[p], Entry(s, c)) \in Seq(Entries)
  BY <1>1, <1>2
<1>4. [n \in DOMAIN recycleMap[p] |->
          IF recycleMap[p][n].sign = s THEN Entry(s, c) ELSE recycleMap[p][n]] \in Seq(Entries)
  BY <1>1, <1>2
<1>. QED
  BY <1>2, <1>3, <1>4 DEF PoolSet

\* Only elements change hands.
LEMMA OwnElement ==
  ASSUME TypeInv, NEW c, HasElements(c)
  PROVE  c \in Ctxs /\ elements[c] \in Signs
  BY DEF TypeInv, HasElements

LEMMA TakenTyped ==
  ASSUME TypeInv, NEW i \in Items
  PROVE  /\ ElementsTaken(i) \in [DOMAIN ElementsTaken(i) -> Signs]
         /\ DOMAIN ElementsTaken(i) \subseteq Ctxs
         /\ SignsTaken(i) \in [Signs -> Ctxs]
<1>0. elements \in [DOMAIN elements -> Signs] /\ DOMAIN elements \subseteq Ctxs
      /\ signMap \in [Signs -> Ctxs]
  BY DEF TypeInv
<1>1. CASE ~HasElements(Ctx(i))
  BY <1>0, <1>1 DEF ElementsTaken, SignsTaken
<1>2. CASE HasElements(Ctx(i))
  <2>. DEFINE s == elements[Ctx(i)]
              e == Drop(elements, Ctx(i))
  <2>1. s \in Signs
    BY <1>2, OwnElement
  <2>. HIDE DEF s
  <2>2. CloneOf(i, s) \in Ctxs
    BY <2>1, CloneTyped
  <2>3. e \in [DOMAIN elements \ {Ctx(i)} -> Signs]
    BY <1>0, DropTyped
  <2>. HIDE DEF e
  <2>4. Put(e, CloneOf(i, s), s) \in [(DOMAIN elements \ {Ctx(i)}) \cup {CloneOf(i, s)} -> Signs]
    BY <2>1, <2>3, PutTyped
  <2>5. Put(signMap, s, CloneOf(i, s)) \in [Signs \cup {s} -> Ctxs]
    BY <2>2, <1>0, PutTyped
  <2>6. ElementsTaken(i) = Put(e, CloneOf(i, s), s)
        /\ SignsTaken(i) = Put(signMap, s, CloneOf(i, s))
    BY <1>2 DEF ElementsTaken, SignsTaken, s, e
  <2>7. Signs \cup {s} = Signs
    BY <2>1
  <2>8. Put(signMap, s, CloneOf(i, s)) \in [Signs -> Ctxs]
    BY <2>5, <2>7
  <2>9. (DOMAIN elements \ {Ctx(i)}) \cup {CloneOf(i, s)} \subseteq Ctxs
    BY <1>0, <2>2
  <2>. QED
    BY <2>4, <2>6, <2>8, <2>9
<1>. QED
  BY <1>1, <1>2

\* Providing an element keeps the tables typed, in whichever of the three ways.
Provided ==
  /\ created' \in Nat /\ created <= created'
  /\ elements' \in [DOMAIN elements' -> Signs'] /\ DOMAIN elements' \subseteq Ctxs'
  /\ signMap' \in [Signs' -> Ctxs']
  /\ recycleMap' \in [Pools' -> Seq(Entries')]
  /\ toBackground' \in Seq(Events)
  /\ screen' \subseteq Signs' \X items

LEMMA ReuseItselfTyped ==
  ASSUME TypeInv, NEW i \in items, ReuseItself(i), reuseId' = reuseId, generation' = generation
  PROVE  Provided
<1>. DEFINE s == elements[Ctx(i)]
            p == uniqID(Ctx(i))
<1>1. i \in Items /\ Ctx(i) \in Ctxs
  BY CtxTyped DEF TypeInv
<1>2. HasElements(Ctx(i)) /\ s \in Pooled(p)
  BY DEF ReuseItself, OwnIsPooled
<1>3. s \in Signs /\ p \in Pools
  BY <1>1, <1>2, OwnElement, PoolOf
<1>4. signMap' = Put(signMap, s, Ctx(i)) /\ recycleMap' = PoolDelete(p, s)
      /\ screen' = screen \cup {<<s, i>>}
      /\ elements' = elements /\ created' = created /\ toBackground' = toBackground
  BY DEF ReuseItself
<1>. HIDE DEF s, p
<1>5. Signs' = Signs /\ Ctxs' = Ctxs /\ Pools' = Pools /\ Entries' = Entries
  BY <1>4 DEF Signs, Ctxs, Pools, ItemPools, ClonePool, Entries
<1>6. recycleMap' \in [Pools -> Seq(Entries)]
  BY <1>2, <1>3, <1>4, DeleteTyped
<1>7. signMap' \in [Signs \cup {s} -> Ctxs]
  BY <1>1, <1>4, PutTyped DEF TypeInv
<1>8. signMap' \in [Signs -> Ctxs]
  <2>1. Signs \cup {s} = Signs
    BY <1>3
  <2>. QED
    BY <2>1, <1>7
<1>9. screen' \subseteq Signs \X items
  BY <1>3, <1>4 DEF TypeInv
<1>10. /\ created \in Nat /\ elements \in [DOMAIN elements -> Signs]
       /\ DOMAIN elements \subseteq Ctxs /\ toBackground \in Seq(Events)
  BY DEF TypeInv
<1>. QED
  BY <1>4, <1>5, <1>6, <1>8, <1>9, <1>10 DEF Provided

\* The events that a reuse sends.
LEMMA RecycleEventsTyped ==
  ASSUME NEW c
  PROVE  RecycleEvents(c) \in Seq(Events)
<1>1. CASE IsUnmountable(c)
  <2>1. Event("onRecycleComponent", c[1]) \in Events
    BY <1>1 DEF IsUnmountable, Event, Events
  <2>. QED
    BY <1>1, <2>1 DEF RecycleEvents
<1>2. CASE ~IsUnmountable(c)
  BY <1>2 DEF RecycleEvents
<1>. QED
  BY <1>1, <1>2

LEMMA HydratedTyped ==
  ASSUME NEW e, NEW S, NEW D, e \in [DOMAIN e -> S], DOMAIN e \subseteq D, NEW old, NEW c \in D
  PROVE  /\ Hydrated(e, old, c) \in [DOMAIN Hydrated(e, old, c) -> S]
         /\ DOMAIN Hydrated(e, old, c) \subseteq D
<1>1. PICK f : f = IF old \in DOMAIN e THEN Put(e, c, e[old]) ELSE Drop(e, c)
  OBVIOUS
<1>2. f \in [DOMAIN f -> S] /\ DOMAIN f \subseteq D
  <2>1. CASE old \in DOMAIN e
    <3>1. e[old] \in S /\ f = Put(e, c, e[old])
      BY <2>1, <1>1
    <3>2. f \in [DOMAIN e \cup {c} -> S]
      BY <3>1, PutTyped
    <3>. QED
      BY <3>2
  <2>2. CASE old \notin DOMAIN e
    <3>1. f \in [DOMAIN e \ {c} -> S]
      BY <2>2, <1>1, DropTyped
    <3>. QED
      BY <3>1
  <2>. QED
    BY <2>1, <2>2
<1>3. Drop(f, old) \in [DOMAIN f \ {old} -> S]
  BY <1>2, DropTyped
<1>4. Hydrated(e, old, c) = Drop(f, old)
  BY <1>1 DEF Hydrated
<1>. QED
  BY <1>2, <1>3, <1>4

\* The first entry of a pool.
LEMMA FirstOfPool ==
  ASSUME TypeInv, NEW p \in Pools, recycleMap[p] # <<>>
  PROVE  LET first == Head(recycleMap[p])
         IN  /\ first \in Entries /\ first \in ToSet(recycleMap[p]) /\ first.sign \in Pooled(p)
             /\ first.sign \in Signs /\ first.ctx \in Ctxs
<1>1. PICK q : q = recycleMap[p]
  OBVIOUS
<1>2. q \in Seq(Entries) /\ q # <<>>
  BY <1>1, PoolTyped
<1>3. Head(q) \in Entries /\ Head(q) = q[1] /\ 1 \in 1..Len(q)
  BY <1>2, HeadAndTail
<1>4. Head(q) \in ToSet(q)
  BY <1>2, <1>3, ToSetOfSeq
<1>5. Head(q).sign \in Pooled(p)
  BY <1>1, <1>4 DEF Pooled
<1>. QED
  BY <1>1, <1>3, <1>4, <1>5 DEF Entries

LEMMA ReuseOtherTyped ==
  ASSUME TypeInv, NEW i \in items, ReuseOther(i), reuseId' = reuseId, generation' = generation
  PROVE  Provided
<1>. DEFINE p == uniqID(Ctx(i))
            first == Head(recycleMap[p])
<1>1. i \in Items /\ Ctx(i) \in Ctxs /\ p \in Pools
  BY CtxTyped, PoolOf DEF TypeInv
<1>2. recycleMap[p] # <<>>
  BY DEF ReuseOther
<1>3. /\ recycleMap' = PoolDelete(p, first.sign)
      /\ elements' = Hydrated(ElementsTaken(i), first.ctx, Ctx(i))
      /\ signMap' = Put(SignsTaken(i), first.sign, Ctx(i))
      /\ toBackground' = toBackground \o RecycleEvents(first.ctx)
      /\ screen' = screen \cup {<<first.sign, i>>} /\ created' = created
  BY DEF ReuseOther
<1>. HIDE DEF p
<1>4. first.sign \in Pooled(p) /\ first.sign \in Signs /\ first.ctx \in Ctxs
  BY <1>1, <1>2, FirstOfPool
<1>. HIDE DEF first
<1>5. Signs' = Signs /\ Ctxs' = Ctxs /\ Pools' = Pools /\ Entries' = Entries
  BY <1>3 DEF Signs, Ctxs, Pools, ItemPools, ClonePool, Entries
<1>6. recycleMap' \in [Pools -> Seq(Entries)]
  BY <1>1, <1>3, <1>4, DeleteTyped
<1>7. /\ ElementsTaken(i) \in [DOMAIN ElementsTaken(i) -> Signs]
      /\ DOMAIN ElementsTaken(i) \subseteq Ctxs
      /\ SignsTaken(i) \in [Signs -> Ctxs]
  BY <1>1, TakenTyped
<1>8. elements' \in [DOMAIN elements' -> Signs] /\ DOMAIN elements' \subseteq Ctxs
  BY <1>1, <1>3, <1>7, HydratedTyped
<1>9. signMap' \in [Signs -> Ctxs]
  <2>1. Put(SignsTaken(i), first.sign, Ctx(i)) \in [Signs \cup {first.sign} -> Ctxs]
    BY <1>1, <1>7, PutTyped
  <2>2. Signs \cup {first.sign} = Signs
    BY <1>4
  <2>. QED
    BY <2>1, <2>2, <1>3
<1>10. screen' \subseteq Signs \X items
  BY <1>3, <1>4 DEF TypeInv
<1>11. toBackground' \in Seq(Events)
  <2>1. toBackground \in Seq(Events) /\ RecycleEvents(first.ctx) \in Seq(Events)
    BY RecycleEventsTyped DEF TypeInv
  <2>. QED
    BY <2>1, <1>3
<1>12. created \in Nat
  BY DEF TypeInv
<1>. QED
  BY <1>3, <1>5, <1>6, <1>8, <1>9, <1>10, <1>11, <1>12 DEF Provided

LEMMA CreateElementTyped ==
  ASSUME TypeInv, NEW i \in items, CreateElement(i), reuseId' = reuseId, generation' = generation
  PROVE  Provided
<1>1. i \in Items /\ Ctx(i) \in Ctxs /\ generation \in Nat /\ created \in Nat
  BY CtxTyped, ConstantsAssumption DEF TypeInv
<1>2. /\ created' = created + 1
      /\ elements' = Put(ElementsTaken(i), Ctx(i), created + 1)
      /\ signMap' = Put(SignsTaken(i), created + 1, Ctx(i))
      /\ screen' = screen \cup {<<created + 1, i>>}
      /\ recycleMap' = recycleMap /\ toBackground' = toBackground
  BY DEF CreateElement
<1>3. created' \in Nat /\ created <= created' /\ generation' \in Nat /\ generation <= generation'
  BY <1>1, <1>2
<1>4. Signs \subseteq Signs' /\ Ctxs \subseteq Ctxs' /\ Entries \subseteq Entries' /\ Pools' = Pools
  BY <1>3, Growth
<1>5. Signs' = Signs \cup {created + 1}
  BY <1>1, <1>2 DEF Signs
<1>6. /\ ElementsTaken(i) \in [DOMAIN ElementsTaken(i) -> Signs]
      /\ DOMAIN ElementsTaken(i) \subseteq Ctxs
      /\ SignsTaken(i) \in [Signs -> Ctxs]
  BY <1>1, TakenTyped
<1>7. elements' \in [DOMAIN elements' -> Signs'] /\ DOMAIN elements' \subseteq Ctxs'
  <2>1. ElementsTaken(i) \in [DOMAIN ElementsTaken(i) -> Signs']
    BY <1>4, <1>6
  <2>2. created + 1 \in Signs'
    BY <1>5
  <2>3. elements' \in [DOMAIN ElementsTaken(i) \cup {Ctx(i)} -> Signs']
    BY <1>2, <2>1, <2>2, PutTyped
  <2>. QED
    BY <2>3, <1>1, <1>4, <1>6
<1>8. signMap' \in [Signs' -> Ctxs']
  <2>1. SignsTaken(i) \in [Signs -> Ctxs'] /\ Ctx(i) \in Ctxs'
    BY <1>1, <1>4, <1>6
  <2>2. signMap' \in [Signs \cup {created + 1} -> Ctxs']
    BY <1>2, <2>1, PutTyped
  <2>. QED
    BY <2>2, <1>5
<1>9. recycleMap' \in [Pools' -> Seq(Entries')]
  <2>1. Seq(Entries) \subseteq Seq(Entries')
    BY <1>4, SeqMonotonic
  <2>. QED
    BY <2>1, <1>2, <1>4 DEF TypeInv
<1>10. screen' \subseteq Signs' \X items
  BY <1>2, <1>5 DEF TypeInv
<1>11. toBackground' \in Seq(Events)
  BY <1>2 DEF TypeInv
<1>. QED
  BY <1>3, <1>7, <1>8, <1>9, <1>10, <1>11 DEF Provided

LEMMA ProvideTyped ==
  ASSUME TypeInv, NEW i \in items, Provide(i), reuseId' = reuseId, generation' = generation
  PROVE  Provided
  BY ReuseItselfTyped, ReuseOtherTyped, CreateElementTyped DEF Provide

LEMMA SameTables ==
  ASSUME created' = created, generation' = generation, reuseId' = reuseId
  PROVE  Signs' = Signs /\ Ctxs' = Ctxs /\ Entries' = Entries /\ Pools' = Pools
  BY DEF Signs, Ctxs, Entries, Pools, ItemPools, ClonePool

LEMMA LeaveTyped ==
  ASSUME NEW i, NEW S, NEW J, screen \subseteq S \X J, leaving \subseteq S, Leave(i)
  PROVE  screen' \subseteq S \X (J \ {i}) /\ leaving' \subseteq S
  BY DEF Leave

LEMMA AskTypes ==
  ASSUME TypeInv, NEW i \in Items, AskForContent(i)
  PROVE  TypeInv'
<1>1. isReady' = [isReady EXCEPT ![i] = "promise"] /\ toBackground' = toBackground \o Requests(i)
      /\ isReady[i] = "0"
  BY DEF AskForContent
<1>2. i \in Deferred
  BY <1>1 DEF TypeInv
<1>3. toBackground' \in Seq(Events)
  <2>1. Event("onComponentAtIndex", i) \in Events
    BY <1>2 DEF Event, Events
  <2>2. Requests(i) \in Seq(Events)
    BY <2>1 DEF Requests
  <2>. QED
    BY <2>2, <1>1 DEF TypeInv
<1>4. isReady' \in [Items -> {"0", "promise", "1"}]
      /\ \A j \in Items : isReady'[j] # "1" => j \in Deferred
  BY <1>1, <1>2 DEF TypeInv
<1>5. UNCHANGED <<reuseId, unmount, items, generation, elements, signMap, recycleMap, created,
                  screen, leaving, mounted, rendered, toMain, moves>>
  BY DEF AskForContent, engineVars, bgVars
<1>6. Signs' = Signs /\ Ctxs' = Ctxs /\ Entries' = Entries /\ Pools' = Pools
  BY <1>5, SameTables
<1>. QED
  BY <1>3, <1>4, <1>5, <1>6 DEF TypeInv

LEMMA AtIndexTypes ==
  ASSUME TypeInv, NEW i \in Items, componentAtIndex(i)
  PROVE  TypeInv'
<1>1. UNCHANGED <<reuseId, unmount, items, generation, isReady, leaving, mounted, rendered,
                  toMain, moves>>
      /\ i \in items /\ Provide(i)
  BY DEF componentAtIndex, bgVars
<1>2. Provided
  BY <1>1, ProvideTyped
<1>3. created' \in Nat /\ created <= created' /\ generation' \in Nat /\ generation <= generation'
  BY <1>1, <1>2, ConstantsAssumption DEF Provided, TypeInv
<1>4. Signs \subseteq Signs'
  BY <1>1, <1>3, Growth
<1>5. leaving' \subseteq Signs'
  BY <1>1, <1>4 DEF TypeInv
<1>. QED
  BY <1>1, <1>2, <1>5 DEF TypeInv, Provided

LEMMA MoveTypes ==
  ASSUME TypeInv, NEW i \in Items, Move(i)
  PROVE  TypeInv'
<1>1. UNCHANGED <<reuseId, unmount, items, generation, elements, signMap, recycleMap, isReady,
                  created, mounted, rendered, toBackground, toMain>>
      /\ Leave(i) /\ moves' = moves + 1 /\ generation + moves < MaxUpdates
  BY DEF Move, mainVars, bgVars
<1>2. Signs' = Signs /\ Ctxs' = Ctxs /\ Entries' = Entries /\ Pools' = Pools
  BY <1>1, SameTables
<1>3. screen' \subseteq Signs \X items /\ leaving' \subseteq Signs
  <2>1. screen' \subseteq Signs \X (items \ {i}) /\ leaving' \subseteq Signs
    BY <1>1, LeaveTyped DEF TypeInv
  <2>. QED
    BY <2>1
<1>4. moves' \in 0..MaxUpdates
  BY <1>1, ConstantsAssumption DEF TypeInv
<1>. QED
  BY <1>1, <1>2, <1>3, <1>4 DEF TypeInv

LEMMA UnmountTypes ==
  ASSUME TypeInv, NEW i \in Items, Unmount(i)
  PROVE  TypeInv'
<1>1. UNCHANGED <<reuseId, unmount, items, generation, elements, signMap, recycleMap, isReady,
                  created, screen, leaving, rendered, toBackground, moves>>
      /\ mounted' = mounted \ {i} /\ toMain' = Append(toMain, Patch("remove", i))
  BY DEF Unmount, mainVars, engineVars, HandlersDeleted
<1>2. Signs' = Signs /\ Ctxs' = Ctxs /\ Entries' = Entries /\ Pools' = Pools
  BY <1>1, SameTables
<1>3. Patch("remove", i) \in Patches
  BY DEF Patch, Patches
<1>4. toMain' \in Seq(Patches)
  BY <1>1, <1>3 DEF TypeInv
<1>. QED
  BY <1>1, <1>2, <1>4 DEF TypeInv

LEMMA EnqueueTypes ==
  ASSUME TypeInv, NEW s \in Signs, enqueueComponent(s)
  PROVE  TypeInv'
<1>1. UNCHANGED <<reuseId, unmount, items, generation, elements, signMap, isReady, created,
                  mounted, rendered, toBackground, toMain, moves>>
      /\ screen' = {p \in screen : p[1] # s} /\ leaving' = leaving \ {s}
      /\ recycleMap' =
           IF s \in DOMAIN signMap THEN PoolSet(uniqID(signMap[s]), s, signMap[s]) ELSE recycleMap
  BY DEF enqueueComponent, bgVars
<1>2. Signs' = Signs /\ Ctxs' = Ctxs /\ Entries' = Entries /\ Pools' = Pools
  BY <1>1, SameTables
<1>3. signMap[s] \in Ctxs /\ DOMAIN signMap = Signs
  BY DEF TypeInv
<1>4. recycleMap' \in [Pools -> Seq(Entries)]
  BY <1>1, <1>3, PoolOf, SetTyped
<1>. QED
  BY <1>1, <1>2, <1>4 DEF TypeInv

\* What hydrate transfers.
Transferred == {Ctx(i) : i \in {j \in items : HasElements(Ctx(j))}}
Heirs(s) == {c \in Transferred : elements[c] = s}
PoolHeirs(p, s) == {c \in Heirs(s) : HydratesPool(p, c)}

\* What becomes of an entry of pool p.
Updated(p, e) ==
  IF PoolHeirs(p, e.sign) = {} THEN e
  ELSE Entry(e.sign, Renewed(CHOOSE c \in PoolHeirs(p, e.sign) : TRUE))

LEMMA HydrateSteps ==
  ASSUME Hydrate
  PROVE  /\ UNCHANGED <<reuseId, unmount, items, isReady, created, screen, leaving, mounted,
                        rendered, toBackground, toMain, moves>>
         /\ generation' = generation + 1 /\ generation + moves < MaxUpdates
         /\ elements' = [c \in DOMAIN elements \cup {Renewed(x) : x \in Transferred} |->
              IF c \in DOMAIN elements THEN elements[c] ELSE elements[Ctx(c[1])]]
         /\ signMap' = [s \in DOMAIN signMap |->
              IF Heirs(s) = {} THEN signMap[s] ELSE Renewed(CHOOSE c \in Heirs(s) : TRUE)]
         /\ recycleMap' =
              [p \in Pools |-> [n \in DOMAIN recycleMap[p] |-> Updated(p, recycleMap[p][n])]]
<1>1. UNCHANGED <<reuseId, unmount, items, isReady, created, screen, leaving, mounted, rendered,
                  toBackground, toMain, moves>>
      /\ generation' = generation + 1 /\ generation + moves < MaxUpdates
  BY DEF Hydrate, engineVars, bgVars
<1>2. elements' = [c \in DOMAIN elements \cup {Renewed(x) : x \in Transferred} |->
              IF c \in DOMAIN elements THEN elements[c] ELSE elements[Ctx(c[1])]]
  BY DEF Hydrate, Transferred
<1>3. signMap' = [s \in DOMAIN signMap |->
              IF Heirs(s) = {} THEN signMap[s] ELSE Renewed(CHOOSE c \in Heirs(s) : TRUE)]
  BY DEF Hydrate, Transferred, Heirs
<1>4. recycleMap' = [p \in Pools |-> [n \in DOMAIN recycleMap[p] |-> Updated(p, recycleMap[p][n])]]
  BY DEF Hydrate, Transferred, Heirs, PoolHeirs, Updated
<1>. QED
  BY <1>1, <1>2, <1>3, <1>4

\* The instances of the items with elements, and those that replace them.
LEMMA TransferredCtx ==
  ASSUME TypeInv, NEW c \in Transferred
  PROVE  /\ c \in DOMAIN elements /\ c \in Ctxs /\ c[1] \in items /\ c = Ctx(c[1])
         /\ elements[c] \in Signs
         /\ Renewed(c) = <<c[1], generation + 1, 0>> /\ Renewed(c) \notin DOMAIN elements
<1>1. PICK i \in items : c = Ctx(i) /\ HasElements(c)
  BY DEF Transferred
<1>2. c[1] = i /\ i \in Items
  BY <1>1 DEF Ctx, TypeInv
<1>3. c \in DOMAIN elements /\ c \in Ctxs /\ elements[c] \in Signs
  BY <1>1 DEF HasElements, TypeInv
<1>4. Renewed(c) \notin Ctxs
  <2>1. generation + 1 \notin 0..generation
    BY ConstantsAssumption DEF TypeInv
  <2>. QED
    BY <2>1 DEF Renewed, Ctxs
<1>. QED
  BY <1>1, <1>2, <1>3, <1>4 DEF Renewed, TypeInv

LEMMA HydrateTypes ==
  ASSUME TypeInv, Hydrate
  PROVE  TypeInv'
<1>1. generation' \in 0..MaxUpdates /\ generation \in Nat /\ created \in Nat
  BY HydrateSteps, ConstantsAssumption DEF TypeInv
<1>2. created' \in Nat /\ generation' \in Nat /\ created <= created' /\ generation <= generation'
      /\ reuseId' = reuseId
      /\ generation' = generation + 1
  BY HydrateSteps, <1>1
<1>3. Signs \subseteq Signs' /\ Ctxs \subseteq Ctxs' /\ Entries \subseteq Entries' /\ Pools' = Pools
  BY <1>2, Growth
<1>4. Signs' = Signs
  BY HydrateSteps DEF Signs
<1>5. ASSUME NEW c \in Transferred PROVE Renewed(c) \in Ctxs'
  <2>1. c[1] \in Items /\ generation + 1 \in 0..generation' /\ 0 \in 0..created'
    BY <1>1, <1>2, TransferredCtx DEF TypeInv
  <2>. QED
    BY <2>1 DEF Renewed, Ctxs
<1>6. elements' \in [DOMAIN elements' -> Signs'] /\ DOMAIN elements' \subseteq Ctxs'
  <2>1. DOMAIN elements' = DOMAIN elements \cup {Renewed(x) : x \in Transferred}
    BY HydrateSteps
  <2>2. ASSUME NEW c \in DOMAIN elements' PROVE elements'[c] \in Signs' /\ c \in Ctxs'
    <3>1. CASE c \in DOMAIN elements
      <4>1. elements'[c] = elements[c]
        BY <3>1, HydrateSteps
      <4>. QED
        BY <4>1, <3>1, <1>3 DEF TypeInv
    <3>2. CASE c \notin DOMAIN elements
      <4>1. PICK x \in Transferred : c = Renewed(x)
        BY <3>2, <2>1
      <4>2. elements'[c] = elements[Ctx(c[1])]
        BY <3>2, <2>1, HydrateSteps
      <4>3. c[1] = x[1] /\ x = Ctx(x[1]) /\ elements[x] \in Signs
        BY <4>1, TransferredCtx DEF Renewed
      <4>4. elements'[c] \in Signs
        BY <4>2, <4>3
      <4>. QED
        BY <4>1, <4>4, <1>3, <1>5
    <3>. QED
      BY <3>1, <3>2
  <2>3. elements' = [c \in DOMAIN elements' |-> elements'[c]]
    BY HydrateSteps
  <2>. QED
    BY <2>2, <2>3
<1>7. signMap' \in [Signs' -> Ctxs']
  <2>1. ASSUME NEW s \in Signs
        PROVE  (IF Heirs(s) = {} THEN signMap[s] ELSE Renewed(CHOOSE c \in Heirs(s) : TRUE)) \in
                 Ctxs'
    <3>1. Heirs(s) # {} => (CHOOSE c \in Heirs(s) : TRUE) \in Transferred
      BY DEF Heirs
    <3>2. Heirs(s) # {} => Renewed(CHOOSE c \in Heirs(s) : TRUE) \in Ctxs'
      BY <3>1, <1>5
    <3>3. signMap[s] \in Ctxs'
      BY <1>3 DEF TypeInv
    <3>. QED
      BY <3>2, <3>3
  <2>2. DOMAIN signMap = Signs
    BY DEF TypeInv
  <2>. QED
    BY <2>1, <2>2, <1>4, HydrateSteps
<1>8. recycleMap' \in [Pools' -> Seq(Entries')]
  <2>1. ASSUME NEW p \in Pools PROVE recycleMap'[p] \in Seq(Entries')
    <3>1. PICK q : q = recycleMap[p]
      OBVIOUS
    <3>2. q \in Seq(Entries)
      BY <3>1, PoolTyped
    <3>3. ASSUME NEW n \in DOMAIN q
          PROVE  Updated(p, q[n]) \in Entries'
      <4>0. q[n] \in Entries
        BY <3>2
      <4>1. q[n] \in Entries' /\ q[n].sign \in Signs
        BY <4>0, <1>3 DEF Entries
      <4>2. ASSUME PoolHeirs(p, q[n].sign) # {}
            PROVE  Renewed(CHOOSE c \in PoolHeirs(p, q[n].sign) : TRUE) \in Ctxs'
        <5>1. (CHOOSE c \in PoolHeirs(p, q[n].sign) : TRUE) \in Transferred
          BY <4>2 DEF PoolHeirs, Heirs
        <5>. QED
          BY <5>1, <1>5
      <4>3. ASSUME NEW c \in Ctxs' PROVE Entry(q[n].sign, c) \in Entries'
        BY <4>1, <1>3 DEF Entry, Entries
      <4>. QED
        BY <4>1, <4>2, <4>3 DEF Updated
    <3>4. recycleMap'[p] = [n \in DOMAIN q |-> Updated(p, q[n])]
      BY <3>1, HydrateSteps
    <3>5. Len(q) \in Nat /\ DOMAIN q = 1..Len(q)
      BY <3>2
    <3>6. recycleMap'[p] \in [1..Len(q) -> Entries']
      BY <3>3, <3>4, <3>5
    <3>. QED
      BY <3>5, <3>6, SeqDef
  <2>2. recycleMap' = [p \in Pools |-> recycleMap'[p]]
    BY HydrateSteps
  <2>. QED
    BY <2>1, <2>2, <1>3
<1>. QED
  BY <1>1, <1>4, <1>6, <1>7, <1>8, HydrateSteps DEF TypeInv

LEMMA QueueHead ==
  ASSUME TypeInv, toMain # <<>>
  PROVE  /\ Head(toMain) \in Patches /\ Tail(toMain) \in Seq(Patches)
         /\ Len(toMain) \in Nat /\ Len(toMain) > 0 /\ Head(toMain) = toMain[1]
         /\ Len(Tail(toMain)) = Len(toMain) - 1
         /\ \A n \in 1..(Len(toMain) - 1) : Tail(toMain)[n] = toMain[n + 1]
<1>1. toMain \in Seq(Patches)
  BY DEF TypeInv
<1>. QED
  BY <1>1, HeadAndTail

LEMMA RerenderTypes ==
  ASSUME TypeInv, NEW i \in Deferred, NEW ready \in BOOLEAN, Rerender(i, ready)
  PROVE  rendered' \in [Deferred -> BOOLEAN] /\ toMain' \in Seq(Patches)
<1>1. rendered' \in [Deferred -> BOOLEAN]
  BY DEF Rerender, TypeInv
<1>2. PICK k : k = IF ready THEN "ready" ELSE "unready"
  OBVIOUS
<1>3. Patch(k, i) \in Patches
  BY <1>2 DEF Patch, Patches
<1>4. toMain \in Seq(Patches)
  BY DEF TypeInv
<1>5. toMain' = IF rendered[i] = ready THEN toMain ELSE Append(toMain, Patch(k, i))
  BY <1>2 DEF Rerender
<1>. QED
  BY <1>1, <1>3, <1>4, <1>5

\* What an event does: nothing, or a render of a mounted item.
LEMMA EventCases ==
  ASSUME TypeInv, ReceiveEvent
  PROVE  /\ UNCHANGED <<reuseId, unmount, items, generation, elements, signMap, recycleMap,
                        isReady, created, screen, leaving, mounted, moves>>
         /\ toBackground' \in Seq(Events)
         /\ \/ UNCHANGED <<rendered, toMain>>
            \/ \E i \in Deferred \cap mounted : \E ready \in BOOLEAN :
                 Rerender(i, ready) /\ (~ready => unmount)
<1>1. UNCHANGED <<reuseId, unmount, items, generation, elements, signMap, recycleMap, isReady,
                  created, screen, leaving, mounted, moves>>
      /\ toBackground # <<>> /\ toBackground' = Tail(toBackground)
  BY DEF ReceiveEvent, mainVars, engineVars
<1>2. PICK q : q = toBackground
  OBVIOUS
<1>3. q \in Seq(Events) /\ q # <<>>
  BY <1>1, <1>2 DEF TypeInv
<1>4. Head(q) \in Events /\ Tail(q) \in Seq(Events)
  BY <1>3, HeadAndTail
<1>5. Head(q).item \in Deferred
  BY <1>4 DEF Events
<1>6. \/ UNCHANGED <<rendered, toMain>>
      \/ HasHandlers(Head(q).item) /\ Rerender(Head(q).item, TRUE)
      \/ HasHandlers(Head(q).item) /\ unmount /\ Rerender(Head(q).item, FALSE)
  BY <1>2 DEF ReceiveEvent
<1>7. HasHandlers(Head(q).item) => Head(q).item \in Deferred \cap mounted
  BY <1>5 DEF HasHandlers
<1>8. \/ UNCHANGED <<rendered, toMain>>
      \/ \E i \in Deferred \cap mounted : \E ready \in BOOLEAN :
           Rerender(i, ready) /\ (~ready => unmount)
  BY <1>6, <1>7
<1>. QED
  BY <1>1, <1>2, <1>4, <1>8

LEMMA EventTypes ==
  ASSUME TypeInv, ReceiveEvent
  PROVE  TypeInv'
<1>1. rendered' \in [Deferred -> BOOLEAN] /\ toMain' \in Seq(Patches)
  <2>1. CASE UNCHANGED <<rendered, toMain>>
    BY <2>1 DEF TypeInv
  <2>2. ASSUME NEW i \in Deferred \cap mounted, NEW ready \in BOOLEAN, Rerender(i, ready)
        PROVE rendered' \in [Deferred -> BOOLEAN] /\ toMain' \in Seq(Patches)
    BY <2>2, RerenderTypes
  <2>. QED
    BY <2>1, <2>2, EventCases
<1>2. Signs' = Signs /\ Ctxs' = Ctxs /\ Entries' = Entries /\ Pools' = Pools
  BY EventCases, SameTables
<1>. QED
  BY <1>1, <1>2, EventCases DEF TypeInv

\* The item of the first patch.
LEMMA NextItem ==
  ASSUME TypeInv, NEW k \in {"ready", "unready"}, NextPatch(k)
  PROVE  /\ Head(toMain).item \in Deferred /\ Head(toMain).item \in Items
         /\ toMain # <<>> /\ toMain' = Tail(toMain) /\ toMain' \in Seq(Patches)
<1>1. toMain # <<>> /\ Head(toMain).kind = k /\ toMain' = Tail(toMain)
  BY DEF NextPatch
<1>2. Head(toMain) \in Patches /\ Tail(toMain) \in Seq(Patches)
  BY <1>1, QueueHead
<1>3. Head(toMain).item \in Deferred
  BY <1>1, <1>2 DEF Patches
<1>. QED
  BY <1>1, <1>2, <1>3, ConstantsAssumption

LEMMA ReadyCases ==
  ASSUME TypeInv, ReceiveReady
  PROVE  /\ UNCHANGED <<reuseId, unmount, items, generation, leaving, mounted, rendered, moves>>
         /\ isReady' = [isReady EXCEPT ![Head(toMain).item] = "1"]
         /\ \/ isReady[Head(toMain).item] = "promise" /\ Provide(Head(toMain).item)
            \/ UNCHANGED <<elements, signMap, recycleMap, created, screen, toBackground>>
  BY DEF ReceiveReady, bgVars

LEMMA ReadyTypes ==
  ASSUME TypeInv, RemovalInv, ReceiveReady
  PROVE  TypeInv'
<1>. DEFINE i == Head(toMain).item
<1>1. NextPatch("ready")
  BY DEF ReceiveReady
<1>2. i \in Deferred /\ i \in Items /\ toMain' \in Seq(Patches) /\ toMain # <<>>
  BY <1>1, NextItem
<1>3. i \in items
  <2>1. Len(toMain) \in Nat /\ Len(toMain) > 0 /\ Head(toMain) = toMain[1]
    BY <1>2, QueueHead
  <2>. QED
    BY <2>1 DEF RemovalInv
<1>4. UNCHANGED <<reuseId, unmount, items, generation, leaving, mounted, rendered, moves>>
      /\ isReady' = [isReady EXCEPT ![i] = "1"]
      /\ (Provide(i) \/ UNCHANGED <<elements, signMap, recycleMap, created, screen, toBackground>>)
  BY ReadyCases
<1>. HIDE DEF i
<1>5. isReady' \in [Items -> {"0", "promise", "1"}]
      /\ \A j \in Items : isReady'[j] # "1" => j \in Deferred
  BY <1>2, <1>4 DEF TypeInv
<1>6. CASE Provide(i)
  <2>1. Provided
    BY <1>3, <1>4, <1>6, ProvideTyped
  <2>2. created' \in Nat /\ created <= created' /\ generation' \in Nat /\ generation <= generation'
    BY <1>4, <2>1, ConstantsAssumption DEF Provided, TypeInv
  <2>3. Signs \subseteq Signs'
    BY <1>4, <2>2, Growth
  <2>4. leaving' \subseteq Signs'
    BY <1>4, <2>3 DEF TypeInv
  <2>. QED
    BY <1>2, <1>4, <1>5, <2>1, <2>4 DEF TypeInv, Provided
<1>7. CASE UNCHANGED <<elements, signMap, recycleMap, created, screen, toBackground>>
  <2>1. Signs' = Signs /\ Ctxs' = Ctxs /\ Entries' = Entries /\ Pools' = Pools
    BY <1>4, <1>7, SameTables
  <2>. QED
    BY <1>2, <1>4, <1>5, <1>7, <2>1 DEF TypeInv
<1>. QED
  BY <1>4, <1>6, <1>7

LEMMA UnreadyTypes ==
  ASSUME TypeInv, ReceiveUnready
  PROVE  TypeInv'
<1>. DEFINE i == Head(toMain).item
<1>1. NextPatch("unready")
  BY DEF ReceiveUnready
<1>2. i \in Deferred /\ i \in Items /\ toMain' \in Seq(Patches)
  BY <1>1, NextItem
<1>3. UNCHANGED <<reuseId, unmount, items, generation, elements, signMap, recycleMap, created,
                  screen, leaving, mounted, rendered, toBackground, moves>>
      /\ isReady' = [isReady EXCEPT ![i] = UnreadyState(i)]
  BY DEF ReceiveUnready, engineVars, bgVars
<1>. HIDE DEF i
<1>4. isReady' \in [Items -> {"0", "promise", "1"}]
      /\ \A j \in Items : isReady'[j] # "1" => j \in Deferred
  BY <1>2, <1>3 DEF TypeInv, UnreadyState
<1>5. Signs' = Signs /\ Ctxs' = Ctxs /\ Entries' = Entries /\ Pools' = Pools
  BY <1>3, SameTables
<1>. QED
  BY <1>2, <1>3, <1>4, <1>5 DEF TypeInv

\* The removed item is unmounted before.
LEMMA RemoveCases ==
  ASSUME TypeInv, RemovalInv, ReceiveRemove
  PROVE  /\ UNCHANGED <<reuseId, unmount, generation, elements, signMap, recycleMap, isReady,
                        created, mounted, rendered, toBackground, moves>>
         /\ items' = items \ {Head(toMain).item} /\ Leave(Head(toMain).item)
         /\ toMain # <<>> /\ toMain' = Tail(toMain) /\ Head(toMain).kind = "remove"
         /\ Head(toMain).item \in items /\ Head(toMain).item \notin mounted
<1>1. UNCHANGED <<reuseId, unmount, generation, elements, signMap, recycleMap, isReady, created,
                  mounted, rendered, toBackground, moves>>
      /\ items' = items \ {Head(toMain).item} /\ Leave(Head(toMain).item)
      /\ toMain # <<>> /\ toMain' = Tail(toMain) /\ Head(toMain).kind = "remove"
  BY DEF ReceiveRemove, NextPatch, bgVars
<1>2. Len(toMain) \in Nat /\ Len(toMain) > 0 /\ Head(toMain) = toMain[1]
  BY <1>1, QueueHead
<1>. QED
  BY <1>1, <1>2 DEF RemovalInv

LEMMA RemoveTypes ==
  ASSUME TypeInv, RemovalInv, ReceiveRemove
  PROVE  TypeInv'
<1>. DEFINE i == Head(toMain).item
<1>1. UNCHANGED <<reuseId, unmount, generation, elements, signMap, recycleMap, isReady, created,
                  mounted, rendered, toBackground, moves>>
      /\ items' = items \ {i} /\ Leave(i) /\ i \notin mounted /\ toMain # <<>>
         /\ toMain' = Tail(toMain)
  BY RemoveCases
<1>2. toMain' \in Seq(Patches)
  BY <1>1, QueueHead
<1>. HIDE DEF i
<1>3. screen' \subseteq Signs \X items' /\ leaving' \subseteq Signs
  BY <1>1, LeaveTyped DEF TypeInv
<1>4. Signs' = Signs /\ Ctxs' = Ctxs /\ Entries' = Entries /\ Pools' = Pools
  BY <1>1, SameTables
<1>. QED
  BY <1>1, <1>2, <1>3, <1>4 DEF TypeInv
-----------------------------------------------------------------------------
(* Nothing comes after the removal of an item *)

LEMMA RemovalsQueued ==
  ASSUME TypeInv, RemovalInv, NEW k, NEW i \in mounted, toMain' = Append(toMain, Patch(k, i)),
         items' = items, mounted' \subseteq mounted, k = "remove" => i \notin mounted'
  PROVE  RemovalInv'
<1>. DEFINE q == toMain
            r == toMain'
<1>1. Len(q) \in Nat /\ Len(r) = Len(q) + 1 /\ r[Len(r)] = Patch(k, i)
      /\ \A n \in 1..Len(q) : r[n] = q[n]
  <2>1. q \in Seq(Patches)
    BY DEF TypeInv
  <2>. QED
    BY <2>1
<1>2. Patch(k, i).kind = k /\ Patch(k, i).item = i
  BY DEF Patch
<1>3. i \in items
  BY DEF TypeInv
<1>4. \A n \in 1..Len(q) : q[n].kind = "remove" => q[n].item # i
  BY DEF RemovalInv
<1>5. ASSUME NEW n \in 1..Len(r)
      PROVE  /\ r[n].item \in items'
             /\ r[n].kind = "remove" =>
                  /\ r[n].item \notin mounted'
                  /\ \A m \in 1..Len(r) : n < m => r[m].item # r[n].item
  <2>1. n \in 1..Len(q) \/ n = Len(r)
    BY <1>1
  <2>2. CASE n \in 1..Len(q)
    <3>1. r[n] = q[n] /\ q[n].item \in items
      BY <2>2, <1>1 DEF RemovalInv
    <3>2. ASSUME q[n].kind = "remove", NEW m \in 1..Len(r), n < m
          PROVE  r[m].item # q[n].item
      <4>1. m \in 1..Len(q) \/ m = Len(r)
        BY <1>1
      <4>2. CASE m = Len(r)
        <5>1. r[m].item = i
          BY <4>2, <1>1, <1>2
        <5>. QED
          BY <5>1, <1>4, <2>2, <3>2
      <4>3. CASE m \in 1..Len(q)
        <5>1. r[m] = q[m]
          BY <4>3, <1>1
        <5>. QED
          BY <5>1, <4>3, <2>2, <3>2 DEF RemovalInv
      <4>. QED
        BY <4>1, <4>2, <4>3
    <3>3. q[n].kind = "remove" => q[n].item \notin mounted'
      BY <2>2 DEF RemovalInv
    <3>. QED
      BY <3>1, <3>2, <3>3
  <2>3. CASE n = Len(r)
    <3>1. r[n].item = i /\ r[n].kind = k
      BY <2>3, <1>1, <1>2
    <3>2. \A m \in 1..Len(r) : ~(n < m)
      BY <2>3, <1>1
    <3>. QED
      BY <3>1, <3>2, <1>3
  <2>. QED
    BY <2>1, <2>2, <2>3
<1>. QED
  BY <1>5 DEF RemovalInv

LEMMA RemovalsArrive ==
  ASSUME TypeInv, RemovalInv, toMain # <<>>, toMain' = Tail(toMain), mounted' = mounted,
         items' = items \/ (Head(toMain).kind = "remove" /\ items' = items \ {Head(toMain).item})
  PROVE  RemovalInv'
<1>. DEFINE q == toMain
            r == toMain'
<1>1. Len(q) \in Nat /\ Len(q) > 0 /\ Head(q) = q[1] /\ Len(r) = Len(q) - 1
      /\ \A n \in 1..Len(r) : n + 1 \in 1..Len(q) /\ r[n] = q[n + 1]
  BY QueueHead
<1>2. ASSUME NEW n \in 1..Len(r)
      PROVE  /\ r[n].item \in items'
             /\ r[n].kind = "remove" =>
                  /\ r[n].item \notin mounted'
                  /\ \A m \in 1..Len(r) : n < m => r[m].item # r[n].item
  <2>1. r[n] = q[n + 1] /\ n + 1 \in 1..Len(q) /\ 1 \in 1..Len(q) /\ 1 < n + 1
    BY <1>1
  <2>2. r[n].item \in items
    BY <2>1 DEF RemovalInv
  <2>3. q[1].kind = "remove" => r[n].item # q[1].item
    BY <2>1 DEF RemovalInv
  <2>4. r[n].kind = "remove" => r[n].item \notin mounted
    BY <2>1 DEF RemovalInv
  <2>5. ASSUME r[n].kind = "remove", NEW m \in 1..Len(r), n < m PROVE r[m].item # r[n].item
    <3>1. r[m] = q[m + 1] /\ m + 1 \in 1..Len(q) /\ n + 1 < m + 1
      BY <1>1, <2>5
    <3>. QED
      BY <3>1, <2>1, <2>5 DEF RemovalInv
  <2>. QED
    BY <2>2, <2>3, <2>4, <2>5, <1>1
<1>. QED
  BY <1>2 DEF RemovalInv

\* No item that waits for its content is shown, and none is without content unless it is
\* unmounted again.
ShownInv ==
  /\ \A x \in screen : isReady[x[2]] # "promise"
  /\ ~unmount => /\ \A x \in screen : isReady[x[2]] = "1"
                 /\ \A n \in 1..Len(toMain) : toMain[n].kind # "unready"

\* A pool is a Map: a sign occurs in it once.
KeyInv == \A p \in Pools : Keyed(recycleMap[p])

\* Every sign names the instance that has the element, and a clone the element it took.
SignsOwned ==
  \A s \in Signs :
    /\ signMap[s] \in DOMAIN elements /\ elements[signMap[s]] = s
    /\ IsClone(signMap[s]) => signMap[s][3] = s
\* The element of an item in the list is known by its sign.
ItemsOwn == \A i \in items : Ctx(i) \in DOMAIN elements => signMap[elements[Ctx(i)]] = Ctx(i)
\* A cell shows the element of its item.
CellsMatch == \A x \in screen : signMap[x[1]] = Ctx(x[2])
\* An entry names the instance that its sign names, and is in the pool of that instance.
EntriesMatch ==
  \A p \in Pools : \A e \in ToSet(recycleMap[p]) : e.ctx = signMap[e.sign] /\ p = uniqID(e.ctx)
EntriesIdle ==
  \A p \in Pools : \A e \in ToSet(recycleMap[p]) :
    e.sign \notin leaving /\ \A x \in screen : x[1] # e.sign
CellsStay == \A x \in screen : x[1] \notin leaving
NoneLost ==
  \A s \in Signs :
    s \in leaving \/ (\E x \in screen : x[1] = s) \/ s \in Pooled(uniqID(signMap[s]))

OwnerInv ==
  SignsOwned /\ ItemsOwn /\ CellsMatch /\ EntriesMatch /\ EntriesIdle /\ CellsStay /\ NoneLost

RecyclingInv == TypeInv /\ RemovalInv /\ ShownInv /\ KeyInv /\ (PoolsFollow => OwnerInv)

-----------------------------------------------------------------------------
(* What is shown is ready *)

LEMMA ProvideShows ==
  ASSUME NEW i, Provide(i)
  PROVE  \E s : screen' = screen \cup {<<s, i>>}
<1>1. ASSUME ReuseItself(i) PROVE \E s : screen' = screen \cup {<<s, i>>}
  BY <1>1 DEF ReuseItself
<1>2. ASSUME ReuseOther(i) PROVE \E s : screen' = screen \cup {<<s, i>>}
  <2>1. screen' = screen \cup {<<Head(recycleMap[uniqID(Ctx(i))]).sign, i>>}
    BY <1>2 DEF ReuseOther
  <2>. QED
    BY <2>1
<1>3. ASSUME CreateElement(i) PROVE \E s : screen' = screen \cup {<<s, i>>}
  BY <1>3 DEF CreateElement
<1>. QED
  BY <1>1, <1>2, <1>3 DEF Provide

LEMMA QueueGrows ==
  ASSUME TypeInv, NEW k, NEW i, toMain' = Append(toMain, Patch(k, i)),
         \A n \in 1..Len(toMain) : toMain[n].kind # "unready", k # "unready"
  PROVE  \A n \in 1..Len(toMain') : toMain'[n].kind # "unready"
<1>1. toMain \in Seq(Patches)
  BY DEF TypeInv
<1>2. /\ Len(toMain) \in Nat /\ Len(toMain') = Len(toMain) + 1
         /\ toMain'[Len(toMain')] = Patch(k, i)
      /\ \A n \in 1..Len(toMain) : toMain'[n] = toMain[n]
  BY <1>1
<1>3. Patch(k, i).kind # "unready"
  BY DEF Patch
<1>. QED
  BY <1>2, <1>3

LEMMA QueueShrinks ==
  ASSUME TypeInv, toMain # <<>>, toMain' = Tail(toMain),
         \A n \in 1..Len(toMain) : toMain[n].kind # "unready"
  PROVE  \A n \in 1..Len(toMain') : toMain'[n].kind # "unready"
<1>1. ASSUME NEW n \in 1..Len(toMain') PROVE n + 1 \in 1..Len(toMain) /\ toMain'[n] = toMain[n + 1]
  BY QueueHead
<1>. QED
  BY <1>1

LEMMA AskShown ==
  ASSUME TypeInv, ShownInv, NEW i \in Items, AskForContent(i)
  PROVE  ShownInv'
<1>1. isReady' = [isReady EXCEPT ![i] = "promise"] /\ ~OnScreen(i)
      /\ UNCHANGED <<unmount, screen, toMain>>
  BY DEF AskForContent, engineVars
<1>2. ASSUME NEW x \in screen PROVE isReady'[x[2]] = isReady[x[2]]
  <2>1. x[2] # i
    BY <1>1 DEF OnScreen
  <2>. QED
    BY <1>1, <2>1
<1>. QED
  BY <1>1, <1>2 DEF ShownInv

\* Providing the element of an item that is ready.
LEMMA ProvidedShown ==
  ASSUME TypeInv, ShownInv, NEW i \in Items, Provide(i), isReady' = [isReady EXCEPT ![i] = "1"],
         unmount' = unmount
  PROVE  /\ \A x \in screen' : isReady'[x[2]] # "promise"
         /\ ~unmount' => \A x \in screen' : isReady'[x[2]] = "1"
<1>1. PICK s : screen' = screen \cup {<<s, i>>}
  BY ProvideShows
<1>2. isReady'[i] = "1" /\ \A j : j # i /\ j \in Items => isReady'[j] = isReady[j]
  BY DEF TypeInv
<1>3. ASSUME NEW x \in screen' PROVE x[2] \in Items /\ (x[2] = i \/ x \in screen)
  BY <1>1 DEF TypeInv
<1>. QED
  BY <1>2, <1>3 DEF ShownInv

LEMMA AtIndexShown ==
  ASSUME TypeInv, ShownInv, NEW i \in Items, componentAtIndex(i)
  PROVE  ShownInv'
<1>1. Provide(i) /\ isReady[i] = "1" /\ UNCHANGED <<isReady, unmount, toMain>>
  BY DEF componentAtIndex, MayProvide
<1>2. isReady' = [isReady EXCEPT ![i] = "1"]
  BY <1>1 DEF TypeInv
<1>. QED
  BY <1>1, <1>2, ProvidedShown DEF ShownInv

LEMMA ReadyShown ==
  ASSUME TypeInv, ShownInv, ReceiveReady
  PROVE  ShownInv'
<1>. DEFINE i == Head(toMain).item
<1>1. NextPatch("ready")
  BY DEF ReceiveReady
<1>2. i \in Items /\ toMain # <<>> /\ toMain' = Tail(toMain)
  BY <1>1, NextItem
<1>3. isReady' = [isReady EXCEPT ![i] = "1"] /\ unmount' = unmount
      /\ (Provide(i) \/ screen' = screen)
  BY ReadyCases
<1>4. ~unmount => \A n \in 1..Len(toMain') : toMain'[n].kind # "unready"
  BY <1>2, QueueShrinks DEF ShownInv
<1>. HIDE DEF i
<1>5. CASE Provide(i)
  BY <1>2, <1>3, <1>4, <1>5, ProvidedShown DEF ShownInv
<1>6. CASE screen' = screen
  <2>1. ASSUME NEW x \in screen' PROVE isReady'[x[2]] = isReady[x[2]] \/ isReady'[x[2]] = "1"
    <3>1. x[2] \in Items
      BY <1>6 DEF TypeInv
    <3>. QED
      BY <3>1, <1>2, <1>3 DEF TypeInv
  <2>. QED
    BY <2>1, <1>3, <1>4, <1>6 DEF ShownInv
<1>. QED
  BY <1>3, <1>5, <1>6

LEMMA UnreadyShown ==
  ASSUME TypeInv, ShownInv, ReceiveUnready
  PROVE  ShownInv'
<1>. DEFINE i == Head(toMain).item
<1>1. NextPatch("unready") /\ isReady' = [isReady EXCEPT ![i] = UnreadyState(i)]
      /\ screen' = screen /\ unmount' = unmount
  BY DEF ReceiveUnready, engineVars
<1>2. i \in Items /\ toMain # <<>> /\ toMain' = Tail(toMain) /\ Head(toMain).kind = "unready"
  BY <1>1, NextItem DEF NextPatch
<1>3. unmount
  <2>1. Head(toMain) = toMain[1] /\ 1 \in 1..Len(toMain)
    BY <1>2, QueueHead
  <2>. QED
    BY <2>1, <1>2 DEF ShownInv
<1>. HIDE DEF i
<1>4. ASSUME NEW x \in screen' PROVE isReady'[x[2]] # "promise"
  <2>1. x[2] \in Items /\ isReady[x[2]] # "promise"
    BY <1>1 DEF TypeInv, ShownInv
  <2>. QED
    BY <2>1, <1>1, <1>2 DEF TypeInv, UnreadyState
<1>. QED
  BY <1>1, <1>3, <1>4 DEF ShownInv

LEMMA EventShown ==
  ASSUME TypeInv, ShownInv, ReceiveEvent
  PROVE  ShownInv'
<1>1. screen' = screen /\ isReady' = isReady /\ unmount' = unmount
  BY EventCases
<1>2. ~unmount => \A n \in 1..Len(toMain') : toMain'[n].kind # "unready"
  <2>1. ASSUME ~unmount PROVE \A n \in 1..Len(toMain') : toMain'[n].kind # "unready"
    <3>0. \A n \in 1..Len(toMain) : toMain[n].kind # "unready"
      BY <2>1 DEF ShownInv
    <3>1. CASE toMain' = toMain
      BY <3>0, <3>1
    <3>2. ASSUME NEW i \in Deferred, Rerender(i, TRUE), toMain' # toMain
          PROVE \A n \in 1..Len(toMain') : toMain'[n].kind # "unready"
      <4>1. toMain' = Append(toMain, Patch("ready", i))
        BY <3>2 DEF Rerender
      <4>. QED
        BY <4>1, <3>0, QueueGrows
    <3>3. toMain' = toMain \/ \E i \in Deferred : Rerender(i, TRUE)
      BY <2>1, EventCases
    <3>. QED
      BY <3>1, <3>2, <3>3
  <2>. QED
    BY <2>1
<1>. QED
  BY <1>1, <1>2 DEF ShownInv

LEMMA OtherShown ==
  ASSUME TypeInv, ShownInv, screen' \subseteq screen, isReady' = isReady, unmount' = unmount,
         \/ toMain' = toMain
         \/ toMain # <<>> /\ toMain' = Tail(toMain)
         \/ \E i : toMain' = Append(toMain, Patch("remove", i))
  PROVE  ShownInv'
<1>1. ~unmount => \A n \in 1..Len(toMain') : toMain'[n].kind # "unready"
  BY QueueShrinks, QueueGrows DEF ShownInv
<1>. QED
  BY <1>1 DEF ShownInv

-----------------------------------------------------------------------------
(* Every element has one place and one owner *)

LEMMA CtxInjective ==
  ASSUME NEW i, NEW j, Ctx(i) = Ctx(j)
  PROVE  i = j
  BY DEF Ctx

LEMMA OwnerUntouched ==
  ASSUME KeyInv, PoolsFollow => OwnerInv, items' \subseteq items,
         UNCHANGED <<reuseId, generation, elements, signMap, recycleMap, created, screen, leaving>>
  PROVE  KeyInv' /\ (PoolsFollow' => OwnerInv')
<1>1. PoolsFollow' = PoolsFollow
  BY DEF PoolsFollow
<1>2. KeyInv'
  BY DEF KeyInv, Pools, ItemPools, ClonePool
<1>3. ASSUME OwnerInv PROVE OwnerInv'
  <2>1. SignsOwned' /\ CellsMatch' /\ CellsStay'
    BY <1>3 DEF OwnerInv, SignsOwned, CellsMatch, CellsStay, Signs, Ctx, IsClone
  <2>2. ItemsOwn'
    BY <1>3 DEF OwnerInv, ItemsOwn, Ctx
  <2>3. EntriesMatch' /\ EntriesIdle'
    BY <1>3 DEF OwnerInv, EntriesMatch, EntriesIdle, Pools, ItemPools, ClonePool, uniqID, IsClone
  <2>4. NoneLost'
    BY <1>3 DEF OwnerInv, NoneLost, Signs, Pooled, uniqID, IsClone
  <2>. QED
    BY <2>1, <2>2, <2>3, <2>4 DEF OwnerInv
<1>. QED
  BY <1>1, <1>2, <1>3

\* An item that leaves its cell takes no element along.
LEMMA LeaveOwned ==
  ASSUME KeyInv, PoolsFollow => OwnerInv, NEW i, Leave(i), items' \subseteq items,
         UNCHANGED <<reuseId, generation, elements, signMap, recycleMap, created>>
  PROVE  KeyInv' /\ (PoolsFollow' => OwnerInv')
<1>0. screen' = {p \in screen : p[2] # i}
      /\ leaving' = leaving \cup {p[1] : p \in {q \in screen : q[2] = i}}
  BY DEF Leave
<1>1. PoolsFollow' = PoolsFollow
  BY DEF PoolsFollow
<1>2. KeyInv'
  BY DEF KeyInv, Pools, ItemPools, ClonePool
<1>3. ASSUME OwnerInv PROVE OwnerInv'
  <2>1. SignsOwned' /\ CellsMatch'
    BY <1>0, <1>3 DEF OwnerInv, SignsOwned, CellsMatch, Signs, Ctx, IsClone
  <2>2. ItemsOwn'
    BY <1>3 DEF OwnerInv, ItemsOwn, Ctx
  <2>3. EntriesMatch'
    BY <1>3 DEF OwnerInv, EntriesMatch, Pools, ItemPools, ClonePool, uniqID, IsClone
  <2>4. ASSUME NEW x \in screen' PROVE x[1] \notin leaving'
    <3>1. x \in screen /\ x[2] # i /\ x[1] \notin leaving
      BY <1>0, <1>3 DEF OwnerInv, CellsStay
    <3>2. ASSUME NEW y \in screen, y[2] = i PROVE y[1] # x[1]
      <4>1. signMap[x[1]] = Ctx(x[2]) /\ signMap[y[1]] = Ctx(i)
        BY <3>1, <3>2, <1>3 DEF OwnerInv, CellsMatch
      <4>. QED
        BY <4>1, <3>1, CtxInjective
    <3>. QED
      BY <3>1, <3>2, <1>0
  <2>5. EntriesIdle'
    <3>1. ASSUME NEW p \in Pools, NEW e \in ToSet(recycleMap[p])
          PROVE  e.sign \notin leaving' /\ \A x \in screen' : x[1] # e.sign
      BY <1>0, <1>3 DEF OwnerInv, EntriesIdle
    <3>2. Pools' = Pools /\ recycleMap' = recycleMap
      BY DEF Pools, ItemPools, ClonePool
    <3>. QED
      BY <3>1, <3>2 DEF EntriesIdle
  <2>6. NoneLost'
    <3>1. ASSUME NEW s \in Signs
          PROVE  s \in leaving' \/ (\E x \in screen' : x[1] = s) \/ s \in Pooled(uniqID(signMap[s]))
      BY <1>0, <1>3 DEF OwnerInv, NoneLost
    <3>. QED
      BY <3>1 DEF NoneLost, Signs, Pooled, uniqID, IsClone
  <2>. QED
    BY <2>1, <2>2, <2>3, <2>4, <2>5, <2>6 DEF OwnerInv, CellsStay
<1>. QED
  BY <1>1, <1>2, <1>3

\* The pools after one of their entries is deleted or set.
LEMMA PoolDeleted ==
  ASSUME TypeInv, KeyInv, NEW p \in Pools, NEW s \in Pooled(p), recycleMap' = PoolDelete(p, s),
         reuseId' = reuseId
  PROVE  /\ KeyInv'
         /\ \A q \in Pools :
              ToSet(recycleMap'[q]) = {e \in ToSet(recycleMap[q]) : q = p => e.sign # s}
<1>1. /\ Place(p, s) \in 1..Len(recycleMap[p]) /\ recycleMap[p][Place(p, s)].sign = s
      /\ recycleMap' = [recycleMap EXCEPT ![p] = RemoveAt(recycleMap[p], Place(p, s))]
  BY DeleteAt
<1>2. recycleMap[p] \in Seq(Entries) /\ Keyed(recycleMap[p])
  BY PoolTyped DEF KeyInv
<1>3. /\ Keyed(RemoveAt(recycleMap[p], Place(p, s)))
      /\ ToSet(RemoveAt(recycleMap[p], Place(p, s))) = {e \in ToSet(recycleMap[p]) : e.sign # s}
  BY <1>1, <1>2, RemovedKey
<1>4. recycleMap'[p] = RemoveAt(recycleMap[p], Place(p, s))
      /\ \A q \in Pools : q # p => recycleMap'[q] = recycleMap[q]
  BY <1>1 DEF TypeInv
<1>5. KeyInv'
  <2>1. \A q \in Pools : Keyed(recycleMap'[q])
    BY <1>3, <1>4 DEF KeyInv
  <2>. QED
    BY <2>1 DEF KeyInv, Pools, ItemPools, ClonePool, Keyed
<1>6. ASSUME NEW q \in Pools
      PROVE  ToSet(recycleMap'[q]) = {e \in ToSet(recycleMap[q]) : q = p => e.sign # s}
  <2>1. CASE q = p
    BY <2>1, <1>3, <1>4
  <2>2. CASE q # p
    BY <2>2, <1>4
  <2>. QED
    BY <2>1, <2>2
<1>. QED
  BY <1>5, <1>6

LEMMA PoolEntered ==
  ASSUME TypeInv, KeyInv, NEW p \in Pools, NEW s \in Signs, NEW c \in Ctxs,
         recycleMap' = PoolSet(p, s, c), reuseId' = reuseId
  PROVE  /\ KeyInv'
         /\ s \notin Pooled(p) =>
              \A q \in Pools :
                ToSet(recycleMap'[q]) = ToSet(recycleMap[q]) \cup
                  (IF q = p THEN {Entry(s, c)} ELSE {})
<1>0. PICK q : q = recycleMap[p]
  OBVIOUS
<1>1. q \in Seq(Entries) /\ Keyed(q)
  BY <1>0, PoolTyped DEF KeyInv
<1>2. Entry(s, c) \in Entries /\ Entry(s, c).sign = s
  BY DEF Entry, Entries
<1>3. PICK r : r = IF s \in Pooled(p)
                   THEN [n \in DOMAIN q |-> IF q[n].sign = s THEN Entry(s, c) ELSE q[n]]
                   ELSE Append(q, Entry(s, c))
  OBVIOUS
<1>4. recycleMap' = [recycleMap EXCEPT ![p] = r]
  BY <1>0, <1>3 DEF PoolSet
<1>5. recycleMap'[p] = r /\ \A t \in Pools : t # p => recycleMap'[t] = recycleMap[t]
  BY <1>4 DEF TypeInv
<1>6. CASE s \in Pooled(p)
  <2>1. Len(q) \in Nat /\ DOMAIN q = 1..Len(q)
    BY <1>1
  <2>2. r \in Seq(Entries)
    <3>1. \A n \in 1..Len(q) : q[n] \in Entries
      BY <1>1
    <3>2. r \in [1..Len(q) -> Entries]
      BY <1>2, <1>3, <1>6, <2>1, <3>1
    <3>. QED
      BY <2>1, <3>2, SeqDef
  <2>3. DOMAIN r = 1..Len(q) /\ \A n \in 1..Len(q) : r[n].sign = q[n].sign
    BY <1>2, <1>3, <1>6, <2>1
  <2>4. Len(r) = Len(q)
    BY <2>1, <2>2, <2>3
  <2>5. Keyed(r)
    BY <1>1, <2>3, <2>4 DEF Keyed
  <2>6. \A t \in Pools : Keyed(recycleMap'[t])
    BY <1>5, <2>5 DEF KeyInv
  <2>. QED
    BY <1>6, <2>6 DEF KeyInv, Pools, ItemPools, ClonePool, Keyed
<1>7. CASE s \notin Pooled(p)
  <2>1. \A e \in ToSet(q) : e.sign # s
    BY <1>0, <1>7 DEF Pooled
  <2>2. Keyed(r) /\ ToSet(r) = ToSet(q) \cup {Entry(s, c)}
    BY <1>1, <1>2, <1>3, <1>7, <2>1, AppendedKey
  <2>3. \A t \in Pools : Keyed(recycleMap'[t])
    BY <1>5, <2>2 DEF KeyInv
  <2>4. KeyInv'
    BY <2>3 DEF KeyInv, Pools, ItemPools, ClonePool, Keyed
  <2>5. ASSUME NEW t \in Pools
        PROVE  ToSet(recycleMap'[t]) = ToSet(recycleMap[t]) \cup
                 (IF t = p THEN {Entry(s, c)} ELSE {})
    <3>1. CASE t = p
      BY <3>1, <1>0, <1>5, <2>2
    <3>2. CASE t # p
      BY <3>2, <1>5
    <3>. QED
      BY <3>1, <3>2
  <2>. QED
    BY <2>4, <2>5
<1>. QED
  BY <1>6, <1>7

\* An element that is on the screen or leaves it is in no pool.
LEMMA NotPooled ==
  ASSUME OwnerInv, NEW s, s \in leaving \/ \E x \in screen : x[1] = s, NEW p \in Pools
  PROVE  s \notin Pooled(p)
  BY DEF OwnerInv, EntriesIdle, Pooled

LEMMA EnqueueOwned ==
  ASSUME TypeInv, KeyInv, PoolsFollow => OwnerInv, NEW s \in Signs, enqueueComponent(s)
  PROVE  KeyInv' /\ (PoolsFollow' => OwnerInv')
<1>. DEFINE c == signMap[s]
            p == uniqID(c)
<1>1. c \in Ctxs /\ p \in Pools /\ s \in DOMAIN signMap
  BY PoolOf DEF TypeInv
<1>2. /\ recycleMap' = PoolSet(p, s, c)
      /\ screen' = {x \in screen : x[1] # s} /\ leaving' = leaving \ {s}
      /\ s \in leaving \/ \E x \in screen : x[1] = s
      /\ UNCHANGED <<reuseId, items, generation, elements, signMap, created>>
  BY <1>1 DEF enqueueComponent
<1>3. KeyInv'
  BY <1>1, <1>2, PoolEntered
<1>4. PoolsFollow' = PoolsFollow /\ Pools' = Pools /\ Signs' = Signs
  BY <1>2 DEF PoolsFollow, Pools, ItemPools, ClonePool, Signs
<1>5. ASSUME OwnerInv PROVE OwnerInv'
  <2>1. s \notin Pooled(p)
    BY <1>1, <1>2, <1>5, NotPooled
  <2>2. \A q \in Pools :
          ToSet(recycleMap'[q]) = ToSet(recycleMap[q]) \cup (IF q = p THEN {Entry(s, c)} ELSE {})
    BY <1>1, <1>2, <2>1, PoolEntered
  <2>3. Entry(s, c).sign = s /\ Entry(s, c).ctx = c
    BY DEF Entry
  <2>4. SignsOwned' /\ CellsMatch' /\ ItemsOwn' /\ CellsStay'
    BY <1>2, <1>5 DEF OwnerInv, SignsOwned, CellsMatch, ItemsOwn, CellsStay, Signs, Ctx, IsClone
  <2>5. ASSUME NEW q \in Pools, NEW e \in ToSet(recycleMap'[q])
        PROVE  /\ e.ctx = signMap[e.sign] /\ q = uniqID(e.ctx)
               /\ e.sign \notin leaving' /\ \A x \in screen' : x[1] # e.sign
    <3>1. CASE e \in ToSet(recycleMap[q])
      BY <3>1, <1>2, <1>5 DEF OwnerInv, EntriesMatch, EntriesIdle
    <3>2. CASE e \notin ToSet(recycleMap[q])
      <4>1. q = p /\ e = Entry(s, c)
        BY <3>2, <2>2
      <4>. QED
        BY <4>1, <2>3, <1>2
    <3>. QED
      BY <3>1, <3>2
  <2>6. EntriesMatch' /\ EntriesIdle'
    BY <2>5, <1>2, <1>4 DEF EntriesMatch, EntriesIdle, uniqID, IsClone
  <2>7. ASSUME NEW t \in Signs
        PROVE  t \in leaving' \/ (\E x \in screen' : x[1] = t)
               \/ \E e \in ToSet(recycleMap'[uniqID(signMap[t])]) : e.sign = t
    <3>1. CASE t = s
      BY <3>1, <1>1, <2>2, <2>3
    <3>2. CASE t # s
      <4>1. t \in leaving \/ (\E x \in screen : x[1] = t) \/ t \in Pooled(uniqID(signMap[t]))
        BY <1>5 DEF OwnerInv, NoneLost
      <4>2. signMap[t] \in Ctxs
        BY DEF TypeInv
      <4>3. uniqID(signMap[t]) \in Pools
        BY <4>2, PoolOf
      <4>4. t \in Pooled(uniqID(signMap[t])) =>
              \E e \in ToSet(recycleMap'[uniqID(signMap[t])]) : e.sign = t
        BY <4>3, <2>2 DEF Pooled
      <4>. QED
        BY <3>2, <4>1, <4>4, <1>2
    <3>. QED
      BY <3>1, <3>2
  <2>8. NoneLost'
    BY <2>7, <1>2 DEF NoneLost, Pooled, uniqID, IsClone, Signs
  <2>. QED
    BY <2>4, <2>6, <2>8 DEF OwnerInv
<1>. QED
  BY <1>3, <1>4, <1>5

\* The item gets back its own element: nothing changes hands.
LEMMA ReuseItselfOwned ==
  ASSUME TypeInv, KeyInv, PoolsFollow => OwnerInv, NEW i \in items, ReuseItself(i),
         UNCHANGED <<reuseId, items, generation, leaving>>
  PROVE  KeyInv' /\ (PoolsFollow' => OwnerInv')
<1>. DEFINE s == elements[Ctx(i)]
            p == uniqID(Ctx(i))
<1>1. i \in Items /\ Ctx(i) \in Ctxs
  BY CtxTyped DEF TypeInv
<1>2. HasElements(Ctx(i)) /\ s \in Pooled(p)
  BY DEF ReuseItself, OwnIsPooled
<1>3. s \in Signs /\ p \in Pools
  BY <1>1, <1>2, OwnElement, PoolOf
<1>4. signMap' = Put(signMap, s, Ctx(i)) /\ recycleMap' = PoolDelete(p, s)
      /\ screen' = screen \cup {<<s, i>>} /\ elements' = elements /\ created' = created
  BY DEF ReuseItself
<1>5. KeyInv'
      /\ \A q \in Pools : ToSet(recycleMap'[q]) = {e \in ToSet(recycleMap[q]) : q = p => e.sign # s}
  BY <1>2, <1>3, <1>4, PoolDeleted
<1>6. PoolsFollow' = PoolsFollow /\ Pools' = Pools /\ Signs' = Signs
  BY <1>4 DEF PoolsFollow, Pools, ItemPools, ClonePool, Signs
<1>7. ASSUME OwnerInv PROVE OwnerInv'
  <2>1. signMap[s] = Ctx(i)
    BY <1>2, <1>7 DEF OwnerInv, ItemsOwn, HasElements
  <2>. HIDE DEF s, p
  <2>2. signMap' = signMap
    <3>1. DOMAIN signMap = Signs
      BY DEF TypeInv
    <3>2. signMap' = [y \in Signs \cup {s} |-> IF y = s THEN Ctx(i) ELSE signMap[y]]
      BY <3>1, <1>4 DEF Put
    <3>3. Signs \cup {s} = Signs
      BY <1>3
    <3>4. signMap' = [y \in Signs |-> signMap[y]]
      BY <3>2, <3>3, <2>1
    <3>. QED
      BY <3>4 DEF TypeInv
  <2>3. SignsOwned' /\ ItemsOwn'
    BY <2>2, <1>4, <1>7 DEF OwnerInv, SignsOwned, ItemsOwn, Signs, Ctx, IsClone
  <2>4. \A x \in screen' : signMap[x[1]] = Ctx(x[2])
    BY <2>1, <1>4, <1>7 DEF OwnerInv, CellsMatch
  <2>5. CellsMatch'
    BY <2>2, <2>4 DEF CellsMatch, Ctx
  <2>6. PICK f \in ToSet(recycleMap[p]) : f.sign = s
    BY <1>2, <1>3 DEF Pooled, s, p
  <2>7. s \notin leaving /\ f.ctx = Ctx(i) /\ uniqID(f.ctx) = p
    BY <2>1, <2>6, <1>3, <1>7 DEF OwnerInv, EntriesMatch, EntriesIdle
  <2>8. CellsStay'
    BY <2>7, <1>4, <1>7 DEF OwnerInv, CellsStay
  <2>9. ASSUME NEW q \in Pools, NEW e \in ToSet(recycleMap'[q])
        PROVE  /\ e.ctx = signMap[e.sign] /\ q = uniqID(e.ctx)
               /\ e.sign \notin leaving /\ \A x \in screen' : x[1] # e.sign
    <3>1. e \in ToSet(recycleMap[q]) /\ (q = p => e.sign # s)
      BY <1>5
    <3>2. /\ e.ctx = signMap[e.sign] /\ q = uniqID(e.ctx)
          /\ e.sign \notin leaving /\ \A x \in screen : x[1] # e.sign
      BY <3>1, <1>7 DEF OwnerInv, EntriesMatch, EntriesIdle
    <3>3. e.sign # s
      BY <3>1, <3>2, <2>1, <2>7
    <3>. QED
      BY <3>2, <3>3, <1>4
  <2>10. EntriesMatch' /\ EntriesIdle'
    BY <2>2, <2>9, <1>6 DEF EntriesMatch, EntriesIdle, uniqID, IsClone
  <2>11. ASSUME NEW t \in Signs
         PROVE  t \in leaving \/ (\E x \in screen' : x[1] = t)
                \/ \E e \in ToSet(recycleMap'[uniqID(signMap[t])]) : e.sign = t
    <3>1. CASE t = s
      <4>1. <<s, i>> \in screen' /\ <<s, i>>[1] = s
        BY <1>4
      <4>. QED
        BY <3>1, <4>1
    <3>2. CASE t # s
      <4>1. t \in leaving \/ (\E x \in screen : x[1] = t) \/ t \in Pooled(uniqID(signMap[t]))
        BY <1>7 DEF OwnerInv, NoneLost
      <4>2. signMap[t] \in Ctxs
        BY DEF TypeInv
      <4>3. uniqID(signMap[t]) \in Pools
        BY <4>2, PoolOf
      <4>4. t \in Pooled(uniqID(signMap[t])) =>
              \E e \in ToSet(recycleMap'[uniqID(signMap[t])]) : e.sign = t
        BY <3>2, <4>3, <1>5 DEF Pooled
      <4>. QED
        BY <4>1, <4>4, <1>4
    <3>. QED
      BY <3>1, <3>2
  <2>12. NoneLost'
    BY <2>2, <2>11, <1>6 DEF NoneLost, Pooled, uniqID, IsClone
  <2>. QED
    BY <2>3, <2>5, <2>8, <2>10, <2>12 DEF OwnerInv
<1>. QED
  BY <1>5, <1>6, <1>7

\* An element that is still in use is left to a clone, and the item has none.
LEMMA TakenOwned ==
  ASSUME TypeInv, OwnerInv, NEW i \in items
  PROVE  LET E == ElementsTaken(i)
             M == SignsTaken(i)
         IN  /\ Ctx(i) \notin DOMAIN E
             /\ \A s \in Signs : /\ M[s] \in DOMAIN E /\ E[M[s]] = s /\ M[s] # Ctx(i)
                                 /\ IsClone(M[s]) => M[s][3] = s
                                 /\ signMap[s] # Ctx(i) => M[s] = signMap[s]
             /\ \A j \in items : j # i /\ Ctx(j) \in DOMAIN E =>
                  E[Ctx(j)] \in Signs /\ M[E[Ctx(j)]] = Ctx(j)
<1>. DEFINE E == ElementsTaken(i)
            M == SignsTaken(i)
<1>0. i \in Items /\ ~IsClone(Ctx(i)) /\ \A j \in items : ~IsClone(Ctx(j)) /\ j \in Items
  BY DEF TypeInv, Ctx, IsClone
<1>1. CASE ~HasElements(Ctx(i))
  <2>1. E = elements /\ M = signMap /\ Ctx(i) \notin DOMAIN elements
    BY <1>1 DEF ElementsTaken, SignsTaken, HasElements
  <2>. HIDE DEF E, M
  <2>2. \A s \in Signs : /\ M[s] \in DOMAIN E /\ E[M[s]] = s /\ M[s] # Ctx(i)
                         /\ IsClone(M[s]) => M[s][3] = s
                         /\ signMap[s] # Ctx(i) => M[s] = signMap[s]
    BY <2>1 DEF OwnerInv, SignsOwned
  <2>3. \A j \in items : j # i /\ Ctx(j) \in DOMAIN E =>
          E[Ctx(j)] \in Signs /\ M[E[Ctx(j)]] = Ctx(j)
    BY <2>1 DEF OwnerInv, ItemsOwn, TypeInv
  <2>. QED
    BY <2>1, <2>2, <2>3 DEF E, M
<1>2. CASE HasElements(Ctx(i))
  <2>. DEFINE u == elements[Ctx(i)]
              k == CloneOf(i, u)
              D == Drop(elements, Ctx(i))
  <2>1. u \in Signs /\ Ctx(i) \in DOMAIN elements
    BY <1>2, OwnElement DEF HasElements
  <2>2. signMap[u] = Ctx(i)
    BY <2>1 DEF OwnerInv, ItemsOwn
  <2>3. k[3] = u /\ IsClone(k)
    BY <2>1, <1>0, CloneTyped DEF IsClone
  <2>4. E = Put(D, k, u) /\ M = Put(signMap, u, k)
    BY <1>2 DEF ElementsTaken, SignsTaken
  <2>. HIDE DEF u, k, E, M
  <2>5. DOMAIN D = DOMAIN elements \ {Ctx(i)}
        /\ \A c \in DOMAIN elements : c # Ctx(i) => D[c] = elements[c]
    BY Dropping
  <2>. HIDE DEF D
  <2>6. /\ DOMAIN E = (DOMAIN elements \ {Ctx(i)}) \cup {k} /\ E[k] = u
        /\ \A c \in DOMAIN elements : c # Ctx(i) /\ c # k => E[c] = elements[c]
    <3>1. /\ DOMAIN Put(D, k, u) = DOMAIN D \cup {k} /\ Put(D, k, u)[k] = u
          /\ \A c \in DOMAIN D : c # k => Put(D, k, u)[c] = D[c]
      BY DEF Put
    <3>. QED
      BY <3>1, <2>4, <2>5
  <2>7. DOMAIN signMap = Signs
    BY DEF TypeInv
  <2>8. M[u] = k /\ \A s \in Signs : s # u => M[s] = signMap[s]
    <3>1. /\ Put(signMap, u, k)[u] = k
          /\ \A s \in DOMAIN signMap : s # u => Put(signMap, u, k)[s] = signMap[s]
      BY DEF Put
    <3>. QED
      BY <3>1, <2>4, <2>7
  <2>9. k # Ctx(i) /\ \A j \in items : k # Ctx(j)
    BY <2>3, <1>0
  <2>10. ASSUME NEW s \in Signs
         PROVE  /\ M[s] \in DOMAIN E /\ E[M[s]] = s /\ M[s] # Ctx(i)
                /\ IsClone(M[s]) => M[s][3] = s
                /\ signMap[s] # Ctx(i) => M[s] = signMap[s]
    <3>1. CASE s = u
      BY <3>1, <2>2, <2>3, <2>6, <2>8, <2>9
    <3>2. CASE s # u
      <4>1. M[s] = signMap[s] /\ signMap[s] \in DOMAIN elements /\ elements[signMap[s]] = s
            /\ (IsClone(signMap[s]) => signMap[s][3] = s)
        BY <3>2, <2>8 DEF OwnerInv, SignsOwned
      <4>2. signMap[s] # Ctx(i)
        BY <3>2, <4>1 DEF u
      <4>3. signMap[s] # k
        BY <3>2, <4>1, <2>3
      <4>. QED
        BY <4>1, <4>2, <4>3, <2>6
    <3>. QED
      BY <3>1, <3>2
  <2>11. ASSUME NEW j \in items, j # i, Ctx(j) \in DOMAIN E
         PROVE  E[Ctx(j)] \in Signs /\ M[E[Ctx(j)]] = Ctx(j)
    <3>1. Ctx(j) # Ctx(i) /\ Ctx(j) # k
      BY <2>9, <2>11, CtxInjective
    <3>2. Ctx(j) \in DOMAIN elements /\ E[Ctx(j)] = elements[Ctx(j)]
      BY <3>1, <2>6, <2>11
    <3>3. elements[Ctx(j)] \in Signs /\ signMap[elements[Ctx(j)]] = Ctx(j)
      BY <3>2 DEF OwnerInv, ItemsOwn, TypeInv
    <3>4. elements[Ctx(j)] # u
      BY <3>1, <3>3, <2>2
    <3>. QED
      BY <3>2, <3>3, <3>4, <2>8
  <2>12. Ctx(i) \notin DOMAIN E
    BY <2>6, <2>9
  <2>. QED
    BY <2>10, <2>11, <2>12 DEF E, M
<1>. QED
  BY <1>1, <1>2

\* What a pool holds is named by its sign, and is not the element of an item outside.
LEMMA PooledOwned ==
  ASSUME TypeInv, OwnerInv, NEW i \in items, ~OwnIsPooled(i), NEW q \in Pools,
         NEW e \in ToSet(recycleMap[q])
  PROVE  /\ e.sign \in Signs /\ e.ctx = signMap[e.sign] /\ q = uniqID(e.ctx)
         /\ signMap[e.sign] # Ctx(i)
         /\ e.sign \notin leaving /\ \A x \in screen : x[1] # e.sign
<1>1. e \in Entries
  BY PoolTyped, ToSetOfSeq
<1>2. e.sign \in Signs
  BY <1>1 DEF Entries
<1>3. /\ e.ctx = signMap[e.sign] /\ q = uniqID(e.ctx)
      /\ e.sign \notin leaving /\ \A x \in screen : x[1] # e.sign
  BY DEF OwnerInv, EntriesMatch, EntriesIdle
<1>4. ASSUME signMap[e.sign] = Ctx(i) PROVE FALSE
  <2>1. Ctx(i) \in DOMAIN elements /\ elements[Ctx(i)] = e.sign
    BY <1>2, <1>4 DEF OwnerInv, SignsOwned
  <2>2. q = uniqID(Ctx(i)) /\ e.sign \in Pooled(q)
    BY <1>3, <1>4 DEF Pooled
  <2>. QED
    BY <2>1, <2>2 DEF OwnIsPooled, HasElements
<1>. QED
  BY <1>2, <1>3, <1>4

\* The element s is given to item i, and the item's former element to a clone.
LEMMA GivenOwned ==
  ASSUME TypeInv, OwnerInv, NEW i \in items, ~OnScreen(i), ~OwnIsPooled(i), NEW s,
         UNCHANGED <<reuseId, items, generation, leaving>>,
         Signs' = Signs \cup {s},
         signMap'[s] = Ctx(i), \A t \in Signs : t # s => signMap'[t] = SignsTaken(i)[t],
         Ctx(i) \in DOMAIN elements', elements'[Ctx(i)] = s,
         \A c \in DOMAIN elements' : c # Ctx(i) =>
           c \in DOMAIN ElementsTaken(i) /\ elements'[c] = ElementsTaken(i)[c],
         \A t \in Signs : t # s => SignsTaken(i)[t] \in DOMAIN elements',
         s \in Signs => SignsTaken(i)[s] \notin DOMAIN elements',
         screen' = screen \cup {<<s, i>>}, s \notin leaving, \A x \in screen : x[1] # s,
         \A q \in Pools : ToSet(recycleMap'[q]) = {e \in ToSet(recycleMap[q]) : e.sign # s}
  PROVE  OwnerInv'
<1>. DEFINE E == ElementsTaken(i)
            M == SignsTaken(i)
<1>1. /\ Ctx(i) \notin DOMAIN E
      /\ \A t \in Signs : /\ M[t] \in DOMAIN E /\ E[M[t]] = t /\ M[t] # Ctx(i)
                          /\ IsClone(M[t]) => M[t][3] = t
                          /\ signMap[t] # Ctx(i) => M[t] = signMap[t]
      /\ \A j \in items : j # i /\ Ctx(j) \in DOMAIN E =>
           E[Ctx(j)] \in Signs /\ M[E[Ctx(j)]] = Ctx(j)
  BY TakenOwned
<1>2. /\ \A t \in Signs : t # s => signMap'[t] = M[t] /\ M[t] \in DOMAIN elements'
      /\ \A c \in DOMAIN elements' : c # Ctx(i) => c \in DOMAIN E /\ elements'[c] = E[c]
      /\ s \in Signs => M[s] \notin DOMAIN elements'
  OBVIOUS
<1>. HIDE DEF E, M
<1>3. ~IsClone(Ctx(i)) /\ (\A j : Ctx(j)' = Ctx(j)) /\ Pools' = Pools
  BY DEF IsClone, Ctx, Pools, ItemPools, ClonePool
<1>4. SignsOwned'
  <2>1. ASSUME NEW t \in Signs'
        PROVE  /\ signMap'[t] \in DOMAIN elements' /\ elements'[signMap'[t]] = t
               /\ IsClone(signMap'[t]) => signMap'[t][3] = t
    <3>1. CASE t = s
      BY <3>1, <1>3
    <3>2. CASE t # s
      <4>1. t \in Signs /\ signMap'[t] = M[t] /\ M[t] \in DOMAIN elements' /\ M[t] # Ctx(i)
            /\ E[M[t]] = t
        BY <3>2, <1>1, <1>2
      <4>2. elements'[M[t]] = t
        BY <4>1, <1>2
      <4>3. IsClone(M[t]) => M[t][3] = t
        BY <4>1, <1>1
      <4>. QED
        BY <4>1, <4>2, <4>3
    <3>. QED
      BY <3>1, <3>2
  <2>. QED
    BY <2>1 DEF SignsOwned, IsClone
<1>5. ItemsOwn'
  <2>1. ASSUME NEW j \in items, Ctx(j) \in DOMAIN elements'
        PROVE  signMap'[elements'[Ctx(j)]] = Ctx(j)
    <3>1. CASE j = i
      BY <3>1
    <3>2. CASE j # i
      <4>1. Ctx(j) # Ctx(i)
        BY <3>2, CtxInjective
      <4>2. Ctx(j) \in DOMAIN E /\ elements'[Ctx(j)] = E[Ctx(j)]
        BY <4>1, <2>1, <1>2
      <4>3. E[Ctx(j)] \in Signs /\ M[E[Ctx(j)]] = Ctx(j)
        BY <4>2, <3>2, <1>1
      <4>4. E[Ctx(j)] # s
        BY <4>3, <2>1, <1>2
      <4>. QED
        BY <4>2, <4>3, <4>4, <1>2
    <3>. QED
      BY <3>1, <3>2
  <2>. QED
    BY <2>1, <1>3 DEF ItemsOwn, Ctx
<1>6. ASSUME NEW x \in screen
      PROVE  x[1] \in Signs /\ x[1] # s /\ signMap[x[1]] = Ctx(x[2]) /\ Ctx(x[2]) # Ctx(i)
  <2>1. x[2] # i
    BY DEF OnScreen
  <2>. QED
    BY <2>1, CtxInjective DEF OwnerInv, CellsMatch, TypeInv
<1>7. CellsMatch'
  <2>1. ASSUME NEW x \in screen' PROVE signMap'[x[1]] = Ctx(x[2])
    <3>1. CASE x \in screen
      <4>1. x[1] \in Signs /\ x[1] # s /\ signMap[x[1]] = Ctx(x[2]) /\ Ctx(x[2]) # Ctx(i)
        BY <3>1, <1>6
      <4>2. signMap'[x[1]] = M[x[1]] /\ M[x[1]] = signMap[x[1]]
        BY <4>1, <1>1, <1>2
      <4>. QED
        BY <4>1, <4>2
    <3>2. CASE x = <<s, i>>
      BY <3>2
    <3>. QED
      BY <3>1, <3>2
  <2>. QED
    BY <2>1 DEF CellsMatch, Ctx
<1>8. CellsStay'
  BY DEF OwnerInv, CellsStay
<1>9. ASSUME NEW q \in Pools, NEW e \in ToSet(recycleMap'[q])
      PROVE  /\ e.ctx = signMap'[e.sign] /\ q = uniqID(e.ctx)
             /\ e.sign \notin leaving /\ \A x \in screen' : x[1] # e.sign
  <2>1. e \in ToSet(recycleMap[q]) /\ e.sign # s
    OBVIOUS
  <2>2. /\ e.sign \in Signs /\ e.ctx = signMap[e.sign] /\ q = uniqID(e.ctx)
        /\ signMap[e.sign] # Ctx(i)
        /\ e.sign \notin leaving /\ \A x \in screen : x[1] # e.sign
    BY <2>1, PooledOwned
  <2>3. signMap'[e.sign] = signMap[e.sign]
    BY <2>1, <2>2, <1>1, <1>2
  <2>. QED
    BY <2>1, <2>2, <2>3
<1>10. EntriesMatch' /\ EntriesIdle'
  BY <1>9, <1>3 DEF EntriesMatch, EntriesIdle, uniqID, IsClone
<1>11. ASSUME NEW t \in Signs'
       PROVE  t \in leaving \/ (\E x \in screen' : x[1] = t)
              \/ \E e \in ToSet(recycleMap'[uniqID(signMap'[t])]) : e.sign = t
  <2>1. CASE t = s
    <3>1. <<s, i>> \in screen' /\ <<s, i>>[1] = s
      OBVIOUS
    <3>. QED
      BY <3>1, <2>1
  <2>2. CASE t # s
    <3>0. t \in Signs
      BY <2>2
    <3>1. t \in leaving \/ (\E x \in screen : x[1] = t) \/ t \in Pooled(uniqID(signMap[t]))
      BY <3>0 DEF OwnerInv, NoneLost
    <3>2. ASSUME t \in Pooled(uniqID(signMap[t]))
          PROVE \E e \in ToSet(recycleMap'[uniqID(signMap'[t])]) : e.sign = t
      <4>1. signMap[t] \in Ctxs
        BY <3>0 DEF TypeInv
      <4>2. uniqID(signMap[t]) \in Pools
        BY <4>1, PoolOf
      <4>3. PICK e \in ToSet(recycleMap[uniqID(signMap[t])]) : e.sign = t
        BY <3>2 DEF Pooled
      <4>4. signMap[t] # Ctx(i)
        BY <4>2, <4>3, PooledOwned
      <4>5. signMap'[t] = signMap[t]
        BY <4>4, <2>2, <3>0, <1>1, <1>2
      <4>6. e \in ToSet(recycleMap'[uniqID(signMap[t])])
        BY <4>2, <4>3, <2>2
      <4>. QED
        BY <4>3, <4>5, <4>6
    <3>. QED
      BY <3>1, <3>2
  <2>. QED
    BY <2>1, <2>2
<1>12. NoneLost'
  BY <1>11 DEF NoneLost, Pooled, uniqID, IsClone
<1>. QED
  BY <1>4, <1>5, <1>7, <1>8, <1>10, <1>12 DEF OwnerInv

LEMMA ReuseOtherOwned ==
  ASSUME TypeInv, KeyInv, PoolsFollow => OwnerInv, NEW i \in items, ~OnScreen(i), ReuseOther(i),
         UNCHANGED <<reuseId, items, generation, leaving>>
  PROVE  KeyInv' /\ (PoolsFollow' => OwnerInv')
<1>. DEFINE p == uniqID(Ctx(i))
            s == Head(recycleMap[p]).sign
            old == Head(recycleMap[p]).ctx
            E == ElementsTaken(i)
            M == SignsTaken(i)
<1>1. i \in Items /\ Ctx(i) \in Ctxs /\ p \in Pools
  BY CtxTyped, PoolOf DEF TypeInv
<1>2. /\ recycleMap[p] # <<>> /\ ~OwnIsPooled(i)
      /\ recycleMap' = PoolDelete(p, s)
      /\ elements' = Hydrated(E, old, Ctx(i))
      /\ signMap' = Put(M, s, Ctx(i))
      /\ screen' = screen \cup {<<s, i>>} /\ created' = created
  BY DEF ReuseOther
<1>. HIDE DEF E, M
<1>3. PICK first : first = Head(recycleMap[p])
  OBVIOUS
<1>4. first \in ToSet(recycleMap[p]) /\ s = first.sign /\ old = first.ctx /\ s \in Pooled(p)
      /\ s \in Signs
  BY <1>1, <1>2, <1>3, FirstOfPool
<1>. HIDE DEF p, s, old
<1>5. KeyInv'
      /\ \A q \in Pools : ToSet(recycleMap'[q]) = {e \in ToSet(recycleMap[q]) : q = p => e.sign # s}
  BY <1>1, <1>2, <1>4, PoolDeleted
<1>6. PoolsFollow' = PoolsFollow /\ Pools' = Pools /\ Signs' = Signs
  BY <1>2 DEF PoolsFollow, Pools, ItemPools, ClonePool, Signs
<1>7. ASSUME OwnerInv PROVE OwnerInv'
  <2>1. /\ old = signMap[s] /\ p = uniqID(old) /\ signMap[s] # Ctx(i)
        /\ s \notin leaving /\ \A x \in screen : x[1] # s
    BY <1>1, <1>2, <1>4, <1>7, PooledOwned
  <2>2. /\ Ctx(i) \notin DOMAIN E
        /\ \A t \in Signs : M[t] \in DOMAIN E /\ E[M[t]] = t /\ M[t] # Ctx(i)
        /\ M[s] = old
    BY <1>4, <1>7, <2>1, TakenOwned DEF E, M
  <2>3. old \in DOMAIN E /\ E[old] = s /\ old # Ctx(i)
    BY <2>2, <1>4
  <2>4. /\ DOMAIN elements' = (DOMAIN E \cup {Ctx(i)}) \ {old}
        /\ elements'[Ctx(i)] = s
        /\ \A c \in DOMAIN elements' : c # Ctx(i) => elements'[c] = E[c]
    BY <2>3, <1>2 DEF Hydrated, Put, Drop
  <2>5. DOMAIN M = Signs
    BY <1>1, TakenTyped DEF M
  <2>6. signMap'[s] = Ctx(i) /\ \A t \in Signs : t # s => signMap'[t] = M[t]
    BY <2>5, <1>2 DEF Put
  <2>7. \A t \in Signs : t # s => M[t] \in DOMAIN elements'
    BY <2>2, <2>3, <2>4
  <2>8. ASSUME NEW q \in Pools, NEW e \in ToSet(recycleMap[q]), e.sign = s PROVE q = p
    BY <2>1, <2>8, <1>2, <1>7, PooledOwned
  <2>9. \A q \in Pools : ToSet(recycleMap'[q]) = {e \in ToSet(recycleMap[q]) : e.sign # s}
    BY <2>8, <1>5
  <2>10. Signs' = Signs \cup {s}
    BY <1>4, <1>6
  <2>11. \A c \in DOMAIN elements' : c # Ctx(i) => c \in DOMAIN E /\ elements'[c] = E[c]
    BY <2>4
  <2>12. Ctx(i) \in DOMAIN elements' /\ M[s] \notin DOMAIN elements'
    BY <2>2, <2>3, <2>4
  <2>. QED
    BY <1>2, <1>7, <2>1, <2>4, <2>6, <2>7, <2>9, <2>10, <2>11, <2>12, GivenOwned DEF E, M
<1>. QED
  BY <1>5, <1>6, <1>7

LEMMA CreateElementOwned ==
  ASSUME TypeInv, KeyInv, PoolsFollow => OwnerInv, NEW i \in items, ~OnScreen(i), CreateElement(i),
         UNCHANGED <<reuseId, items, generation, leaving>>
  PROVE  KeyInv' /\ (PoolsFollow' => OwnerInv')
<1>. DEFINE s == created + 1
            E == ElementsTaken(i)
            M == SignsTaken(i)
<1>1. /\ ~OwnIsPooled(i) /\ created' = s
      /\ elements' = Put(E, Ctx(i), s)
      /\ signMap' = Put(M, s, Ctx(i))
      /\ screen' = screen \cup {<<s, i>>} /\ recycleMap' = recycleMap
  BY DEF CreateElement
<1>2. Signs' = Signs \cup {s} /\ s \notin Signs
  BY <1>1 DEF Signs, TypeInv
<1>. HIDE DEF E, M, s
<1>3. PoolsFollow' = PoolsFollow /\ Pools' = Pools
  BY DEF PoolsFollow, Pools, ItemPools, ClonePool
<1>4. KeyInv'
  BY <1>1, <1>3 DEF KeyInv
<1>5. ASSUME OwnerInv PROVE OwnerInv'
  <2>1. i \in Items
    BY DEF TypeInv
  <2>2. /\ Ctx(i) \notin DOMAIN E
        /\ \A t \in Signs : M[t] \in DOMAIN E /\ E[M[t]] = t /\ M[t] # Ctx(i)
    BY <1>5, TakenOwned DEF E, M
  <2>3. /\ DOMAIN elements' = DOMAIN E \cup {Ctx(i)}
        /\ elements'[Ctx(i)] = s
        /\ \A c \in DOMAIN elements' : c # Ctx(i) => elements'[c] = E[c]
    BY <1>1 DEF Put
  <2>4. DOMAIN M = Signs
    BY <2>1, TakenTyped DEF M
  <2>5. signMap'[s] = Ctx(i) /\ \A t \in Signs : t # s => signMap'[t] = M[t]
    BY <2>4, <1>1 DEF Put
  <2>6. s \notin leaving /\ \A x \in screen : x[1] # s
    BY <1>2 DEF TypeInv
  <2>7. ASSUME NEW q \in Pools, NEW e \in ToSet(recycleMap[q]) PROVE e.sign # s
    BY <1>1, <1>2, <1>5, PooledOwned
  <2>8. \A q \in Pools : ToSet(recycleMap'[q]) = {e \in ToSet(recycleMap[q]) : e.sign # s}
    BY <2>7, <1>1
  <2>9. /\ \A c \in DOMAIN elements' : c # Ctx(i) => c \in DOMAIN E /\ elements'[c] = E[c]
        /\ Ctx(i) \in DOMAIN elements'
        /\ \A t \in Signs : t # s => M[t] \in DOMAIN elements'
    BY <2>2, <2>3
  <2>. QED
    BY <1>1, <1>2, <1>5, <2>3, <2>5, <2>6, <2>8, <2>9, GivenOwned DEF E, M
<1>. QED
  BY <1>3, <1>4, <1>5

LEMMA ProvideOwned ==
  ASSUME TypeInv, KeyInv, PoolsFollow => OwnerInv, NEW i \in items, ~OnScreen(i), Provide(i),
         UNCHANGED <<reuseId, items, generation, leaving>>
  PROVE  KeyInv' /\ (PoolsFollow' => OwnerInv')
  BY ReuseItselfOwned, ReuseOtherOwned, CreateElementOwned DEF Provide

\* The pools after a hydration hold what they held, updated.
LEMMA PoolsUpdated ==
  ASSUME TypeInv, KeyInv, Hydrate
  PROVE  /\ KeyInv'
         /\ \A p \in Pools : ToSet(recycleMap'[p]) = {Updated(p, e) : e \in ToSet(recycleMap[p])}
<1>1. ASSUME NEW p, NEW e \in Entries PROVE Updated(p, e).sign = e.sign
  BY DEF Updated, Entry
<1>2. ASSUME NEW p \in Pools
      PROVE  Keyed(recycleMap'[p])
             /\ ToSet(recycleMap'[p]) = {Updated(p, e) : e \in ToSet(recycleMap[p])}
  <2>1. PICK q : q = recycleMap[p]
    OBVIOUS
  <2>2. q \in Seq(Entries) /\ Keyed(q)
    BY <2>1, PoolTyped DEF KeyInv
  <2>3. recycleMap'[p] = [n \in DOMAIN q |-> Updated(p, q[n])]
    BY <2>1, HydrateSteps
  <2>4. Len(q) \in Nat /\ DOMAIN q = 1..Len(q)
    BY <2>2
  <2>5. PICK r : r = [n \in 1..Len(q) |-> Updated(p, q[n])]
    OBVIOUS
  <2>6. r = recycleMap'[p] /\ DOMAIN r = 1..Len(q) /\ Len(r) = Len(q)
        /\ \A n \in 1..Len(q) : r[n] = Updated(p, q[n])
    BY <2>3, <2>4, <2>5
  <2>7. \A n \in 1..Len(q) : q[n] \in Entries
    BY <2>2
  <2>8. \A n \in 1..Len(q) : r[n].sign = q[n].sign
    BY <2>6, <2>7, <1>1
  <2>9. Keyed(r)
    BY <2>2, <2>6, <2>8 DEF Keyed
  <2>10. ToSet(r) = {r[n] : n \in 1..Len(q)} /\ ToSet(q) = {q[n] : n \in 1..Len(q)}
    BY <2>4, <2>6 DEF ToSet
  <2>11. ToSet(r) = {Updated(p, e) : e \in ToSet(q)}
    BY <2>6, <2>10
  <2>. QED
    BY <2>1, <2>6, <2>9, <2>11
<1>3. KeyInv'
  <2>1. Pools' = Pools
    BY HydrateSteps DEF Pools, ItemPools, ClonePool
  <2>2. \A p \in Pools : Keyed(recycleMap'[p])
    BY <1>2
  <2>. QED
    BY <2>1, <2>2 DEF KeyInv, Keyed
<1>. QED
  BY <1>2, <1>3

\* An element is transferred from the instance that has it, to the new one of its item.
LEMMA OneHeir ==
  ASSUME TypeInv, OwnerInv, Hydrate, NEW s \in Signs
  PROVE  /\ signMap[s] \in Transferred =>
              Heirs(s) = {signMap[s]} /\ signMap'[s] = Renewed(signMap[s])
         /\ signMap[s] \notin Transferred => Heirs(s) = {} /\ signMap'[s] = signMap[s]
<1>1. ASSUME NEW c \in Heirs(s) PROVE c = signMap[s] /\ c \in Transferred
  <2>1. c \in Transferred /\ elements[c] = s
    BY DEF Heirs
  <2>2. c \in DOMAIN elements /\ c[1] \in items /\ c = Ctx(c[1])
    BY <2>1, TransferredCtx
  <2>. QED
    BY <2>1, <2>2 DEF OwnerInv, ItemsOwn
<1>2. signMap[s] \in Transferred => signMap[s] \in Heirs(s)
  BY DEF Heirs, OwnerInv, SignsOwned
<1>3. signMap'[s] = IF Heirs(s) = {} THEN signMap[s] ELSE Renewed(CHOOSE c \in Heirs(s) : TRUE)
  BY HydrateSteps DEF TypeInv
<1>4. CASE signMap[s] \in Transferred
  <2>1. Heirs(s) = {signMap[s]}
    BY <1>1, <1>2, <1>4
  <2>2. (CHOOSE c \in Heirs(s) : TRUE) = signMap[s]
    BY <2>1
  <2>. QED
    BY <1>3, <1>4, <2>1, <2>2
<1>5. CASE signMap[s] \notin Transferred
  BY <1>1, <1>3, <1>5
<1>. QED
  BY <1>4, <1>5

LEMMA HydrateOwned ==
  ASSUME TypeInv, KeyInv, PoolsFollow => OwnerInv, Hydrate
  PROVE  KeyInv' /\ (PoolsFollow' => OwnerInv')
<1>1. KeyInv'
  BY PoolsUpdated
<1>2. ASSUME PoolsFollow' PROVE OwnerInv'
  <2>0. UNCHANGED <<reuseId, items, created, screen, leaving>> /\ generation' = generation + 1
    BY HydrateSteps
  <2>1. \A i \in Items : reuseId[i] = "none"
    BY <1>2, <2>0 DEF PoolsFollow, TypeInv
  <2>2. OwnerInv
    BY <2>1 DEF PoolsFollow
  <2>3. Pools' = Pools /\ Signs' = Signs
    BY <2>0 DEF Pools, ItemPools, ClonePool, Signs
  <2>4. ASSUME NEW c \in Transferred
        PROVE  /\ c \in DOMAIN elements /\ c[1] \in items /\ c[1] \in Items /\ c = Ctx(c[1])
               /\ Renewed(c)[1] = c[1] /\ ~IsClone(Renewed(c)) /\ ~IsClone(c)
               /\ Renewed(c) \in DOMAIN elements' /\ elements'[Renewed(c)] = elements[c]
               /\ uniqID(c) = <<Types[c[1]], "none">> /\ uniqID(Renewed(c)) = uniqID(c)
    <3>1. /\ c \in DOMAIN elements /\ c[1] \in items /\ c = Ctx(c[1])
          /\ Renewed(c) = <<c[1], generation + 1, 0>> /\ Renewed(c) \notin DOMAIN elements
      BY TransferredCtx
    <3>2. Renewed(c)[1] = c[1] /\ ~IsClone(Renewed(c)) /\ ~IsClone(c)
      BY <3>1 DEF Ctx, IsClone
    <3>3. Renewed(c) \in DOMAIN elements' /\ elements'[Renewed(c)] = elements[Ctx(Renewed(c)[1])]
      BY <3>1, HydrateSteps
    <3>4. uniqID(c) = <<Types[c[1]], "none">> /\ uniqID(Renewed(c)) = <<Types[c[1]], "none">>
      BY <3>1, <3>2, <2>1 DEF uniqID, TypeInv
    <3>5. c[1] \in Items
      BY <3>1 DEF TypeInv
    <3>. QED
      BY <3>1, <3>2, <3>3, <3>4, <3>5
  <2>5. \A c \in DOMAIN elements : c \in DOMAIN elements' /\ elements'[c] = elements[c]
    BY HydrateSteps
  <2>6. ASSUME NEW s \in Signs
        PROVE  /\ signMap'[s] \in DOMAIN elements' /\ elements'[signMap'[s]] = s
               /\ IsClone(signMap'[s]) => signMap'[s][3] = s
               /\ uniqID(signMap'[s]) = uniqID(signMap[s])
    <3>1. signMap[s] \in DOMAIN elements /\ elements[signMap[s]] = s
          /\ (IsClone(signMap[s]) => signMap[s][3] = s)
      BY <2>2 DEF OwnerInv, SignsOwned
    <3>2. CASE signMap[s] \in Transferred
      BY <2>2, <2>4, <3>1, <3>2, OneHeir
    <3>3. CASE signMap[s] \notin Transferred
      BY <2>2, <2>5, <3>1, <3>3, OneHeir
    <3>. QED
      BY <3>2, <3>3
  <2>7. SignsOwned'
    BY <2>3, <2>6 DEF SignsOwned, IsClone
  <2>8. ASSUME NEW j \in items, HasElements(Ctx(j))
        PROVE  Ctx(j) \in Transferred /\ Renewed(Ctx(j)) = <<j, generation + 1, 0>>
    BY <2>8 DEF Transferred, Renewed, Ctx
  <2>9. ItemsOwn'
    <3>1. ASSUME NEW j \in items, <<j, generation + 1, 0>> \in DOMAIN elements'
          PROVE  signMap'[elements'[<<j, generation + 1, 0>>]] = <<j, generation + 1, 0>>
      <4>1. <<j, generation + 1, 0>> \notin DOMAIN elements
        <5>1. generation + 1 \notin 0..generation
          BY ConstantsAssumption DEF TypeInv
        <5>. QED
          BY <5>1 DEF TypeInv, Ctxs
      <4>2. PICK x \in Transferred : <<j, generation + 1, 0>> = Renewed(x)
        BY <3>1, <4>1, HydrateSteps
      <4>3. x = Ctx(j) /\ x \in DOMAIN elements /\ elements'[<<j, generation + 1, 0>>] = elements[x]
        BY <4>2, <2>4
      <4>4. elements[x] \in Signs /\ signMap[elements[x]] = x
        BY <4>3, <2>2 DEF OwnerInv, ItemsOwn, TypeInv
      <4>. QED
        BY <4>2, <4>3, <4>4, <2>2, OneHeir
    <3>2. \A j : Ctx(j)' = <<j, generation + 1, 0>>
      BY <2>0 DEF Ctx
    <3>. QED
      BY <3>1, <3>2, <2>0 DEF ItemsOwn, Ctx
  <2>10. CellsMatch'
    <3>1. ASSUME NEW x \in screen PROVE signMap'[x[1]] = <<x[2], generation + 1, 0>>
      <4>1. x[1] \in Signs /\ x[2] \in items /\ signMap[x[1]] = Ctx(x[2])
        BY <2>2 DEF OwnerInv, CellsMatch, TypeInv
      <4>2. HasElements(Ctx(x[2]))
        BY <4>1, <2>2 DEF OwnerInv, SignsOwned, HasElements
      <4>. QED
        BY <4>1, <4>2, <2>2, <2>8, OneHeir
    <3>. QED
      BY <3>1, <2>0 DEF CellsMatch, Ctx
  <2>11. CellsStay'
    BY <2>0, <2>2 DEF OwnerInv, CellsStay
  <2>12. ASSUME NEW p \in Pools, NEW e \in ToSet(recycleMap[p])
         PROVE  /\ Updated(p, e).sign = e.sign /\ Updated(p, e).ctx = signMap'[e.sign]
                /\ p = uniqID(signMap'[e.sign]) /\ e.sign \notin leaving
                   /\ \A x \in screen : x[1] # e.sign
    <3>1. e \in Entries
      BY PoolTyped, ToSetOfSeq
    <3>2. e.sign \in Signs
      BY <3>1 DEF Entries
    <3>3. e.ctx = signMap[e.sign] /\ p = uniqID(e.ctx) /\ e.sign \notin leaving
          /\ \A x \in screen : x[1] # e.sign
      BY <2>2 DEF OwnerInv, EntriesMatch, EntriesIdle
    <3>4. p = uniqID(signMap'[e.sign])
      BY <3>2, <3>3, <2>6
    <3>5. CASE e.ctx \in Transferred
      <4>1. Heirs(e.sign) = {e.ctx} /\ signMap'[e.sign] = Renewed(e.ctx)
        BY <3>2, <3>3, <3>5, <2>2, OneHeir
      <4>2. HydratesPool(p, e.ctx)
        BY <3>3, <3>5, <2>4 DEF HydratesPool
      <4>3. PoolHeirs(p, e.sign) = {e.ctx}
        BY <4>1, <4>2 DEF PoolHeirs
      <4>4. (CHOOSE c \in PoolHeirs(p, e.sign) : TRUE) = e.ctx
        BY <4>3
      <4>5. Updated(p, e) = Entry(e.sign, Renewed(e.ctx))
        BY <4>3, <4>4 DEF Updated
      <4>. QED
        BY <3>3, <3>4, <4>1, <4>5 DEF Entry
    <3>6. CASE e.ctx \notin Transferred
      <4>1. Heirs(e.sign) = {} /\ signMap'[e.sign] = e.ctx
        BY <3>2, <3>3, <3>6, <2>2, OneHeir
      <4>2. Updated(p, e) = e
        BY <4>1 DEF Updated, PoolHeirs
      <4>. QED
        BY <3>3, <3>4, <4>1, <4>2
    <3>. QED
      BY <3>5, <3>6
  <2>13. \A p \in Pools : ToSet(recycleMap'[p]) = {Updated(p, e) : e \in ToSet(recycleMap[p])}
    BY PoolsUpdated
  <2>14. ASSUME NEW p \in Pools, NEW f \in ToSet(recycleMap'[p])
         PROVE  /\ f.ctx = signMap'[f.sign] /\ p = uniqID(f.ctx)
                /\ f.sign \notin leaving /\ \A x \in screen : x[1] # f.sign
    <3>1. PICK e \in ToSet(recycleMap[p]) : f = Updated(p, e)
      BY <2>13
    <3>. QED
      BY <3>1, <2>12
  <2>15. EntriesMatch' /\ EntriesIdle'
    BY <2>0, <2>3, <2>14 DEF EntriesMatch, EntriesIdle, uniqID, IsClone
  <2>16. ASSUME NEW s \in Signs
         PROVE  s \in leaving \/ (\E x \in screen : x[1] = s)
                \/ \E f \in ToSet(recycleMap'[uniqID(signMap'[s])]) : f.sign = s
    <3>1. s \in leaving \/ (\E x \in screen : x[1] = s) \/ s \in Pooled(uniqID(signMap[s]))
      BY <2>2 DEF OwnerInv, NoneLost
    <3>2. ASSUME s \in Pooled(uniqID(signMap[s]))
          PROVE \E f \in ToSet(recycleMap'[uniqID(signMap'[s])]) : f.sign = s
      <4>1. signMap[s] \in Ctxs
        BY DEF TypeInv
      <4>2. uniqID(signMap[s]) \in Pools /\ uniqID(signMap'[s]) = uniqID(signMap[s])
        BY <4>1, <2>6, PoolOf
      <4>3. PICK e \in ToSet(recycleMap[uniqID(signMap[s])]) : e.sign = s
        BY <3>2 DEF Pooled
      <4>4. Updated(uniqID(signMap[s]), e) \in ToSet(recycleMap'[uniqID(signMap[s])])
            /\ Updated(uniqID(signMap[s]), e).sign = s
        BY <4>2, <4>3, <2>12, <2>13
      <4>. QED
        BY <4>2, <4>4
    <3>. QED
      BY <3>1, <3>2
  <2>17. NoneLost'
    BY <2>0, <2>3, <2>16 DEF NoneLost, Pooled, uniqID, IsClone
  <2>. QED
    BY <2>7, <2>9, <2>10, <2>11, <2>15, <2>17 DEF OwnerInv
<1>. QED
  BY <1>1, <1>2

-----------------------------------------------------------------------------
(* The steps *)

LEMMA InitRecycling == Init => RecyclingInv
<1>. SUFFICES ASSUME Init PROVE RecyclingInv
  OBVIOUS
<1>1. TypeInv
  BY InitTypes
<1>2. /\ toMain = <<>> /\ screen = {} /\ created = 0 /\ elements = <<>>
      /\ \A p \in Pools : recycleMap[p] = <<>>
  BY DEF Init
<1>3. RemovalInv /\ ShownInv
  BY <1>2 DEF RemovalInv, ShownInv
<1>4. Signs = {} /\ DOMAIN elements = {} /\ Len(<<>>) = 0
  BY <1>2 DEF Signs
<1>5. KeyInv
  BY <1>2 DEF KeyInv, Keyed
<1>6. \A p \in Pools : ToSet(recycleMap[p]) = {}
  BY <1>2 DEF ToSet
<1>7. OwnerInv
  BY <1>2, <1>4, <1>6
     DEF OwnerInv, SignsOwned, ItemsOwn, CellsMatch, EntriesMatch, EntriesIdle, CellsStay, NoneLost
<1>. QED
  BY <1>1, <1>3, <1>5, <1>7 DEF RecyclingInv

LEMMA AskStep ==
  ASSUME RecyclingInv, NEW i \in Items, AskForContent(i)
  PROVE  RecyclingInv'
<1>1. UNCHANGED <<reuseId, items, generation, elements, signMap, recycleMap, created, screen,
                  leaving, mounted, toMain>>
  BY DEF AskForContent, engineVars, bgVars
<1>2. RemovalInv'
  BY <1>1 DEF RecyclingInv, RemovalInv
<1>3. KeyInv' /\ (PoolsFollow' => OwnerInv')
  BY <1>1, OwnerUntouched DEF RecyclingInv
<1>. QED
  BY <1>2, <1>3, AskTypes, AskShown DEF RecyclingInv

LEMMA AtIndexStep ==
  ASSUME RecyclingInv, NEW i \in Items, componentAtIndex(i)
  PROVE  RecyclingInv'
<1>1. UNCHANGED <<reuseId, items, generation, leaving, mounted, toMain>>
      /\ i \in items /\ ~OnScreen(i) /\ Provide(i)
  BY DEF componentAtIndex, bgVars
<1>2. RemovalInv'
  BY <1>1 DEF RecyclingInv, RemovalInv
<1>3. KeyInv' /\ (PoolsFollow' => OwnerInv')
  BY <1>1, ProvideOwned DEF RecyclingInv
<1>. QED
  BY <1>2, <1>3, AtIndexTypes, AtIndexShown DEF RecyclingInv

LEMMA MoveStep ==
  ASSUME RecyclingInv, NEW i \in Items, Move(i)
  PROVE  RecyclingInv'
<1>1. UNCHANGED <<reuseId, unmount, items, generation, elements, signMap, recycleMap, isReady,
                  created, mounted, toMain>>
      /\ Leave(i)
  BY DEF Move, mainVars, bgVars
<1>2. RemovalInv'
  BY <1>1 DEF RecyclingInv, RemovalInv
<1>3. KeyInv' /\ (PoolsFollow' => OwnerInv')
  BY <1>1, LeaveOwned DEF RecyclingInv
<1>4. screen' \subseteq screen
  BY <1>1 DEF Leave
<1>5. ShownInv'
  BY <1>1, <1>4, OtherShown DEF RecyclingInv
<1>. QED
  BY <1>2, <1>3, <1>5, MoveTypes DEF RecyclingInv

LEMMA UnmountStep ==
  ASSUME RecyclingInv, NEW i \in Items, Unmount(i)
  PROVE  RecyclingInv'
<1>1. UNCHANGED <<reuseId, unmount, items, generation, elements, signMap, recycleMap, isReady,
                  created, screen, leaving>>
      /\ i \in mounted /\ mounted' = mounted \ {i} /\ toMain' = Append(toMain, Patch("remove", i))
  BY DEF Unmount, mainVars, engineVars, HandlersDeleted
<1>2. RemovalInv'
  BY <1>1, RemovalsQueued DEF RecyclingInv
<1>3. KeyInv' /\ (PoolsFollow' => OwnerInv')
  BY <1>1, OwnerUntouched DEF RecyclingInv
<1>4. ShownInv'
  BY <1>1, OtherShown DEF RecyclingInv
<1>. QED
  BY <1>2, <1>3, <1>4, UnmountTypes DEF RecyclingInv

LEMMA EnqueueStep ==
  ASSUME RecyclingInv, NEW s \in Signs, enqueueComponent(s)
  PROVE  RecyclingInv'
<1>1. UNCHANGED <<unmount, items, isReady, mounted, toMain>> /\ screen' \subseteq screen
  BY DEF enqueueComponent, bgVars
<1>2. RemovalInv'
  BY <1>1 DEF RecyclingInv, RemovalInv
<1>3. ShownInv'
  BY <1>1, OtherShown DEF RecyclingInv
<1>. QED
  BY <1>2, <1>3, EnqueueTypes, EnqueueOwned DEF RecyclingInv

LEMMA HydrateStep ==
  ASSUME RecyclingInv, Hydrate
  PROVE  RecyclingInv'
<1>1. UNCHANGED <<unmount, items, isReady, screen, mounted, toMain>>
  BY HydrateSteps
<1>2. RemovalInv'
  BY <1>1 DEF RecyclingInv, RemovalInv
<1>3. ShownInv'
  BY <1>1, OtherShown DEF RecyclingInv
<1>. QED
  BY <1>2, <1>3, HydrateTypes, HydrateOwned DEF RecyclingInv

LEMMA EventStep ==
  ASSUME RecyclingInv, ReceiveEvent
  PROVE  RecyclingInv'
<1>0. TypeInv
  BY DEF RecyclingInv
<1>1. UNCHANGED <<reuseId, items, generation, elements, signMap, recycleMap, created, screen,
                  leaving, mounted>>
  BY <1>0, EventCases
<1>2. RemovalInv'
  <2>1. CASE toMain' = toMain
    BY <2>1, <1>1 DEF RecyclingInv, RemovalInv
  <2>2. ASSUME NEW i \in mounted, NEW ready \in BOOLEAN, Rerender(i, ready), toMain' # toMain
        PROVE RemovalInv'
    <3>1. PICK k : k = IF ready THEN "ready" ELSE "unready"
      OBVIOUS
    <3>2. toMain' = Append(toMain, Patch(k, i)) /\ k # "remove"
      BY <2>2, <3>1 DEF Rerender
    <3>. QED
      BY <3>2, <1>1, RemovalsQueued DEF RecyclingInv
  <2>3. toMain' = toMain \/ \E i \in mounted : \E ready \in BOOLEAN : Rerender(i, ready)
    BY <1>0, EventCases
  <2>. QED
    BY <2>1, <2>2, <2>3
<1>3. KeyInv' /\ (PoolsFollow' => OwnerInv')
  BY <1>1, OwnerUntouched DEF RecyclingInv
<1>. QED
  BY <1>2, <1>3, EventTypes, EventShown DEF RecyclingInv

LEMMA ReadyStep ==
  ASSUME RecyclingInv, ReceiveReady
  PROVE  RecyclingInv'
<1>0. TypeInv /\ RemovalInv /\ ShownInv
  BY DEF RecyclingInv
<1>. DEFINE i == Head(toMain).item
<1>1. NextPatch("ready")
  BY DEF ReceiveReady
<1>2. toMain # <<>> /\ toMain' = Tail(toMain)
  BY <1>1 DEF NextPatch
<1>3. i \in items
  <2>1. Len(toMain) \in Nat /\ Len(toMain) > 0 /\ Head(toMain) = toMain[1]
    BY <1>0, <1>2, QueueHead
  <2>. QED
    BY <2>1, <1>0 DEF RemovalInv
<1>4. /\ UNCHANGED <<reuseId, items, generation, leaving, mounted>>
      /\ \/ isReady[i] = "promise" /\ Provide(i)
         \/ UNCHANGED <<elements, signMap, recycleMap, created, screen>>
  BY <1>0, ReadyCases
<1>5. RemovalInv'
  <2>1. items' = items /\ mounted' = mounted
    BY <1>4
  <2>2. items' = items \/ (Head(toMain).kind = "remove" /\ items' = items \ {Head(toMain).item})
    BY <2>1
  <2>. QED
    BY <1>0, <1>2, <2>1, <2>2, RemovalsArrive
<1>. HIDE DEF i
<1>6. KeyInv' /\ (PoolsFollow' => OwnerInv')
  <2>1. CASE isReady[i] = "promise" /\ Provide(i)
    <3>1. ~OnScreen(i)
      BY <2>1 DEF OnScreen, RecyclingInv, ShownInv
    <3>. QED
      BY <2>1, <3>1, <1>3, <1>4, ProvideOwned DEF RecyclingInv
  <2>2. CASE UNCHANGED <<elements, signMap, recycleMap, created, screen>>
    BY <2>2, <1>4, OwnerUntouched DEF RecyclingInv
  <2>. QED
    BY <2>1, <2>2, <1>4
<1>. QED
  BY <1>5, <1>6, ReadyTypes, ReadyShown DEF RecyclingInv

LEMMA UnreadyStep ==
  ASSUME RecyclingInv, ReceiveUnready
  PROVE  RecyclingInv'
<1>0. TypeInv /\ RemovalInv /\ ShownInv
  BY DEF RecyclingInv
<1>1. /\ UNCHANGED <<reuseId, items, generation, elements, signMap, recycleMap, created, screen,
                     leaving, mounted>>
      /\ toMain # <<>> /\ toMain' = Tail(toMain)
  BY DEF ReceiveUnready, NextPatch, engineVars, bgVars
<1>2. RemovalInv'
  <2>1. items' = items /\ mounted' = mounted
    BY <1>1
  <2>2. items' = items \/ (Head(toMain).kind = "remove" /\ items' = items \ {Head(toMain).item})
    BY <2>1
  <2>. QED
    BY <1>0, <1>1, <2>1, <2>2, RemovalsArrive
<1>3. KeyInv' /\ (PoolsFollow' => OwnerInv')
  BY <1>1, OwnerUntouched DEF RecyclingInv
<1>. QED
  BY <1>2, <1>3, UnreadyTypes, UnreadyShown DEF RecyclingInv

LEMMA RemoveStep ==
  ASSUME RecyclingInv, ReceiveRemove
  PROVE  RecyclingInv'
<1>0. TypeInv /\ RemovalInv /\ ShownInv
  BY DEF RecyclingInv
<1>. DEFINE i == Head(toMain).item
<1>1. /\ UNCHANGED <<reuseId, unmount, generation, elements, signMap, recycleMap, isReady,
                     created, mounted>>
      /\ items' = items \ {i} /\ Leave(i)
      /\ toMain # <<>> /\ toMain' = Tail(toMain) /\ Head(toMain).kind = "remove"
  BY <1>0, RemoveCases
<1>2. RemovalInv'
  BY <1>0, <1>1, RemovalsArrive
<1>3. KeyInv' /\ (PoolsFollow' => OwnerInv')
  <2>1. items' \subseteq items
    BY <1>1
  <2>. QED
    BY <1>1, <2>1, LeaveOwned DEF RecyclingInv
<1>4. screen' \subseteq screen
  BY <1>1 DEF Leave
<1>5. ShownInv'
  BY <1>0, <1>1, <1>4, OtherShown
<1>. QED
  BY <1>0, <1>2, <1>3, <1>5, RemoveTypes DEF RecyclingInv

LEMMA StutterStep ==
  ASSUME RecyclingInv, UNCHANGED vars
  PROVE  RecyclingInv'
<1>1. UNCHANGED <<reuseId, unmount, items, generation, elements, signMap, recycleMap, isReady,
                  created, screen, leaving, mounted, rendered, toBackground, toMain, moves>>
  BY DEF vars, mainVars, engineVars, bgVars
<1>2. Signs' = Signs /\ Ctxs' = Ctxs /\ Entries' = Entries /\ Pools' = Pools
  BY <1>1, SameTables
<1>3. TypeInv'
  BY <1>1, <1>2 DEF RecyclingInv, TypeInv
<1>4. RemovalInv' /\ ShownInv'
  BY <1>1 DEF RecyclingInv, RemovalInv, ShownInv
<1>5. KeyInv' /\ (PoolsFollow' => OwnerInv')
  BY <1>1, OwnerUntouched DEF RecyclingInv
<1>. QED
  BY <1>3, <1>4, <1>5 DEF RecyclingInv

LEMMA Recycles == Spec => []RecyclingInv
<1>1. RecyclingInv /\ [Next]_vars => RecyclingInv'
  <2>. SUFFICES ASSUME RecyclingInv, [Next]_vars PROVE RecyclingInv'
    OBVIOUS
  <2>1. ASSUME NEW i \in Items, AskForContent(i) \/ componentAtIndex(i) \/ Move(i) \/ Unmount(i)
        PROVE RecyclingInv'
    BY <2>1, AskStep, AtIndexStep, MoveStep, UnmountStep
  <2>2. ASSUME NEW s \in Signs, enqueueComponent(s) PROVE RecyclingInv'
    BY <2>2, EnqueueStep
  <2>3. CASE Hydrate
    BY <2>3, HydrateStep
  <2>4. CASE ReceiveEvent
    BY <2>4, EventStep
  <2>5. CASE ReceiveReady
    BY <2>5, ReadyStep
  <2>6. CASE ReceiveUnready
    BY <2>6, UnreadyStep
  <2>7. CASE ReceiveRemove
    BY <2>7, RemoveStep
  <2>8. CASE UNCHANGED vars
    BY <2>8, StutterStep
  <2>. QED
    BY <2>1, <2>2, <2>3, <2>4, <2>5, <2>6, <2>7, <2>8 DEF Next
<1>. QED
  BY <1>1, InitRecycling, PTL DEF Spec

-----------------------------------------------------------------------------
(* The theorems *)

\* The tables of a list, what the engine shows and the queues between the threads keep
\* their types: the pools hold signs that were given out, each with an instance.
THEOREM TypeCorrect == Spec => []TypeOK
<1>1. TypeInv => TypeOK
  <2>. SUFFICES ASSUME TypeInv PROVE TypeOK
    OBVIOUS
  <2>1. \A p \in Pools : \A e \in ToSet(recycleMap[p]) : e.sign \in Signs /\ e.ctx \in Ctxs
    <3>1. ASSUME NEW p \in Pools, NEW e \in ToSet(recycleMap[p]) PROVE e \in Entries
      BY PoolTyped, ToSetOfSeq
    <3>. QED
      BY <3>1 DEF Entries
  <2>2. \A c \in DOMAIN elements : elements[c] \in Signs
    BY DEF TypeInv
  <2>3. DOMAIN signMap \subseteq Signs /\ \A s \in DOMAIN signMap : signMap[s] \in Ctxs
    BY DEF TypeInv
  <2>4. screen \subseteq Signs \X Items
    BY DEF TypeInv
  <2>. QED
    BY <2>1, <2>2, <2>3, <2>4 DEF TypeInv, TypeOK
<1>2. RecyclingInv => TypeOK
  BY <1>1 DEF RecyclingInv
<1>. QED
  BY <1>2, Recycles, PTL

\* What is written for an item lands in the element that the screen shows for it: for any
\* items, any order of the engine's two callbacks, moves, removals and hydrations, no
\* element has two instances and every cell shows the element of its item.
THEOREM ElementsAreOwned == Spec => []ElementsFollowItems
<1>1. RecyclingInv => ElementsFollowItems
  <2>. SUFFICES ASSUME RecyclingInv, PoolsFollow PROVE OneOwner /\ ScreenShowsItems
    BY DEF ElementsFollowItems
  <2>1. TypeInv /\ OwnerInv
    BY DEF RecyclingInv
  <2>2. ASSUME NEW s \in Signs PROVE signMap[elements[signMap[s]]] = signMap[s]
    BY <2>1 DEF OwnerInv, SignsOwned
  <2>3. ASSUME NEW c \in Reachable \cap DOMAIN elements PROVE signMap[elements[c]] = c
    <3>1. CASE c \in {Ctx(i) : i \in items}
      BY <3>1, <2>1 DEF OwnerInv, ItemsOwn
    <3>2. CASE c \in {signMap[s] : s \in DOMAIN signMap}
      BY <3>2, <2>1, <2>2 DEF TypeInv
    <3>3. ASSUME NEW p \in Pools, NEW e \in ToSet(recycleMap[p]), c = e.ctx
          PROVE  signMap[elements[c]] = c
      <4>1. e \in Entries
        BY <2>1, PoolTyped, ToSetOfSeq
      <4>2. e.sign \in Signs /\ e.ctx = signMap[e.sign]
        BY <4>1, <2>1 DEF Entries, OwnerInv, EntriesMatch
      <4>. QED
        BY <4>2, <3>3, <2>2
    <3>. QED
      BY <3>1, <3>2, <3>3 DEF Reachable
  <2>4. OneOwner
    BY <2>3 DEF OneOwner
  <2>5. ASSUME NEW x \in screen
        PROVE signMap[x[1]] = Ctx(x[2]) /\ HasElements(Ctx(x[2])) /\ elements[Ctx(x[2])] = x[1]
    BY <2>1 DEF OwnerInv, CellsMatch, SignsOwned, HasElements, TypeInv
  <2>. QED
    BY <2>4, <2>5 DEF ScreenShowsItems
<1>. QED
  BY <1>1, Recycles, PTL

\* A pool holds each element once, and none that the screen may still show, so that no
\* cell turns blank when an element is reused; and whatever leaves the screen in whatever
\* order, only the elements of clones are lost.
THEOREM PoolsHoldIdleElements == Spec => []PoolsAreIdle
<1>1. RecyclingInv => PoolsAreIdle
  <2>. SUFFICES ASSUME RecyclingInv, PoolsFollow
                PROVE  /\ \A p, q \in Pools :
                            \A e \in ToSet(recycleMap[p]), f \in ToSet(recycleMap[q]) :
                            /\ e.sign = f.sign => p = q /\ e = f
                            /\ e.sign \notin leaving /\ \A x \in screen : x[1] # e.sign
                            /\ HasElements(e.ctx) /\ elements[e.ctx] = e.sign
                       /\ \A s \in Signs :
                            \/ s \in leaving \/ \E x \in screen : x[1] = s
                            \/ \E p \in ItemPools : s \in Pooled(p)
                            \/ IsClone(signMap[s])
    BY DEF PoolsAreIdle
  <2>1. TypeInv /\ OwnerInv
    BY DEF RecyclingInv
  <2>2. ASSUME NEW p \in Pools, NEW e \in ToSet(recycleMap[p])
        PROVE  /\ e = [sign |-> e.sign, ctx |-> e.ctx] /\ e.ctx = signMap[e.sign]
                  /\ p = uniqID(e.ctx)
               /\ e.sign \notin leaving /\ \A x \in screen : x[1] # e.sign
               /\ HasElements(e.ctx) /\ elements[e.ctx] = e.sign
    <3>1. e \in Entries
      BY <2>1, PoolTyped, ToSetOfSeq
    <3>2. e.sign \in Signs /\ e = [sign |-> e.sign, ctx |-> e.ctx]
      BY <3>1 DEF Entries
    <3>3. /\ e.ctx = signMap[e.sign] /\ p = uniqID(e.ctx)
          /\ e.sign \notin leaving /\ \A x \in screen : x[1] # e.sign
      BY <2>1 DEF OwnerInv, EntriesMatch, EntriesIdle
    <3>4. HasElements(e.ctx) /\ elements[e.ctx] = e.sign
      BY <3>2, <3>3, <2>1 DEF OwnerInv, SignsOwned, HasElements
    <3>. QED
      BY <3>2, <3>3, <3>4
  <2>3. ASSUME NEW p \in Pools, NEW q \in Pools, NEW e \in ToSet(recycleMap[p]),
               NEW f \in ToSet(recycleMap[q]),
               e.sign = f.sign
        PROVE  p = q /\ e = f
    <3>1. e.ctx = f.ctx /\ p = uniqID(e.ctx) /\ q = uniqID(f.ctx)
      BY <2>2, <2>3
    <3>2. e = [sign |-> e.sign, ctx |-> e.ctx] /\ f = [sign |-> f.sign, ctx |-> f.ctx]
      BY <2>2
    <3>. QED
      BY <3>1, <3>2, <2>3
  <2>4. ASSUME NEW s \in Signs
        PROVE  \/ s \in leaving \/ \E x \in screen : x[1] = s
               \/ \E p \in ItemPools : s \in Pooled(p)
               \/ IsClone(signMap[s])
    <3>1. signMap[s] \in Ctxs
      BY <2>1 DEF TypeInv
    <3>2. ~IsClone(signMap[s]) => uniqID(signMap[s]) \in ItemPools
      BY <2>1, <3>1, PoolOf
    <3>. QED
      BY <2>1, <3>2 DEF OwnerInv, NoneLost
  <2>. QED
    BY <2>2, <2>3, <2>4
<1>. QED
  BY <1>1, Recycles, PTL

\* A deferred item is never shown without its content, however late the background thread
\* renders it, in a list that does not unmount what it recycles.
THEOREM ContentIsShown == Spec => []KeptContentIsShown
<1>1. RecyclingInv => KeptContentIsShown
  BY DEF RecyclingInv, ShownInv, KeptContentIsShown, ShownWithContent
<1>. QED
  BY <1>1, Recycles, PTL
=============================================================================
