---------------------------- MODULE ListRecycling ----------------------------
(***************************************************************************)
(* The items of a <list> on the main thread.  The engine shows the items   *)
(* near the viewport: it asks for the element of an item with              *)
(* componentAtIndex and gives an element that has left the screen back     *)
(* with enqueueComponent.  An element given back is kept in a pool and     *)
(* rewritten for the next item of the same kind.  An item with "defer" has *)
(* its content rendered by the background thread when it is first asked    *)
(* for, and with unmountRecycled loses it when its element is reused.      *)
(*                                                                         *)
(* The code is packages/react/runtime/src/snapshot/list/list.ts, the list  *)
(* branch of renderToOpcodes/hydrate.ts, takeElements and removeChild of   *)
(* snapshot/snapshot.ts and packages/react/components/src/                 *)
(* DeferredListItem.tsx.  The engine is external: "Moving, the trigger     *)
(* order is uncertain", says list.ts of its two callbacks.  The order of   *)
(* the items plays no role here; it is the subject of ListUpdate.          *)
(***************************************************************************)
EXTENDS Integers, Sequences, SequencesExt

CONSTANTS
  Items,
  Types,       \* the type of every item, a function
  ReuseIds,    \* the reuse-identifiers of the items to consider, a set of functions
  Deferred,    \* the items with "defer"
  MaxUpdates,  \* bound on hydrations of the list and moves of an item on the screen
  MaxEvents    \* bound on events on their way to the background thread

ASSUME ConstantsAssumption ==
  /\ Types \in [Items -> STRING \ {"undefined"}] /\ ReuseIds \subseteq [Items -> STRING]
  /\ Deferred \subseteq Items
  /\ MaxUpdates \in Nat /\ MaxEvents \in Nat

VARIABLES
  reuseId,      \* the reuse-identifier of every item, "none" when it has none, fixed by the app
  unmount,      \* defer.unmountRecycled, fixed by the app
  \* main thread
  items,        \* the items in the list
  generation,   \* hydrations so far: each gives every item a new SnapshotInstance
  elements,     \* the __element_root of the instances that have one
  signMap,      \* gSignMap of the list
  recycleMap,   \* gRecycleMap of the list, in the order of insertion
  isReady,      \* __extraProps.isReady: 0, "promise" or 1 (1 without "defer")
  created,      \* signs given out
  \* engine
  screen,       \* pairs <<sign, item>> shown
  leaving,      \* elements of items that moved away or were removed, to be given back
  \* background thread
  mounted,      \* the items whose component is mounted
  rendered,     \* the state isReady of the component of every deferred item
  \* channels
  toBackground, toMain,
  \* bounds
  moves

mainVars == <<items, generation, elements, signMap, recycleMap, isReady, created>>
engineVars == <<screen, leaving>>
bgVars == <<mounted, rendered>>
vars == <<reuseId, unmount, mainVars, engineVars, bgVars, toBackground, toMain, moves>>

Signs == 1..created

Put(f, x, v) == [y \in DOMAIN f \cup {x} |-> IF y = x THEN v ELSE f[y]]
Drop(f, x) == [y \in DOMAIN f \ {x} |-> f[y]]

\* A SnapshotInstance is named by its item, the hydration it comes from, and, if it is a
\* clone that takeElements made, the element it took (0: not a clone).
Ctx(i) == <<i, generation, 0>>
IsClone(c) == c[3] # 0
CloneOf(i, s) == <<i, generation, s>>

\* The key of recycleMap.  takeElements gives a clone neither the type nor the platform info
\* of its item, so all clones have a key that no item has.
ClonePool == <<"undefined", "none">>
ItemPools == {<<Types[i], r>> : i \in Items, r \in {"none"} \cup {reuseId[j] : j \in Items}}
Pools == ItemPools \cup {ClonePool}
uniqID(c) == IF IsClone(c) THEN ClonePool ELSE <<Types[c[1]], reuseId[c[1]]>>

Pooled(p) == {e.sign : e \in ToSet(recycleMap[p])}
Entry(s, c) == [sign |-> s, ctx |-> c]

\* Map.prototype.set: a key that is there keeps its place.
PoolSet(p, s, c) ==
  [recycleMap EXCEPT ![p] =
    IF s \in Pooled(p)
    THEN [n \in DOMAIN @ |-> IF @[n].sign = s THEN Entry(s, c) ELSE @[n]]
    ELSE Append(@, Entry(s, c))]
PoolDelete(p, s) ==
  [recycleMap EXCEPT ![p] = RemoveAt(@, CHOOSE n \in DOMAIN @ : @[n].sign = s)]

Init ==
  /\ reuseId \in ReuseIds /\ unmount \in BOOLEAN
  /\ items = Items /\ generation = 0
  /\ elements = <<>> /\ signMap = <<>> /\ recycleMap = [p \in Pools |-> <<>>]
  /\ isReady = [i \in Items |-> IF i \in Deferred THEN "0" ELSE "1"]
  /\ created = 0 /\ screen = {} /\ leaving = {}
  /\ mounted = Items /\ rendered = [i \in Deferred |-> FALSE]
  /\ toBackground = <<>> /\ toMain = <<>> /\ moves = 0

-----------------------------------------------------------------------------
(* componentAtChildCtx, for an item that is ready *)

HasElements(c) == c \in DOMAIN elements
OwnIsPooled(i) == HasElements(Ctx(i)) /\ elements[Ctx(i)] \in Pooled(uniqID(Ctx(i)))

\* The item gets back the element that it has given up.
ReuseItself(i) ==
  /\ OwnIsPooled(i)
  /\ LET s == elements[Ctx(i)]
     IN  /\ signMap' = Put(signMap, s, Ctx(i))
         /\ recycleMap' = PoolDelete(uniqID(Ctx(i)), s)
         /\ screen' = screen \cup {<<s, i>>}
  /\ UNCHANGED <<elements, created, toBackground>>

\* takeElements: an element that is still in use is left to a clone.
ElementsTaken(i) ==
  IF HasElements(Ctx(i))
  THEN Put(Drop(elements, Ctx(i)), CloneOf(i, elements[Ctx(i)]), elements[Ctx(i)])
  ELSE elements
SignsKept(i) == signMap
SignsTaken(i) ==
  IF HasElements(Ctx(i))
  THEN Put(signMap, elements[Ctx(i)], CloneOf(i, elements[Ctx(i)]))
  ELSE signMap

\* hydrate(old, ctx), then old.unRenderElements().
HydratedSharing(e, old, c) == IF old \in DOMAIN e THEN Put(e, c, e[old]) ELSE Drop(e, c)
Hydrated(e, old, c) ==
  Drop(IF old \in DOMAIN e THEN Put(e, c, e[old]) ELSE Drop(e, c), old)

\* The item whose element is taken loses its content, if it is still in the list.
IsUnmountable(c) == c[1] \in items \cap Deferred /\ c = Ctx(c[1]) /\ isReady[c[1]] = "1"
Event(name, i) == [name |-> name, item |-> i]
RecycleEvents(c) == IF IsUnmountable(c) THEN <<Event("onRecycleComponent", c[1])>> ELSE <<>>

ReuseOther(i) ==
  /\ ~OwnIsPooled(i) /\ recycleMap[uniqID(Ctx(i))] # <<>>
  /\ LET first == Head(recycleMap[uniqID(Ctx(i))])
     IN  /\ recycleMap' = PoolDelete(uniqID(Ctx(i)), first.sign)
         /\ elements' = Hydrated(ElementsTaken(i), first.ctx, Ctx(i))
         /\ signMap' = Put(SignsTaken(i), first.sign, Ctx(i))
         /\ toBackground' = toBackground \o RecycleEvents(first.ctx)
         /\ screen' = screen \cup {<<first.sign, i>>}
  /\ UNCHANGED created

CreateElement(i) ==
  /\ ~OwnIsPooled(i) /\ recycleMap[uniqID(Ctx(i))] = <<>>
  /\ created' = created + 1
  /\ elements' = Put(ElementsTaken(i), Ctx(i), created + 1)
  /\ signMap' = Put(SignsTaken(i), created + 1, Ctx(i))
  /\ screen' = screen \cup {<<created + 1, i>>}
  /\ UNCHANGED <<recycleMap, toBackground>>

Provide(i) == ReuseItself(i) \/ ReuseOther(i) \/ CreateElement(i)

-----------------------------------------------------------------------------
(* The callbacks of the engine *)

OnScreen(i) == \E p \in screen : p[2] = i

\* A deferred item is asked of the background thread first.
RequestsOnce(i) == IF HasElements(Ctx(i)) THEN <<>> ELSE <<Event("onComponentAtIndex", i)>>
Requests(i) == <<Event("onComponentAtIndex", i)>>

AskForContent(i) ==
  /\ i \in items /\ ~OnScreen(i) /\ isReady[i] = "0" /\ Len(toBackground) < MaxEvents
  /\ isReady' = [isReady EXCEPT ![i] = "promise"]
  /\ toBackground' = toBackground \o Requests(i)
  /\ UNCHANGED <<reuseId, unmount, items, generation, elements, signMap, recycleMap, created,
                 engineVars, bgVars, toMain, moves>>

\* The engine does not ask again for an item that it has been promised.
MayProvideUnready(i) == isReady[i] # "promise"
MayProvide(i) == isReady[i] = "1"

componentAtIndex(i) ==
  /\ i \in items /\ ~OnScreen(i) /\ MayProvide(i) /\ Len(toBackground) < MaxEvents
  /\ Provide(i)
  /\ UNCHANGED <<reuseId, unmount, items, generation, isReady, leaving, bgVars, toMain, moves>>

\* What enqueueComponent does with an element that no instance is known for: nothing.
enqueueComponent(s) ==
  /\ s \in leaving \/ \E p \in screen : p[1] = s
  /\ screen' = {p \in screen : p[1] # s} /\ leaving' = leaving \ {s}
  /\ recycleMap' = IF s \in DOMAIN signMap
                   THEN PoolSet(uniqID(signMap[s]), s, signMap[s]) ELSE recycleMap
  /\ UNCHANGED <<reuseId, unmount, items, generation, elements, signMap, isReady, created,
                 bgVars, toBackground, toMain, moves>>

Leave(i) ==
  /\ screen' = {p \in screen : p[2] # i}
  /\ leaving' = leaving \cup {p[1] : p \in {q \in screen : q[2] = i}}

\* An update moves an item: the engine asks for it anew, and gives the element it
\* shows back before or after that.
Move(i) ==
  /\ i \in items /\ OnScreen(i) /\ generation + moves < MaxUpdates
  /\ moves' = moves + 1
  /\ Leave(i)
  /\ UNCHANGED <<reuseId, unmount, mainVars, bgVars, toBackground, toMain>>

-----------------------------------------------------------------------------
(* hydrate of the list: an update before the first screen is synced, a reload, or an *)
(* item of another list that holds this list and is reused. *)

\* The pools that hydrate keeps up to date are found by the type alone.
HydratesPool(p, c) == p = <<Types[c[1]], "none">>

\* The instance that takes the place of c in the new list.
Renewed(c) == <<c[1], generation + 1, 0>>

Hydrate ==
  /\ generation + moves < MaxUpdates
  /\ \A i \in Deferred : isReady[i] = "0"
  /\ generation' = generation + 1
  /\ LET transferred == {Ctx(i) : i \in {j \in items : HasElements(Ctx(j))}}
         heirs(s) == {c \in transferred : elements[c] = s}
         poolHeirs(p, s) == {c \in heirs(s) : HydratesPool(p, c)}
     IN  /\ elements' = [c \in DOMAIN elements \cup {Renewed(x) : x \in transferred} |->
              IF c \in DOMAIN elements THEN elements[c] ELSE elements[Ctx(c[1])]]
         /\ signMap' = [s \in DOMAIN signMap |->
              IF heirs(s) = {} THEN signMap[s] ELSE Renewed(CHOOSE c \in heirs(s) : TRUE)]
         /\ recycleMap' = [p \in Pools |-> [n \in DOMAIN recycleMap[p] |->
              LET e == recycleMap[p][n]
              IN  IF poolHeirs(p, e.sign) = {} THEN e
                  ELSE Entry(e.sign, Renewed(CHOOSE c \in poolHeirs(p, e.sign) : TRUE))]]
  /\ UNCHANGED <<reuseId, unmount, items, isReady, created, engineVars, bgVars, toBackground,
                 toMain, moves>>

-----------------------------------------------------------------------------
(* The background thread (DeferredListItem) and its patches *)

Patch(kind, i) == [kind |-> kind, item |-> i]

\* A new state is rendered and committed; a state that is the same is not.
Rerender(i, ready) ==
  /\ rendered' = [rendered EXCEPT ![i] = ready]
  /\ toMain' = IF rendered[i] = ready THEN toMain
               ELSE Append(toMain, Patch(IF ready THEN "ready" ELSE "unready", i))

HasHandlers(i) == i \in mounted

ReceiveEvent ==
  /\ toBackground # <<>> /\ toBackground' = Tail(toBackground)
  /\ LET e == Head(toBackground)
     IN  CASE HasHandlers(e.item) /\ e.name = "onComponentAtIndex" -> Rerender(e.item, TRUE)
           [] HasHandlers(e.item) /\ e.name = "onRecycleComponent" /\ unmount ->
                Rerender(e.item, FALSE)
           [] OTHER -> UNCHANGED <<rendered, toMain>>
  /\ UNCHANGED <<reuseId, unmount, mainVars, engineVars, mounted, moves>>

\* The app removes an item, whose handlers are deleted.
HandlersKept(i) == mounted
HandlersDeleted(i) == mounted \ {i}

Unmount(i) ==
  /\ i \in mounted /\ mounted' = HandlersDeleted(i)
  /\ toMain' = Append(toMain, Patch("remove", i))
  /\ UNCHANGED <<reuseId, unmount, mainVars, engineVars, rendered, toBackground, moves>>

NextPatch(kind) == toMain # <<>> /\ Head(toMain).kind = kind /\ toMain' = Tail(toMain)

\* The setter of isReady resolves the promise, and the continuation provides the element.
ReceiveReady ==
  /\ NextPatch("ready")
  /\ LET i == Head(toMain).item
     IN  /\ isReady' = [isReady EXCEPT ![i] = "1"]
         /\ IF isReady[i] = "promise"
            THEN Provide(i)
            ELSE UNCHANGED <<elements, signMap, recycleMap, created, screen, toBackground>>
  /\ UNCHANGED <<reuseId, unmount, items, generation, leaving, bgVars, moves>>

\* The setter of a pending item ignores every other value.
UnreadyState(i) == IF isReady[i] = "promise" THEN "promise" ELSE "0"

ReceiveUnready ==
  /\ NextPatch("unready")
  /\ isReady' = [isReady EXCEPT ![Head(toMain).item] = UnreadyState(Head(toMain).item)]
  /\ UNCHANGED <<reuseId, unmount, items, generation, elements, signMap, recycleMap, created,
                 engineVars, bgVars, toBackground, moves>>

\* removeChild of the list: the instance keeps its elements until they are reused.
ReceiveRemove ==
  /\ NextPatch("remove")
  /\ items' = items \ {Head(toMain).item}
  /\ Leave(Head(toMain).item)
  /\ UNCHANGED <<reuseId, unmount, generation, elements, signMap, recycleMap, isReady, created,
                 bgVars, toBackground, moves>>

-----------------------------------------------------------------------------
Next ==
  \/ \E i \in Items : AskForContent(i) \/ componentAtIndex(i) \/ Move(i) \/ Unmount(i)
  \/ \E s \in Signs : enqueueComponent(s)
  \/ Hydrate \/ ReceiveEvent \/ ReceiveReady \/ ReceiveUnready \/ ReceiveRemove

Spec == Init /\ [][Next]_vars

\* Both threads run their queues.
Fairness ==
  /\ WF_vars(ReceiveEvent)
  /\ WF_vars(ReceiveReady) /\ WF_vars(ReceiveUnready) /\ WF_vars(ReceiveRemove)

FairSpec == Spec /\ Fairness

-----------------------------------------------------------------------------
(* Properties *)

Ctxs == Items \X (0..generation) \X (0..created)

TypeOK ==
  /\ items \subseteq Items /\ generation \in 0..MaxUpdates /\ created \in Nat
  /\ DOMAIN elements \subseteq Ctxs /\ \A c \in DOMAIN elements : elements[c] \in Signs
  /\ DOMAIN signMap \subseteq Signs /\ \A s \in DOMAIN signMap : signMap[s] \in Ctxs
  /\ \A p \in Pools : \A e \in ToSet(recycleMap[p]) : e.sign \in Signs /\ e.ctx \in Ctxs
  /\ isReady \in [Items -> {"0", "promise", "1"}]
  /\ screen \subseteq Signs \X Items /\ leaving \subseteq Signs
  /\ mounted \subseteq items /\ rendered \in [Deferred -> BOOLEAN]
  /\ moves \in 0..MaxUpdates

\* The instances that the runtime can still reach.
Reachable ==
  {Ctx(i) : i \in items} \cup {signMap[s] : s \in DOMAIN signMap}
  \cup UNION {{e.ctx : e \in ToSet(recycleMap[p])} : p \in Pools}

\* hydrate of the list leaves the pools of items with a reuse-identifier as they are.
PoolsFollow == generation = 0 \/ \A i \in Items : reuseId[i] = "none"

\* No element has two instances.
OneOwner == \A c, d \in Reachable \cap DOMAIN elements : elements[c] = elements[d] => c = d

\* The element in the cell of an item is that of the item's instance, in the tree and in
\* the table of signs.
ScreenShowsItems ==
  \A p \in screen : p[2] \in items =>
    signMap[p[1]] = Ctx(p[2]) /\ HasElements(Ctx(p[2])) /\ elements[Ctx(p[2])] = p[1]

\* What is written for one item lands in the element that the screen shows for it and in
\* no other, whatever is moved, given back late, removed or hydrated.
ElementsFollowItems == PoolsFollow => OneOwner /\ ScreenShowsItems

\* A pool holds each element once, with the instance it belongs to, and none that is
\* still on the screen or may be: it would turn blank there when it is reused.  And an
\* element is on the screen, about to be given back, or in a pool where items look for one,
\* unless an item was asked for anew before it was given back: the clone that has it then
\* takes it to a pool of its own, and it is not used again.
PoolsAreIdle ==
  PoolsFollow =>
    /\ \A p, q \in Pools : \A e \in ToSet(recycleMap[p]), f \in ToSet(recycleMap[q]) :
         /\ e.sign = f.sign => p = q /\ e = f
         /\ e.sign \notin leaving /\ \A x \in screen : x[1] # e.sign
         /\ HasElements(e.ctx) /\ elements[e.ctx] = e.sign
    /\ \A s \in Signs :
         \/ s \in leaving \/ \E x \in screen : x[1] = s
         \/ \E p \in ItemPools : s \in Pooled(p)
         \/ IsClone(signMap[s])

\* A deferred item is shown with its content.
ShownWithContent == \A x \in screen : x[2] \in items => isReady[x[2]] = "1"
\* ... as long as content is not unmounted again.
KeptContentIsShown == ~unmount => ShownWithContent

\* The engine is answered: an item that waits for its content is shown with it, unless it
\* is removed, whatever was recycled, unmounted and asked for again in the meantime.
AskedIsAnswered ==
  \A i \in Deferred : isReady[i] = "promise" ~> (OnScreen(i) \/ i \notin items)
=============================================================================
