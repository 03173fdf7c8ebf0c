------------------------------- MODULE ListUpdate -------------------------------
(***************************************************************************)
(* What the native <list> is told of its items.  A list of the main thread *)
(* does not put the elements of its items into the page; it records what a *)
(* patch does to its children (ListUpdateInfoRecording) and, when the      *)
(* patch has been applied, sends the record as positions to remove, insert *)
(* and update ("update-list-info").  The native list must then have one    *)
(* place for every child, in their order: it asks for an item by its       *)
(* place.  A list nested in an item that has not been shown yet has no     *)
(* element; its record waits until the element is made.                    *)
(*                                                                         *)
(* The code is packages/react/runtime/src/snapshot/list/listUpdateInfo.ts  *)
(* and pendingListUpdates.ts, and the list branches of SnapshotInstance    *)
(* (snapshot/snapshot.ts).  The native list is external; what the web's    *)
(* does is in web-core, elementAPIs/createElementAPI.ts.  Positions count  *)
(* from 1.                                                                 *)
(***************************************************************************)
EXTENDS Integers, Sequences, FiniteSets, SequencesExt

CONSTANTS
  LateChanges,  \* do items change while the list has no element?
  MaxItems,     \* bound on the items ever created
  MaxUpdates,   \* bound on the items updated by a patch
  MaxPatches    \* bound on patches

ASSUME ConstantsAssumption ==
  /\ LateChanges \in BOOLEAN
  /\ MaxItems \in Nat /\ MaxUpdates \in Nat /\ MaxPatches \in Nat

VARIABLES
  childNodes,   \* the list's children; an item is named by its order of creation
  created,      \* items created
  attached,     \* the list has its element
  recording,    \* __pendingListUpdates.values[list.__id], Nothing when there is none
  placed,       \* children inserted or moved by the patch being applied
  patches,      \* patches finished
  engine        \* the items of the native list

vars == <<childNodes, created, attached, recording, placed, patches, engine>>

Items == 1..MaxItems
Children == ToSet(childNodes)
AtEnd == 0

Recorded(old) ==
  [old |-> old,                      \* oldChildNodes
   removeChild |-> {}, insertBefore |-> [c \in Items |-> <<>>], appendChild |-> <<>>,
   platformInfoUpdate |-> {}]
Nothing == Recorded(<<-1>>)
Recording == IF recording = Nothing THEN Recorded(childNodes) ELSE recording

-----------------------------------------------------------------------------
(* ListUpdateInfoRecording *)

onInsertBefore(r, c, hasParent, before) ==
  [r EXCEPT !.removeChild = IF hasParent THEN @ \cup {c} ELSE @,
            !.insertBefore = IF before = AtEnd THEN @
                             ELSE [r.insertBefore EXCEPT ![before] = Append(@, c)],
            !.appendChild = IF before = AtEnd THEN Append(@, c) ELSE @]

onRemoveChild(r, c) == [r EXCEPT !.removeChild = @ \cup {c}]
onSetAttribute(r, c) == [r EXCEPT !.platformInfoUpdate = @ \cup {c}]

\* __toAttribute: the walk over the old children, with j the place after those before p.
Inserted(r, p) == Len(r.insertBefore[r.old[p]])
IsRemoved(r, p) == r.old[p] \in r.removeChild

RemovalsNotCounted(r, p) ==
  LET place[q \in 1..(Len(r.old) + 1)] ==
        IF q = 1 THEN 1 ELSE place[q - 1] + Inserted(r, q - 1) + 1
  IN  place[p]
PlaceOf(r, p) ==
  LET place[q \in 1..(Len(r.old) + 1)] ==
        IF q = 1 THEN 1
        ELSE place[q - 1] + Inserted(r, q - 1) + (IF IsRemoved(r, q - 1) THEN 0 ELSE 1)
  IN  place[p]
PlaceAfter(r) == PlaceOf(r, Len(r.old) + 1)

removeAction(r) == {p \in DOMAIN r.old : IsRemoved(r, p)}

InsertedBefore(r, p) ==
  {[position |-> PlaceOf(r, p) + n - 1, item |-> r.insertBefore[r.old[p]][n]] :
     n \in 1..Inserted(r, p)}
Appended(r) ==
  {[position |-> PlaceAfter(r) + n - 1, item |-> r.appendChild[n]] : n \in DOMAIN r.appendChild}
insertAction(r) == Appended(r) \cup UNION {InsertedBefore(r, p) : p \in DOMAIN r.old}

UpdateAtOldPlace(r, p) == PlaceOf(r, p)
UpdatePosition(r, p) == PlaceOf(r, p) + Inserted(r, p)

\* The native list: the old positions are removed, the new ones, sorted, are inserted one
\* by one; a position that is not there is ignored, or is the end.
Kept(list, r) ==
  LET kept[n \in 0..Len(list)] ==
        IF n = 0 THEN <<>>
        ELSE IF n \in removeAction(r) THEN kept[n - 1] ELSE Append(kept[n - 1], list[n])
  IN  kept[Len(list)]
At(r, n) == {a \in insertAction(r) : a.position = n}
Inserting(list, r, n) ==
  IF At(r, n) = {} THEN list
  ELSE LET item == (CHOOSE a \in At(r, n) : TRUE).item
       IN  IF n > Len(list) THEN Append(list, item) ELSE InsertAt(list, n, item)
Applied(list, r) ==
  LET last == PlaceAfter(r) + Len(r.appendChild) - 1
      filled[n \in 0..last] == IF n = 0 THEN Kept(list, r) ELSE Inserting(filled[n - 1], r, n)
  IN  filled[last]

-----------------------------------------------------------------------------
(* A patch is applied to the list *)

StillThere(c) == childNodes
Without(c) == RemoveAt(childNodes, CHOOSE n \in DOMAIN childNodes : childNodes[n] = c)
With(s, c, before) ==
  IF before = AtEnd THEN Append(s, c)
  ELSE InsertAt(s, CHOOSE n \in DOMAIN s : s[n] = before, c)

\* The renderer walks the new children and puts each before an old one that it has not
\* come to yet.
Untouched == Children \ placed

\* Without late changes an element-less list is only filled, when it is first rendered.
MayChange == patches < MaxPatches /\ (attached \/ LateChanges)
MayFill == patches < MaxPatches /\ ~attached /\ (recording = Nothing => childNodes = <<>>)
                                /\ (recording # Nothing => recording.old = <<>>)

InsertNew(before) ==
  /\ MayChange \/ (MayFill /\ before = AtEnd)
  /\ created < MaxItems /\ before \in Untouched \cup {AtEnd}
  /\ created' = created + 1 /\ placed' = placed \cup {created'}
  /\ recording' = onInsertBefore(Recording, created', FALSE, before)
  /\ childNodes' = With(childNodes, created', before)
  /\ UNCHANGED <<attached, patches, engine>>

Move(c, before) ==
  /\ MayChange
  /\ c \in Untouched /\ before \in (Untouched \cup {AtEnd}) \ {c}
  /\ placed' = placed \cup {c}
  /\ recording' = onInsertBefore(Recording, c, TRUE, before)
  /\ childNodes' = With(Without(c), c, before)
  /\ UNCHANGED <<created, attached, patches, engine>>

removeChild(c) ==
  /\ MayChange /\ c \in Untouched
  /\ recording' = onRemoveChild(Recording, c)
  /\ childNodes' = Without(c)
  /\ UNCHANGED <<created, attached, placed, patches, engine>>

\* The platform info of an item changes (updateListItemPlatformInfo).
setAttribute(c) ==
  /\ MayChange /\ c \in Children /\ c \notin Recording.platformInfoUpdate
  /\ Cardinality(Recording.platformInfoUpdate) < MaxUpdates
  /\ recording' = onSetAttribute(Recording, c)
  /\ UNCHANGED <<childNodes, created, attached, placed, patches, engine>>

\* The end of updateMainThread for one patch: __pendingListUpdates.flush.
flush ==
  /\ patches < MaxPatches /\ patches' = patches + 1 /\ placed' = {}
  /\ IF attached /\ recording # Nothing
     THEN engine' = Applied(engine, recording) /\ recording' = Nothing
     ELSE UNCHANGED <<engine, recording>>
  /\ UNCHANGED <<childNodes, created, attached>>

-----------------------------------------------------------------------------
(* Between patches the item that holds the list is shown or recycled *)

\* What ensureElements records for a list of which nothing is recorded.
Everything == [Recorded(childNodes) EXCEPT !.removeChild = Children, !.appendChild = childNodes]

\* The item is shown in an element of its own: ensureElements, then flushWithId.
ensureElements ==
  /\ ~attached /\ placed = {}
  /\ attached' = TRUE
  /\ LET r == IF recording = Nothing THEN Everything ELSE recording
     IN  engine' = Applied(<<>>, r)
  /\ recording' = Nothing
  /\ UNCHANGED <<childNodes, created, placed, patches>>

\* It is shown in the element of another item: hydrate sends the difference between the
\* lists of both (DiffArray), and forgets what is recorded of this one.
hydrate ==
  /\ ~attached /\ placed = {}
  /\ attached' = TRUE /\ engine' = childNodes /\ recording' = Nothing
  /\ UNCHANGED <<childNodes, created, placed, patches>>

\* Its element is taken for another item.
unRenderElements ==
  /\ attached /\ placed = {} /\ recording = Nothing
  /\ attached' = FALSE /\ engine' = <<>>
  /\ UNCHANGED <<childNodes, created, recording, placed, patches>>

-----------------------------------------------------------------------------
Init ==
  /\ childNodes = <<>> /\ created = 0 /\ attached = FALSE /\ recording = Nothing
  /\ placed = {} /\ patches = 0 /\ engine = <<>>

Next ==
  \/ \E b \in Items \cup {AtEnd} : InsertNew(b) \/ \E c \in Items : Move(c, b)
  \/ \E c \in Items : removeChild(c) \/ setAttribute(c)
  \/ flush \/ ensureElements \/ hydrate \/ unRenderElements

Spec == Init /\ [][Next]_vars

-----------------------------------------------------------------------------
(* Properties *)

TypeOK ==
  /\ attached \in BOOLEAN
  /\ created \in 0..MaxItems /\ patches \in 0..MaxPatches
  /\ \A s \in {childNodes, engine, recording.appendChild} : ToSet(s) \subseteq 1..created
  /\ IsInjective(childNodes)
  /\ placed \subseteq Children
  /\ recording # Nothing =>
       /\ recording.removeChild \cup recording.platformInfoUpdate \subseteq 1..created
       /\ \A c \in Items : ToSet(recording.insertBefore[c]) \subseteq 1..created

\* The native list has one place for every child of the list, in the same order, whatever
\* patches insert, move and remove and however often the list gets and loses its element:
\* an item it asks for is there, and is the one that belongs to the place.
NativeShowsItems == attached /\ recording = Nothing => engine = childNodes

\* The new platform info of an item that stays where it is reaches this item, whatever is
\* inserted, moved or removed around it in the same patch.
UpdatesReachTheirItem ==
  attached /\ recording # Nothing => \A p \in DOMAIN recording.old :
    recording.old[p] \in recording.platformInfoUpdate \ recording.removeChild =>
      /\ UpdatePosition(recording, p) \in DOMAIN childNodes
      /\ childNodes[UpdatePosition(recording, p)] = recording.old[p]
=============================================================================
