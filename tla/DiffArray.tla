------------------------------ MODULE DiffArray ------------------------------
(***************************************************************************)
(* The diff of two lists of siblings that hydration is built on:           *)
(* diffArrayLepus matches the new list against the old one, and            *)
(* diffArrayAction walks both and tells its caller which elements to       *)
(* remove, move and insert.  The caller's list of child elements is part   *)
(* of the model: the operations must turn it into the new list.            *)
(*                                                                         *)
(* The code is packages/react/runtime/src/snapshot/renderToOpcodes/        *)
(* hydrate.ts.  Positions count from 1 here.  An element of the old list   *)
(* is named by its position, the element built for position i of the new   *)
(* list by -i.                                                             *)
(***************************************************************************)
EXTENDS Integers, Sequences, FiniteSets, SequencesExt

CONSTANTS
  Keys, Types,
  Inputs  \* pairs <<before, after>> of lists of children

Nodes == [key : Keys, type : Types]

ASSUME InputsAssumption == Inputs \subseteq Seq(Nodes) \X Seq(Nodes)

VARIABLES
  before, after,
  phase,       \* "match": diffArrayLepus, "act": diffArrayAction, "done"
  next,        \* the new position that diffArrayLepus looks at
  lastPlaced,  \* lastPlacedIndex
  unmatched,   \* the old positions left in beforeMap
  matches,     \* calls of onDiffChildren, as pairs <<old, new>>
  diffI,       \* diffResult.i: new positions to insert
  diffM,       \* diffResult.m: old positions to move, as pairs <<old, new>>
  i, j,        \* positions in the new and in the old list
  moveTemp,    \* moveTempMap, as pairs <<new, old>>
  remain,      \* insertions and moves still to do
  result,      \* the list diffArrayAction returns
  children     \* the caller's elements

inputs == <<before, after>>
diffVars == <<next, lastPlaced, unmatched, matches, diffI, diffM>>
actionVars == <<i, j, moveTemp, remain, result, children>>
vars == <<inputs, phase, diffVars, actionVars>>

Undefined == 0

Init ==
  /\ \E p \in Inputs : before = p[1] /\ after = p[2]
  /\ phase = "match"
  /\ next = 1 /\ lastPlaced = 1 /\ unmatched = DOMAIN before
  /\ matches = {} /\ diffI = {} /\ diffM = {}
  /\ i = 1 /\ j = 1 /\ moveTemp = {} /\ remain = 0
  /\ result = <<>> /\ children = [b \in DOMAIN before |-> b]

-----------------------------------------------------------------------------
(* diffArrayLepus *)

Latest(S) == {b \in S : \A c \in S : c <= b}
Earliest(S) == {b \in S : \A c \in S : b <= c}

SameType(b) == before[b].type = after[next].type

\* Of the old elements with the key of the next new one the first is tried.
Candidate == Earliest({b \in unmatched : before[b].key = after[next].key})
Match == {b \in Candidate : SameType(b)}

MovedNever(b) == FALSE

\* An element that stays behind one already placed has to move.
MustMove(b) == b < lastPlaced

Reuse ==
  /\ phase = "match" /\ next <= Len(after)
  /\ \E b \in Match :
         /\ unmatched' = unmatched \ {b}
         /\ matches' = matches \cup {<<b, next>>}
         /\ IF MustMove(b)
            THEN diffM' = diffM \cup {<<b, next>>} /\ UNCHANGED lastPlaced
            ELSE lastPlaced' = b /\ UNCHANGED diffM
  /\ next' = next + 1
  /\ UNCHANGED <<inputs, phase, diffI, actionVars>>

CreateNew ==
  /\ phase = "match" /\ next <= Len(after)
  /\ Match = {}
  /\ diffI' = diffI \cup {next}
  /\ next' = next + 1
  /\ UNCHANGED <<inputs, phase, lastPlaced, unmatched, matches, diffM, actionVars>>

\* The old elements left over are diffResult.r; an empty diff leaves the list as it is.
diffR == unmatched
isEmptyDiffResult == diffI = {} /\ diffM = {} /\ diffR = {}

\* A move is counted when its element is saved.
InitialRemain == Cardinality(diffI)

BeginAction ==
  /\ phase = "match" /\ next = Len(after) + 1
  /\ remain' = InitialRemain
  /\ IF isEmptyDiffResult
     THEN phase' = "done" /\ result' = children
     ELSE phase' = "act" /\ UNCHANGED result
  /\ UNCHANGED <<inputs, diffVars, i, j, moveTemp, children>>

-----------------------------------------------------------------------------
(* diffArrayAction: one step for each turn of its loop *)

Old == j <= Len(before)
Looping == phase = "act" /\ (Old \/ remain > 0)
Deleted == Old /\ j \in diffR
Saved == Old /\ ~Deleted /\ \E m \in diffM : m[1] = j
Placing == Looping /\ ~Deleted /\ ~Saved
Reused == {m[2] : m \in {p \in moveTemp : p[1] = i}}

Without(s, x) ==
  IF x \in ToSet(s) THEN RemoveAt(s, CHOOSE p \in DOMAIN s : s[p] = x) ELSE s

\* The list with x before y, or last when y is undefined.
InsertedBefore(s, x, y) ==
  LET t == Without(s, x)
  IN  IF y \in ToSet(t) THEN InsertAt(t, CHOOSE p \in DOMAIN t : t[p] = y, x) ELSE Append(t, x)
Target == IF Old THEN j ELSE Undefined

Delete ==
  /\ Looping /\ Deleted
  /\ children' = Without(children, j)
  /\ j' = j + 1
  /\ UNCHANGED <<inputs, phase, diffVars, i, moveTemp, remain, result>>

SaveNode ==
  /\ Looping /\ Saved
  /\ moveTemp' = moveTemp \cup {<<m[2], j>> : m \in {p \in diffM : p[1] = j}}
  /\ remain' = remain + 1
  /\ j' = j + 1
  /\ UNCHANGED <<inputs, phase, diffVars, i, result, children>>

PlaceMoved ==
  /\ Placing /\ Reused # {}
  /\ \E node \in Reused :
         /\ children' = InsertedBefore(children, node, Target)
         /\ result' = Append(result, node)
  /\ remain' = remain - 1
  /\ i' = i + 1
  /\ UNCHANGED <<inputs, phase, diffVars, j, moveTemp>>

InsertNew ==
  /\ Placing /\ Reused = {} /\ i \in diffI
  /\ children' = InsertedBefore(children, -i, Target)
  /\ result' = Append(result, -i)
  /\ remain' = remain - 1
  /\ i' = i + 1
  /\ UNCHANGED <<inputs, phase, diffVars, j, moveTemp>>

\* Neither moved nor new: the old element, which may be undefined, keeps its place.
Keep ==
  /\ Placing /\ Reused = {} /\ i \notin diffI
  /\ result' = Append(result, Target)
  /\ i' = i + 1
  /\ j' = IF Old THEN j + 1 ELSE j
  /\ UNCHANGED <<inputs, phase, diffVars, moveTemp, remain, children>>

Return ==
  /\ phase = "act" /\ ~Looping
  /\ phase' = "done"
  /\ UNCHANGED <<inputs, diffVars, actionVars>>

-----------------------------------------------------------------------------
(* A list is hydrated by the diff alone: what changes is sent as positions. *)

OnlyDeleted == diffR
removals == diffR \cup {m[1] : m \in diffM}
insertions == diffI \cup {m[2] : m \in diffM}

-----------------------------------------------------------------------------
Next ==
  \/ Reuse \/ CreateNew \/ BeginAction
  \/ Delete \/ SaveNode \/ PlaceMoved \/ InsertNew \/ Keep \/ Return

Spec == Init /\ [][Next]_vars

-----------------------------------------------------------------------------
(* Properties *)

\* The element for position n of the new list: the old one it matches, or a new one.
Wanted(n) ==
  IF \E m \in matches : m[2] = n THEN (CHOOSE m \in matches : m[2] = n)[1] ELSE -n

\* The native list when it has removed what it must of the first old positions ...
Remaining[b \in 0..Len(before)] ==
  IF b = 0 THEN <<>>
  ELSE IF b \in removals THEN Remaining[b - 1] ELSE Append(Remaining[b - 1], b)
\* ... of all of them, and filled the first new ones.
NativeList[n \in 0..Len(after)] ==
  IF n = 0 THEN Remaining[Len(before)]
  ELSE IF n \in insertions THEN InsertAt(NativeList[n - 1], n, Wanted(n)) ELSE NativeList[n - 1]

\* In the end the caller's elements, and the list returned, are the new list: every
\* matched element is at its new place, the new ones are between them, the rest is gone.
\* An old element is matched once, with one of its key and type, and the loop never runs
\* past the old list looking for an element to keep.
BecomesAfter ==
  /\ phase = "done" =>
       /\ children = [n \in DOMAIN after |-> Wanted(n)]
       /\ result = children
  /\ Undefined \notin ToSet(result)
  /\ \A m, p \in matches :
       /\ before[m[1]] = after[m[2]]
       /\ m[1] = p[1] \/ m[2] = p[2] => m = p

\* The native list that removes the old positions and then fills the new ones, in ascending
\* order, has the items of the new list at their places.
NativeListBecomesAfter ==
  phase # "match" => NativeList[Len(after)] = [n \in DOMAIN after |-> Wanted(n)]

\* Lists that match pairwise by key and type give an empty diff and the pairwise
\* match, which is why hydration may skip the diff for them.
FastPathAgrees ==
  phase # "match" /\ before = after =>
    isEmptyDiffResult /\ matches = {<<n, n>> : n \in DOMAIN before}
=============================================================================
