---------------------------- MODULE SnapshotPatch ----------------------------
(***************************************************************************)
(* The tree of a ReactLynx page after (and just before) hydration.  The    *)
(* background thread renders into a tree of BackgroundSnapshotInstances;   *)
(* every operation on it appends to __globalSnapshotPatch, every commit    *)
(* sends the patch to the main thread, which replays it on its tree of     *)
(* SnapshotInstances.  A removed instance stays registered on the          *)
(* background thread until ten seconds after the main thread acknowledged  *)
(* the patch that removes it; one that Suspense keeps is built anew on the *)
(* main thread when it comes back.                                         *)
(*                                                                         *)
(* The code is packages/react/runtime/src/snapshot (snapshot/, lifecycle/  *)
(* patch/, lynx/suspense.ts).  Instances carry one attribute.              *)
(***************************************************************************)
EXTENDS Integers, Sequences, FiniteSets, SequencesExt

CONSTANTS
  MaxNodes,     \* bound on the instances the background thread creates
  FirstScreen,  \* number of elements below the root in the first screen
  Values,       \* values of the attribute, none of them Unset
  MaxOps,       \* bound on operations of the renderer
  MaxCommits    \* bound on commits, the hydration included

Root == 0
Unset == 0
Nodes == 1..MaxNodes
None == MaxNodes + 1  \* undefined, the name of no instance

ASSUME ConstantsAssumption ==
  /\ MaxNodes \in Nat \ {0} /\ FirstScreen \in Nat /\ MaxOps \in Nat /\ MaxCommits \in Nat
  /\ Values \subseteq Int \ {Unset}

VARIABLES
  \* background thread; an instance is named by its order of creation
  nextId,     \* backgroundSnapshotInstanceManager.nextId
  id,         \* __id of every instance; hydration renames it
  kids,       \* the children of every instance and of the root, in order
  value,      \* __values
  removed,    \* instances with __removed_from_tree set
  suspended,  \* those of them that Suspense keeps for later
  registry,   \* instances in backgroundSnapshotInstanceManager.values
  patch,      \* __globalSnapshotPatch
  patching,   \* __globalSnapshotPatch is defined, that is, the page is hydrated
  toRemove,   \* globalBackgroundSnapshotInstancesToRemove
  tasks,      \* globalCommitTaskMap: the instances each pending commit frees
  timers,     \* the sets of instances that running timers will free
  rendering,  \* a render is under way: it ends with the commit hook
  \* channels
  toMain, acks,
  \* main thread
  main,       \* its tree and registry, and the ctxNotFound errors it reported
  \* bounds
  commits, ops,
  \* history
  changesAway  \* number of operations that were sent of instances that Suspense keeps

bgVars == <<nextId, id, kids, value, removed, suspended, registry, patch, patching, toRemove,
            changesAway>>
vars == <<bgVars, rendering, tasks, timers, toMain, acks, main, commits, ops>>

-----------------------------------------------------------------------------
(* Trees and patches *)

Elements(s) == {s[i] : i \in DOMAIN s}

\* The instances of the subtree of n.
Subtree(k, n) ==
  LET below[m \in DOMAIN k] == {m} \cup UNION {below[c] : c \in Elements(k[m])}
  IN  below[n]

Without(s, x) ==
  IF x \in Elements(s) THEN RemoveAt(s, CHOOSE i \in DOMAIN s : s[i] = x) ELSE s

\* Insert x before y, at the end when y is not there.
Placed(s, x, y) ==
  LET t == Without(s, x)
  IN  IF y \in Elements(t)
      THEN InsertAt(t, CHOOSE i \in DOMAIN t : t[i] = y, x) ELSE Append(t, x)

CreateElement(i) == [op |-> "CreateElement", id |-> i]
SetAttribute(i, v) == [op |-> "SetAttribute", id |-> i, value |-> v]
InsertBefore(p, c, b) == [op |-> "InsertBefore", parent |-> p, child |-> c, before |-> b]
RemoveChild(p, c) == [op |-> "RemoveChild", parent |-> p, child |-> c]

CreateOnly(n) == <<CreateElement(id[n])>>

ElementOps(n) ==
  <<CreateElement(id[n])>>
  \o (IF value[n] = Unset THEN <<>> ELSE <<SetAttribute(id[n], value[n])>>)

\* The operations that build an instance of the background thread on the main
\* thread (reconstructInstanceTree), without the insertion of its top.
reconstruct(n) ==
  LET build[m \in Nodes] ==
        ElementOps(m) \o FlattenSeq([i \in DOMAIN kids[m] |->
          build[kids[m][i]] \o <<InsertBefore(id[m], id[kids[m][i]], None)>>])
  IN  build[n]

\* __globalSnapshotPatch?.push
push(s) == patch' = IF patching THEN patch \o s ELSE patch

-----------------------------------------------------------------------------
(* snapshotPatchApply on the main thread *)

MainIds == {Root} \cup {-i : i \in 1..FirstScreen} \cup Nodes
Missing(m, i) == i \notin m.ids
WithError(m) == [m EXCEPT !.errors = m.errors + 1]

\* The children of all when c has left the parent that it has.
Unlinked(m, c) ==
  LET parents == {p \in m.ids : c \in Elements(m.kids[p])}
  IN  IF parents = {} THEN m.kids
      ELSE LET p == CHOOSE q \in parents : TRUE
           IN  [m.kids EXCEPT ![p] = Without(m.kids[p], c)]

KeepSubtree(m, c) == {c}
RemovedOnMain(m, c) == Subtree(m.kids, c)

ApplyOp(m, o) ==
  CASE o.op = "CreateElement" ->
         [m EXCEPT !.ids = m.ids \cup {o.id}, !.kids[o.id] = <<>>, !.value[o.id] = Unset]
    [] o.op = "SetAttribute" ->
         IF Missing(m, o.id) THEN WithError(m) ELSE [m EXCEPT !.value[o.id] = o.value]
    [] o.op = "InsertBefore" ->
         IF Missing(m, o.parent) \/ Missing(m, o.child) THEN WithError(m)
         ELSE [m EXCEPT !.kids = [Unlinked(m, o.child) EXCEPT
                 ![o.parent] = Placed(m.kids[o.parent], o.child, o.before)]]
    [] o.op = "RemoveChild" ->
         IF Missing(m, o.parent) \/ Missing(m, o.child)
            \/ o.child \notin Elements(m.kids[o.parent])
         THEN WithError(m)
         ELSE [m EXCEPT !.kids[o.parent] = Without(m.kids[o.parent], o.child),
                        !.ids = m.ids \ RemovedOnMain(m, o.child)]

\* The operations one after the other; x ranges over a single state so that TLC
\* evaluates that state once.
snapshotPatchApply(m, s) ==
  LET after[i \in 0..Len(s)] ==
        IF i = 0 THEN m
        ELSE CHOOSE r \in {ApplyOp(x, s[i]) : x \in {after[i - 1]}} : TRUE
  IN  after[Len(s)]

-----------------------------------------------------------------------------
(* States *)

Attached == Subtree(kids, Root)
Detached == UNION {Subtree(kids, n) : n \in removed}
Gone == UNION {Subtree(kids, n) : n \in removed \ suspended}
Parent(n) == {p \in DOMAIN kids : n \in Elements(kids[p])}
Fresh(n) == n <= nextId /\ Parent(n) = {} /\ n \notin removed

\* The page as a thread shows it: every instance with its children and value.
BackgroundTree ==
  LET name(n) == IF n = Root THEN Root ELSE id[n]
  IN  {[id |-> name(n), value |-> IF n = Root THEN Unset ELSE value[n],
        kids |-> [i \in DOMAIN kids[n] |-> name(kids[n][i])]] : n \in Attached}
MainTree(m) ==
  {[id |-> i, value |-> m.value[i], kids |-> m.kids[i]] : i \in Subtree(m.kids, Root)}

\* The first screen: elements below the root, without attributes.
FirstMain ==
  [ids |-> {Root} \cup {-i : i \in 1..FirstScreen},
   kids |-> [i \in MainIds |-> IF i = Root THEN [j \in 1..FirstScreen |-> -j] ELSE <<>>],
   value |-> [i \in MainIds |-> Unset],
   errors |-> 0]

Init ==
  /\ nextId = 0 /\ id = [n \in Nodes |-> n]
  /\ kids = [n \in {Root} \cup Nodes |-> <<>>] /\ value = [n \in Nodes |-> Unset]
  /\ removed = {} /\ suspended = {} /\ registry = {}
  /\ patch = <<>> /\ patching = FALSE /\ toRemove = <<>>
  /\ tasks = [c \in 1..MaxCommits |-> {}] /\ timers = {}
  /\ rendering = FALSE /\ toMain = <<>> /\ acks = <<>>
  /\ main = FirstMain
  /\ commits = 0 /\ ops = 0 /\ changesAway = 0

-----------------------------------------------------------------------------
(* The renderer on the background thread (backgroundSnapshot.ts) *)

\* One step of a render.  A render is one task of the thread, ended by its commit;
\* the last commit is left to the hydration.
Render ==
  /\ ops < MaxOps /\ ops' = ops + 1
  /\ commits < MaxCommits - (IF patching THEN 0 ELSE 1)
  /\ rendering' = TRUE
RenderOnly == Render /\ UNCHANGED <<tasks, timers, toMain, acks, main, commits>>

\* What Suspense keeps is still rendered, as are its children, and what is done to it is
\* sent.  Only what is removed for good is left alone.
MayChange(n) == n = Root \/ (n <= nextId /\ n \notin Gone)
Changed(n) ==
  changesAway' = IF patching /\ n \in Detached THEN changesAway + 1 ELSE changesAway

\* new BackgroundSnapshotInstance
Create ==
  /\ RenderOnly
  /\ nextId < MaxNodes
  /\ nextId' = nextId + 1
  /\ registry' = registry \cup {nextId + 1}
  /\ push(<<CreateElement(nextId + 1)>>)
  /\ UNCHANGED <<id, kids, value, removed, suspended, patching, toRemove, changesAway>>

\* setAttribute: nothing is sent for a value that is the same.
setAttribute(n, v) ==
  /\ RenderOnly
  /\ MayChange(n) /\ Changed(n)
  /\ value[n] # v
  /\ value' = [value EXCEPT ![n] = v]
  /\ push(<<SetAttribute(id[n], v)>>)
  /\ UNCHANGED <<nextId, id, kids, removed, suspended, registry, patching, toRemove>>

Named(n) == IF n \in {Root, None} THEN n ELSE id[n]

\* The renderer inserts a new instance, moves one among its siblings, or, for
\* Suspense, appends one that it kept.
MayInsert(p, n, before) ==
  /\ MayChange(p)
  /\ n <= nextId /\ p \notin Subtree(kids, n)
  /\ before = None \/ (before \in Elements(kids[p]) /\ before # n)
  /\ \/ Fresh(n)
     \/ n \in Elements(kids[p])
     \/ n \in suspended /\ before = None

NeverReconstruct(p, n, before) == <<InsertBefore(Named(p), id[n], Named(before))>>

InsertionOps(p, n, before) ==
  (IF n \in removed THEN reconstruct(n) ELSE <<>>)
  \o <<InsertBefore(Named(p), id[n], Named(before))>>

insertBefore(p, n, before) ==
  /\ RenderOnly
  /\ MayInsert(p, n, before) /\ Changed(p)
  /\ push(InsertionOps(p, n, before))
  /\ kids' = [kids EXCEPT ![p] = Placed(kids[p], n, before)]
  /\ removed' = removed \ {n}
  /\ suspended' = suspended \ {n}
  /\ UNCHANGED <<nextId, id, value, registry, patching, toRemove>>

AlwaysQueued(n, keep) == Append(toRemove, id[n])

\* removeChild queues the instance; the ref of a Suspense fallback takes it back.
QueueAfterRemoval(n, keep) == IF keep THEN toRemove ELSE Append(toRemove, id[n])

removeChild(p, n, keep) ==
  /\ RenderOnly
  /\ MayChange(p) /\ Changed(p) /\ n \in Elements(kids[p])
  /\ push(<<RemoveChild(Named(p), id[n])>>)
  /\ kids' = [kids EXCEPT ![p] = Without(kids[p], n)]
  /\ removed' = removed \cup {n}
  /\ suspended' = IF keep THEN suspended \cup {n} ELSE suspended
  /\ toRemove' = QueueAfterRemoval(n, keep)
  /\ UNCHANGED <<nextId, id, value, registry, patching>>

-----------------------------------------------------------------------------
(* Commits, hydration, acknowledgements and timers *)

\* The commit hook.  Nothing the render created is left outside the tree; before
\* hydration the hook only records what the commit frees.
Commit ==
  /\ rendering /\ \A n \in Nodes : ~Fresh(n)
  /\ rendering' = FALSE
  /\ commits' = commits + 1
  /\ tasks' = [tasks EXCEPT ![commits + 1] = Elements(toRemove)]
  /\ toRemove' = <<>>
  /\ IF patching
     THEN /\ toMain' = Append(toMain, [commit |-> commits + 1, ops |-> patch,
                                       hydration |-> FALSE])
          /\ patch' = <<>>
     ELSE UNCHANGED <<toMain, patch>>
  /\ UNCHANGED <<nextId, id, kids, value, removed, suspended, registry, patching, changesAway,
                 timers, acks, main, ops>>

IdOffByOne(i) == 1 - i

\* The id of the i-th element of the first screen, counted down from -1.
AdoptedId(i) == -i

\* hydrate: the first elements below the root take the ids of the first screen, the
\* rest is built on the main thread, elements left over there are removed.
Hydrate ==
  /\ ~rendering /\ ~patching /\ commits < MaxCommits
  /\ commits' = commits + 1
  /\ patching' = TRUE
  /\ LET matched == 1..(IF Len(kids[Root]) < FirstScreen THEN Len(kids[Root]) ELSE FirstScreen)
         node(i) == kids[Root][i]
         newId == [n \in Nodes |->
                     IF \E i \in matched : node(i) = n
                     THEN AdoptedId(CHOOSE i \in matched : node(i) = n) ELSE id[n]]
         matchedOps(i) ==
           (IF value[node(i)] = Unset THEN <<>> ELSE <<SetAttribute(-i, value[node(i)])>>)
           \o FlattenSeq([j \in DOMAIN kids[node(i)] |->
                LET c == kids[node(i)][j] IN reconstruct(c) \o <<InsertBefore(-i, id[c], None)>>])
         newOps(i) == reconstruct(node(i)) \o <<InsertBefore(Root, id[node(i)], None)>>
         all == FlattenSeq([i \in DOMAIN kids[Root] |->
                              IF i \in matched THEN matchedOps(i) ELSE newOps(i)])
                \o [i \in 1..(FirstScreen - Cardinality(matched)) |->
                      RemoveChild(Root, -(Cardinality(matched) + i))]
     IN  /\ id' = newId
         /\ toMain' = Append(toMain, [commit |-> commits + 1, ops |-> all, hydration |-> TRUE])
  /\ UNCHANGED <<nextId, kids, value, removed, suspended, registry, patch, toRemove,
                 changesAway, rendering, tasks, timers, acks, main, ops>>

\* rLynxChange on the main thread: apply the patch, then call back.
updateMainThread ==
  /\ toMain # <<>>
  /\ main' = snapshotPatchApply(main, Head(toMain).ops)
  /\ toMain' = Tail(toMain)
  /\ acks' = Append(acks, [commit |-> Head(toMain).commit, hydration |-> Head(toMain).hydration])
  /\ UNCHANGED <<bgVars, rendering, tasks, timers, commits, ops>>

\* The commits an acknowledgement completes: the hydration also those before it.
OnlyItself(a) == {a.commit}
Completed(a) == IF a.hydration THEN 1..a.commit ELSE {a.commit}

\* The callback of callLepusMethod runs the commit tasks, which start the timers.
ReceiveAck ==
  /\ ~rendering /\ acks # <<>>
  /\ acks' = Tail(acks)
  /\ LET done == Completed(Head(acks))
     IN  /\ timers' = timers \cup {tasks[c] : c \in {d \in done : tasks[d] # {}}}
         /\ tasks' = [c \in DOMAIN tasks |-> IF c \in done THEN {} ELSE tasks[c]]
  /\ UNCHANGED <<bgVars, rendering, toMain, main, commits, ops>>

\* tearDown, when the ten seconds are over.
tearDown ==
  /\ ~rendering
  /\ \E t \in timers :
    /\ timers' = timers \ {t}
    /\ registry' = registry \ UNION {Subtree(kids, n) : n \in {m \in registry : id[m] \in t}}
    /\ UNCHANGED <<nextId, id, kids, value, removed, suspended, patch, patching, toRemove,
                   changesAway, rendering, tasks, toMain, acks, main, commits, ops>>

-----------------------------------------------------------------------------
Rendering ==
  \/ Create
  \/ \E n \in Nodes, v \in Values : setAttribute(n, v)
  \/ \E p \in {Root} \cup Nodes, n \in Nodes, b \in {None} \cup Nodes : insertBefore(p, n, b)
  \/ \E p \in {Root} \cup Nodes, n \in Nodes, keep \in BOOLEAN : removeChild(p, n, keep)

Next == Rendering \/ Commit \/ Hydrate \/ updateMainThread \/ ReceiveAck \/ tearDown

Spec == Init /\ [][Next]_vars

\* A render ends with a commit; the threads run their queues; timers fire.
Fairness ==
  /\ WF_vars(Commit) /\ WF_vars(Hydrate) /\ WF_vars(updateMainThread)
  /\ WF_vars(ReceiveAck) /\ WF_vars(tearDown)

\* A render is one synchronous task: it ends.
FairSpec == Spec /\ Fairness /\ []<>(~rendering)

-----------------------------------------------------------------------------
(* Properties *)

InFlight == FlattenSeq([i \in DOMAIN toMain |-> toMain[i].ops]) \o patch
Caught == snapshotPatchApply(main, InFlight)

TypeOK ==
  /\ nextId \in 0..MaxNodes /\ id \in [Nodes -> MainIds \ {Root}]
  /\ DOMAIN kids = {Root} \cup Nodes /\ \A n \in DOMAIN kids : Elements(kids[n]) \subseteq 1..nextId
  /\ \A n \in Nodes : Cardinality(Parent(n)) <= 1
  /\ suspended \subseteq removed /\ removed \subseteq 1..nextId /\ registry \subseteq 1..nextId
  /\ main.ids \subseteq MainIds

\* Once what is in flight and in the buffer has been applied, the main thread shows
\* the tree of the background thread: same instances, order and values, also of subtrees
\* that Suspense kept, that were changed meanwhile and that came back.  And it is sent an
\* operation on an instance that it does not have (ctxNotFound) at most once for each change
\* of an instance that Suspense keeps.
MirrorsBackground ==
  /\ patching => MainTree(Caught) = BackgroundTree
  /\ Caught.errors <= changesAway

\* The tables of both threads follow the tree.  An instance that the renderer may still show
\* can be found by its id, so its events are delivered: no timer of an earlier removal takes it
\* out of the registry.  And the main thread keeps no instance that the background thread
\* removed, unless what Suspense keeps was changed: what is created for it then stays there.
InstancesInStep ==
  /\ (1..nextId) \ Gone \subseteq registry
  /\ patching /\ changesAway = 0 =>
       Caught.ids \subseteq {Root} \cup {id[n] : n \in {m \in 1..nextId : m \notin Detached}}

\* The promise of Mirror: the main thread shows, in order, exactly the trees that
\* were committed.  The trees on their way are what the patches will make of its tree.
Mirrored == INSTANCE Mirror WITH
  Trees <- SUBSET [id : Int, value : Int, kids : Seq(Int)],
  FirstTree <- MainTree(FirstMain),
  source <- BackgroundTree, joined <- patching, dirty <- rendering \/ ~patching,
  pipeline <- [i \in DOMAIN toMain |->
     MainTree(snapshotPatchApply(main, FlattenSeq([j \in 1..i |-> toMain[j].ops])))],
  replica <- MainTree(main)

ImplementsMirror == Mirrored!Spec

\* Every instance that is removed for good is finally freed.
RemovedInstancesFreed ==
  \A n \in Nodes : (n \in removed \ suspended) ~> (n \notin registry)
=============================================================================
