-------------------------------- MODULE Mirror --------------------------------
(***************************************************************************)
(* What the snapshot runtime promises: the main thread shows, one after    *)
(* the other and none left out, the trees the background thread committed, *)
(* the first of them being the one that hydration hands back.              *)
(*                                                                         *)
(* SnapshotPatch implements this specification.                            *)
(***************************************************************************)
EXTENDS Sequences, Naturals

CONSTANTS Trees, FirstTree

VARIABLES
  source,    \* the tree of the background thread
  joined,    \* the background thread has hydrated the first screen
  dirty,     \* the background thread has changes it has not committed
  pipeline,  \* trees committed and not yet shown
  replica    \* the tree the main thread shows

vars == <<source, joined, dirty, pipeline, replica>>

Init ==
  /\ source \in Trees /\ joined = FALSE /\ dirty = TRUE
  /\ pipeline = <<>> /\ replica = FirstTree

Change == source' \in Trees /\ dirty' = TRUE /\ UNCHANGED <<joined, pipeline, replica>>

\* Hydration commits the tree after it has taken over the ids of the first screen.
Hydrate ==
  /\ ~joined /\ joined' = TRUE /\ dirty' = FALSE
  /\ source' \in Trees /\ pipeline' = Append(pipeline, source')
  /\ UNCHANGED replica

Commit ==
  /\ joined /\ dirty' = FALSE
  /\ pipeline' = Append(pipeline, source)
  /\ UNCHANGED <<source, joined, replica>>

Show ==
  /\ pipeline # <<>>
  /\ replica' = Head(pipeline) /\ pipeline' = Tail(pipeline)
  /\ UNCHANGED <<source, joined, dirty>>

Next == Change \/ Hydrate \/ Commit \/ Show

Spec == Init /\ [][Next]_vars

-----------------------------------------------------------------------------
TypeOK ==
  /\ source \in Trees /\ replica \in Trees \cup {FirstTree}
  /\ joined \in BOOLEAN /\ dirty \in BOOLEAN /\ pipeline \in Seq(Trees)

\* When everything is committed and shown, the two threads have the same tree.
Converged == ~dirty /\ pipeline = <<>> => replica = source
=============================================================================
