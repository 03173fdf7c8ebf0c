--------------------------- MODULE BackgroundWorkers ---------------------------
(***************************************************************************)
(* The workers in which the pages of the web platform run their background *)
(* scripts.  A page without a group has a worker of its own; the pages of  *)
(* a group share one, which counts the pages that run in it.  A page that  *)
(* is disposed waits until its background script has started, has it clean *)
(* up, and then gives its worker back.                                     *)
(*                                                                         *)
(* The code is packages/web-platform/web-core/ts/client: mainthread/       *)
(* Background.ts (a BackgroundThread is called a card here), its calls in  *)
(* mainthread/LynxViewInstance.ts, and background/background-apis.  A      *)
(* worker is named after the card whose startWebWorker created it.         *)
(***************************************************************************)
EXTENDS Integers, FiniteSets

CONSTANTS
  Cards, Groups, NoGroup, NoWorker,
  group   \* lynxGroupId of every card

ASSUME ConstantsAssumption ==
  /\ IsFiniteSet(Cards) /\ NoWorker \notin Cards /\ NoGroup \notin Groups
  /\ group \in [Cards -> Groups \cup {NoGroup}]

VARIABLES
  \* main thread
  created,     \* cards with a LynxViewInstance
  webWorker,
  contextIdToBackgroundWorker,
  btsStarted,
  btsReady,    \* cards whose #btsReady is resolved
  disposing,   \* cards whose asyncDispose is waiting
  disposed,    \* cards whose asyncDispose has returned
  call,        \* the call of the worker that every card waits for
  at,          \* where that call is
  \* workers
  alive,       \* workers created and not terminated
  loaded,      \* cards that the background runtime has loaded and not destroyed
  \* history
  miscounted   \* groups that a card has left that had never joined

poolVars == <<webWorker, contextIdToBackgroundWorker, alive>>
btsVars == <<btsStarted, btsReady>>
callVars == <<call, at>>
vars == <<created, poolVars, btsVars, disposing, disposed, callVars, loaded, miscounted>>

Calls == {"updateBTSChunk", "start", "dispose"}
Undefined == [worker |-> NoWorker, runningCards |-> 0]
Shared(c) == group[c] # NoGroup
HasWorker(c) == webWorker[c] # NoWorker

Init ==
  /\ created = {} /\ webWorker = [c \in Cards |-> NoWorker]
  /\ contextIdToBackgroundWorker = [g \in Groups |-> Undefined]
  /\ btsStarted = {} /\ btsReady = {} /\ disposing = {} /\ disposed = {}
  /\ call = [c \in Cards |-> "none"] /\ at = [c \in Cards |-> "none"]
  /\ alive = {} /\ loaded = {} /\ miscounted = {}

-----------------------------------------------------------------------------
(* Start *)

Create(c) ==
  /\ c \notin created /\ created' = created \cup {c}
  /\ UNCHANGED <<poolVars, btsVars, disposing, disposed, callVars, loaded, miscounted>>

Invoke(c, name) ==
  /\ call' = [call EXCEPT ![c] = name]
  /\ at' = [at EXCEPT ![c] = IF HasWorker(c) THEN "sent" ELSE "queued"]

\* The pool entry of a group that one more card uses.
JoinedUncounted(g) == contextIdToBackgroundWorker[g]
Joined(g) == [contextIdToBackgroundWorker[g] EXCEPT !.runningCards = @ + 1]

NeverJoins(c) == FALSE
JoinsGroup(c) == Shared(c) /\ contextIdToBackgroundWorker[group[c]] # Undefined

\* The root script of the main thread has run; it cannot once its realm is disposed.
startWebWorker(c) ==
  /\ c \in created \ disposed /\ ~HasWorker(c)
  /\ IF JoinsGroup(c)
     THEN LET g == group[c]
          IN  /\ contextIdToBackgroundWorker' =
                   [contextIdToBackgroundWorker EXCEPT ![g] = Joined(g)]
              /\ webWorker' =
                   [webWorker EXCEPT ![c] = contextIdToBackgroundWorker[g].worker]
              /\ alive' = alive
     ELSE /\ webWorker' = [webWorker EXCEPT ![c] = c]
          /\ alive' = alive \cup {c}
          /\ contextIdToBackgroundWorker' =
               IF Shared(c)
               THEN [contextIdToBackgroundWorker EXCEPT
                       ![group[c]] = [worker |-> c, runningCards |-> 1]]
               ELSE contextIdToBackgroundWorker
  \* setMessagePort sends what has been queued
  /\ at' = [at EXCEPT ![c] = IF @ = "queued" THEN "sent" ELSE @]
  /\ UNCHANGED <<created, btsVars, disposing, disposed, call, loaded, miscounted>>

\* The Manifest section is there: it is passed to the worker, if need be later.
onBTSScriptsLoaded(c) ==
  /\ c \in created \ (disposed \cup btsStarted) /\ call[c] = "none"
  /\ Invoke(c, "updateBTSChunk")
  /\ UNCHANGED <<created, poolVars, btsVars, disposing, disposed, loaded, miscounted>>

-----------------------------------------------------------------------------
(* Dispose *)

CountedTooEarly(g) == contextIdToBackgroundWorker[g].runningCards = 0
IsLastCard(g) == contextIdToBackgroundWorker[g].runningCards = 1

\* A card of group g leaves the worker of its group.
Leave(g) ==
  IF IsLastCard(g)
  THEN /\ alive' = alive \ {contextIdToBackgroundWorker[g].worker}
       /\ contextIdToBackgroundWorker' =
            [contextIdToBackgroundWorker EXCEPT ![g] = Undefined]
  ELSE /\ contextIdToBackgroundWorker' =
            [contextIdToBackgroundWorker EXCEPT ![g].runningCards = @ - 1]
       /\ UNCHANGED alive

\* A card whose worker was never started is taken from the count of its group all the same.
LeavesUnjoined(c) ==
  Shared(c) /\ ~HasWorker(c) /\ contextIdToBackgroundWorker[group[c]] # Undefined

\* The last part of asyncDispose.
Release(c) ==
  /\ disposed' = disposed \cup {c} /\ disposing' = disposing \ {c}
  /\ IF ~Shared(c)
     THEN alive' = alive \ {webWorker[c]} /\ UNCHANGED contextIdToBackgroundWorker
     ELSE IF contextIdToBackgroundWorker[group[c]] = Undefined
     THEN UNCHANGED <<alive, contextIdToBackgroundWorker>>
     ELSE Leave(group[c])
  /\ miscounted' = IF LeavesUnjoined(c) THEN miscounted \cup {group[c]} ELSE miscounted
  /\ UNCHANGED webWorker

NeverWaits(c) == FALSE
MustWait(c) == c \in btsStarted

asyncDispose(c) ==
  /\ c \in created \ (disposing \cup disposed)
  /\ IF MustWait(c)
     THEN /\ disposing' = disposing \cup {c}
          /\ IF c \in btsReady THEN Invoke(c, "dispose") ELSE UNCHANGED callVars
          /\ UNCHANGED <<poolVars, disposed, miscounted>>
     ELSE Release(c) /\ UNCHANGED callVars
  /\ UNCHANGED <<created, btsVars, loaded>>

-----------------------------------------------------------------------------
(* Calls.  The port of a card is closed when it is disposed. *)

\* The worker answers: BackgroundThreadStart loads the card, dispose destroys it.
Answer(c) ==
  /\ at[c] = "sent" /\ webWorker[c] \in alive /\ c \notin disposed
  /\ at' = [at EXCEPT ![c] = "answered"]
  /\ loaded' = CASE call[c] = "start" -> loaded \cup {c}
                 [] call[c] = "dispose" -> loaded \ {c}
                 [] OTHER -> loaded
  /\ UNCHANGED <<created, poolVars, btsVars, disposing, disposed, call, miscounted>>

Answered(c, name) == at[c] = "answered" /\ call[c] = name /\ c \notin disposed

\* The rest of onBTSScriptsLoaded: startBTS.
startBTS(c) ==
  /\ Answered(c, "updateBTSChunk")
  /\ btsStarted' = btsStarted \cup {c} /\ Invoke(c, "start")
  /\ UNCHANGED <<created, poolVars, btsReady, disposing, disposed, loaded, miscounted>>

\* What an asyncDispose that waits for #btsReady does next.
ForgetsToAsk(c) == FALSE
AsksNext(c) == c \in disposing

resolveBtsReady(c) ==
  /\ Answered(c, "start")
  /\ btsReady' = btsReady \cup {c}
  /\ IF AsksNext(c) THEN Invoke(c, "dispose")
     ELSE call' = [call EXCEPT ![c] = "none"] /\ at' = [at EXCEPT ![c] = "none"]
  /\ UNCHANGED <<created, poolVars, btsStarted, disposing, disposed, loaded, miscounted>>

disposeReturns(c) ==
  /\ Answered(c, "dispose") /\ Release(c)
  /\ UNCHANGED <<created, btsVars, callVars, loaded>>

-----------------------------------------------------------------------------
Next ==
  \E c \in Cards :
    \/ Create(c) \/ startWebWorker(c) \/ onBTSScriptsLoaded(c) \/ asyncDispose(c)
    \/ Answer(c) \/ startBTS(c) \/ resolveBtsReady(c) \/ disposeReturns(c)

Spec == Init /\ [][Next]_vars

\* Workers that are alive answer, and answers are received.
Fairness ==
  \A c \in Cards : WF_vars(Answer(c)) /\ WF_vars(startBTS(c)) /\ WF_vars(resolveBtsReady(c))
                   /\ WF_vars(disposeReturns(c))

FairSpec == Spec /\ Fairness

-----------------------------------------------------------------------------
(* Properties *)

\* A group has a worker and counts at least one card, or is undefined; only a card that exists
\* is disposed.
TypeOK ==
  /\ created \subseteq Cards /\ webWorker \in [Cards -> Cards \cup {NoWorker}]
  /\ contextIdToBackgroundWorker \in
       [Groups -> [worker : Cards, runningCards : Nat \ {0}] \cup {Undefined}]
  /\ btsStarted \subseteq Cards /\ btsReady \subseteq btsStarted
  /\ disposing \subseteq created /\ disposed \subseteq created
  /\ call \in [Cards -> Calls \cup {"none"}]
  /\ at \in [Cards -> {"none", "queued", "sent", "answered"}]
  /\ alive \subseteq Cards /\ loaded \subseteq Cards /\ miscounted \subseteq Groups

Running(c) == HasWorker(c) /\ c \notin disposed
IsCounted(c) == group[c] \notin miscounted

\* No card loses its worker to another card that is disposed: not to those of other groups,
\* and not to those of its own, unless one of them was disposed before its worker was
\* started, which takes a card that it never added from the count of the group.
RunningCardsHaveWorkers ==
  \A c \in Cards : Running(c) /\ IsCounted(c) => webWorker[c] \in alive

\* The running cards of a group share one worker, cards of different groups none; and a
\* worker in which no card runs any more has been terminated.
WorkersFollowCards ==
  /\ \A c, d \in Cards :
       Running(c) /\ Running(d) /\ c # d =>
         /\ webWorker[c] = webWorker[d] => Shared(c) /\ group[c] = group[d]
         /\ Shared(c) /\ group[c] = group[d] /\ IsCounted(c) => webWorker[c] = webWorker[d]
  /\ \A w \in alive : IsCounted(w) => \E c \in Cards : Running(c) /\ webWorker[c] = w

\* A card that the background runtime has loaded is destroyed there before its main-thread
\* part is gone and its worker may be terminated.
DestroyedFirst == loaded \cap disposed = {}

\* A card that is disposed gives its worker back, whatever is still on its way, as long as
\* its worker is not taken away.
DisposeReturns == \A c \in Cards : (c \in disposing) ~> (c \in disposed \/ ~IsCounted(c))
=============================================================================
