--------------------------- MODULE CardLife_proofs ---------------------------
(***************************************************************************)
(* Theorems about the life of a card of web-core: about LynxView, the      *)
(* element that shows it, for all urls and whatever the application does,  *)
(* about BackgroundWorkers, for every set of cards and groups, and about   *)
(* TemplateManager, the loader of their bundles, for all urls, requests    *)
(* and orders of the sections.                                             *)
(***************************************************************************)
EXTENDS LynxView, BackgroundWorkers, TemplateManager, FiniteSetTheorems, SequenceTheorems, TLAPS

-----------------------------------------------------------------------------
(* The life cycle of the element *)

\* A render operation waits for something only while #rendering is set, and for a dispose
\* only while there is one; a dispose of nothing has emptied the element; an element
\* without a page, a render operation or a dispose is empty.
ViewBookkeeping ==
  /\ step # "none" => rendering
  /\ step = "dispose" => disposePromise # "none"
  /\ disposePromise # "none" => instance = None
  /\ disposePromise = "microtask" => iframes = 0
  /\ ~rendering /\ instance = None /\ disposePromise = "none" => iframes = 0
  /\ step = "import" => fetched \in Urls

ViewInv == ViewTypeOK /\ FreshStart /\ ViewBookkeeping

LEMMA ViewInitial == ViewInit => ViewInv
<1> SUFFICES ASSUME ViewInit PROVE ViewInv
  OBVIOUS
<1>1. ViewTypeOK
  <2>1. connected \in BOOLEAN /\ rendering \in BOOLEAN /\ disturbed \in BOOLEAN
    BY Zenon DEF ViewInit
  <2>2. iframes \in 0..1
    BY SMT DEF ViewInit
  <2>. QED
    BY <2>1, <2>2, Zenon DEF ViewInit, ViewTypeOK
<1>2. FreshStart /\ ViewBookkeeping
  BY DEF ViewInit, FreshStart, ViewBookkeeping
<1>. QED
  BY <1>1, <1>2 DEF ViewInv

\* The part of a step that renders preserves the invariant, whatever else the step does to
\* the url and to the connection.
LEMMA ViewRenderStep ==
  ASSUME ViewInv, NEW to \in Urls \cup {NoUrl}, NEW isConnected \in BOOLEAN,
         url' = to, connected' = isConnected, render(isConnected, to), disturbed' \in BOOLEAN
  PROVE  ViewInv'
<1> USE DEF ViewInv, ViewTypeOK, FreshStart, ViewBookkeeping, render, renderVars
<1>1. CASE MayRender(isConnected, to) /\ NothingToDispose
  BY <1>1 DEF MayRender, NothingToDispose
<1>2. CASE MayRender(isConnected, to) /\ ~NothingToDispose
  BY <1>2 DEF MayRender, NothingToDispose, BeginDispose, Cleared
<1>3. CASE ~MayRender(isConnected, to)
  BY <1>3
<1>. QED
  BY <1>1, <1>2, <1>3

LEMMA DisturbsBoolean ==
  ASSUME ViewInv, NEW it \in BOOLEAN, Disturbs(it) PROVE disturbed' \in BOOLEAN
BY Zenon DEF Disturbs, ViewInv, ViewTypeOK

LEMMA ViewInductive == ViewInv /\ [ViewNext]_viewVars => ViewInv'
<1> SUFFICES ASSUME ViewInv, [ViewNext]_viewVars PROVE ViewInv'
  OBVIOUS
<1>1. CASE UNCHANGED viewVars
  BY <1>1 DEF viewVars, ViewInv, ViewTypeOK, FreshStart, ViewBookkeeping
<1>2. ASSUME NEW to \in Urls \cup {NoUrl}, SetUrl(to) PROVE ViewInv'
  <2>1. connected \in BOOLEAN
    BY DEF ViewInv, ViewTypeOK
  <2>2. disturbed' \in BOOLEAN
    BY <1>2, DisturbsBoolean DEF SetUrl
  <2>. QED
    BY <1>2, <2>1, <2>2, ViewRenderStep DEF SetUrl
<1>3. CASE reload
  <2>1. connected \in BOOLEAN /\ url \in Urls \cup {NoUrl}
    BY DEF ViewInv, ViewTypeOK
  <2>2. disturbed' \in BOOLEAN
    BY <1>3, DisturbsBoolean DEF reload
  <2>. QED
    BY <1>3, <2>1, <2>2, ViewRenderStep DEF reload
<1>4. CASE connectedCallback
  <2>1. url \in Urls \cup {NoUrl}
    BY DEF ViewInv, ViewTypeOK
  <2>2. disturbed' \in BOOLEAN
    BY <1>4, DisturbsBoolean DEF connectedCallback
  <2>. QED
    BY <1>4, <2>1, <2>2, ViewRenderStep DEF connectedCallback
<1>5. CASE disconnectedCallback
  <2>1. ViewTypeOK'
    <3>1. connected' \in BOOLEAN /\ rendering' \in BOOLEAN
      BY <1>5, Zenon DEF disconnectedCallback, renderVars, ViewInv, ViewTypeOK
    <3>2. iframes' \in 0..1
      BY <1>5, SMT DEF disconnectedCallback, BeginDispose, Cleared, ViewInv, ViewTypeOK
    <3>3. /\ url' = url /\ fetched' = fetched /\ step' = step
          /\ instance' \in {instance, None}
          /\ disposePromise' \in {disposePromise, "instance", "microtask"}
      BY <1>5, Zenon DEF disconnectedCallback, renderVars, BeginDispose
    <3>4. disturbed' \in BOOLEAN
      BY <1>5, DisturbsBoolean DEF disconnectedCallback
    <3>. QED
      BY <3>1, <3>2, <3>3, <3>4, Zenon DEF ViewInv, ViewTypeOK
  <2>2. rendering' = rendering /\ step' = step /\ fetched' = fetched /\ BeginDispose
    BY <1>5 DEF disconnectedCallback, renderVars
  <2>3. FreshStart' /\ ViewBookkeeping'
    BY <2>2 DEF BeginDispose, Cleared, ViewInv, ViewTypeOK, FreshStart, ViewBookkeeping
  <2>. QED
    BY <2>1, <2>3 DEF ViewInv
<1>6. CASE Disposed
  <2>1. ViewTypeOK'
    BY <1>6 DEF Disposed, ViewInv, ViewTypeOK, FreshStart, ViewBookkeeping
  <2>2. disposePromise' = "none" /\ instance' = instance /\ fetched' = fetched
        /\ (rendering' <=> rendering)
    BY <1>6 DEF Disposed
  <2>3. ASSUME step = "dispose" PROVE FreshStart' /\ ViewBookkeeping'
    <3>1. step' = "realm" /\ rendering /\ instance = None
      BY <1>6, <2>3 DEF Disposed, ViewInv, ViewTypeOK, ViewBookkeeping
    <3>. QED
      BY <2>2, <3>1 DEF FreshStart, ViewBookkeeping
  <2>4. ASSUME step # "dispose" PROVE FreshStart' /\ ViewBookkeeping'
    <3>1. step' = step /\ iframes' = 0
      BY <1>6, <2>4 DEF Disposed, ViewInv, ViewTypeOK, ViewBookkeeping
    <3>. QED
      BY <2>2, <2>4, <3>1 DEF ViewInv, FreshStart, ViewBookkeeping
  <2>5. FreshStart' /\ ViewBookkeeping'
    BY <2>3, <2>4
  <2>. QED
    BY <2>1, <2>5 DEF ViewInv
<1>7. CASE RealmReady
  BY <1>7 DEF RealmReady, NoMicrotask, ViewInv, ViewTypeOK, FreshStart, ViewBookkeeping
<1>8. CASE Imported
  <2>1. instance' \in Instances
    <3>1. fetched \in Urls /\ url \in Urls \cup {NoUrl} /\ (iframes > 0) \in BOOLEAN
      BY <1>8 DEF Imported, ViewInv, ViewTypeOK, ViewBookkeeping
    <3>2. instance' = [templateUrl |-> url, fetched |-> fetched, attached |-> iframes > 0]
      BY <1>8 DEF Imported
    <3>. QED
      BY <3>1, <3>2 DEF Instances
  <2>2. ViewTypeOK'
    BY <1>8, <2>1 DEF Imported, AfterRender, ViewInv, ViewTypeOK
  <2>3. step' = "none" /\ instance' # None /\ disposePromise' = disposePromise
        /\ disposePromise \in {"none", "instance", "microtask"}
        /\ disposePromise # "instance" /\ disposePromise # "microtask"
    BY <1>8, <2>1, ViewConstants DEF Imported, NoMicrotask, ViewInv, ViewTypeOK, FreshStart
  <2>4. FreshStart' /\ ViewBookkeeping'
    BY <2>3 DEF FreshStart, ViewBookkeeping
  <2>. QED
    BY <2>2, <2>4 DEF ViewInv
<1>. QED
  BY <1>1, <1>2, <1>3, <1>4, <1>5, <1>6, <1>7, <1>8 DEF ViewNext

\* The element keeps its types and at most one realm.
THEOREM ViewTypeCorrect == ViewSpec => []ViewTypeOK
<1>1. ViewInv => ViewTypeOK
  BY DEF ViewInv
<1>. QED
  BY <1>1, ViewInitial, ViewInductive, PTL DEF ViewSpec

\* However the element is moved, reloaded and given urls, a page is begun only when the
\* former has been cleaned up.
THEOREM PagesDoNotOverlap == ViewSpec => []FreshStart
<1>1. ViewInv => FreshStart
  BY DEF ViewInv
<1>. QED
  BY <1>1, ViewInitial, ViewInductive, PTL DEF ViewSpec

-----------------------------------------------------------------------------
(* What the element shows *)

\* While a render operation goes on undisturbed the element is connected and has a url, and
\* from when the bundle is asked for, the bundle is that of the url and the realm is there.
Undisturbed ==
  /\ rendering /\ ~disturbed => connected /\ url # NoUrl
  /\ step = "import" /\ ~disturbed => fetched = url /\ iframes > 0

ShowInv == Undisturbed /\ ShowsItsUrl

LEMMA ShowInitially == ViewInit => ShowInv
BY DEF ViewInit, ShowInv, Undisturbed, ShowsItsUrl

\* After render the element renders, or it has no url or is in no document, or it did
\* render before.
LEMMA RenderShows ==
  ASSUME ViewInv, ShowInv, NEW to \in Urls \cup {NoUrl}, NEW isConnected \in BOOLEAN,
         NEW it \in BOOLEAN, url' = to, connected' = isConnected, render(isConnected, to),
         Disturbs(it), connected => isConnected,
         rendering => it \/ (to # NoUrl /\ (step = "import" => to = url))
  PROVE  ShowInv'
<1>1. CASE MayRender(isConnected, to)
  <2>1. rendering' /\ step' \in {"realm", "dispose"} /\ isConnected /\ to # NoUrl
    BY <1>1 DEF render, MayRender
  <2>. QED
    BY <2>1 DEF ShowInv, Undisturbed, ShowsItsUrl
<1>2. CASE ~MayRender(isConnected, to) /\ rendering
  <2>1. rendering' = rendering /\ step' = step /\ fetched' = fetched /\ iframes' = iframes
    BY <1>2 DEF render, renderVars
  <2>2. disturbed' = (disturbed \/ it)
    BY <1>2 DEF Disturbs
  <2>. QED
    BY <1>2, <2>1, <2>2 DEF ShowInv, Undisturbed, ShowsItsUrl
<1>3. CASE ~MayRender(isConnected, to) /\ ~rendering
  <2>1. rendering' = rendering /\ step' = step /\ (~isConnected \/ to = NoUrl)
    BY <1>3 DEF render, renderVars, MayRender
  <2>2. step # "import"
    BY <1>3 DEF ViewInv, ViewBookkeeping
  <2>. QED
    BY <1>3, <2>1, <2>2 DEF ShowInv, Undisturbed, ShowsItsUrl
<1>. QED
  BY <1>1, <1>2, <1>3

LEMMA ShowInductive == ViewInv /\ ShowInv /\ [ViewNext]_viewVars => ShowInv'
<1> SUFFICES ASSUME ViewInv, ShowInv, [ViewNext]_viewVars PROVE ShowInv'
  OBVIOUS
<1>t. url \in Urls \cup {NoUrl} /\ connected \in BOOLEAN
  BY DEF ViewInv, ViewTypeOK
<1>1. CASE UNCHANGED viewVars
  BY <1>1 DEF viewVars, ShowInv, Undisturbed, ShowsItsUrl
<1>2. ASSUME NEW to \in Urls \cup {NoUrl}, SetUrl(to) PROVE ShowInv'
  <2>1. (step = "import" \/ to = NoUrl) \in BOOLEAN
    OBVIOUS
  <2>. QED
    BY <1>2, <1>t, <2>1, RenderShows DEF SetUrl
<1>3. CASE reload
  <2>1. rendering => FALSE \/ disturbed \/ url # NoUrl
    BY DEF ShowInv, Undisturbed
  <2>2. CASE rendering /\ disturbed
    BY <1>3, <2>2 DEF reload, Disturbs, render, renderVars, MayRender, ShowInv, Undisturbed,
                      ShowsItsUrl
  <2>3. CASE ~(rendering /\ disturbed)
    BY <1>3, <1>t, <2>1, <2>3, RenderShows DEF reload
  <2>. QED
    BY <2>2, <2>3
<1>4. CASE connectedCallback
  <2>1. CASE rendering
    BY <1>4, <2>1 DEF connectedCallback, Disturbs, render, renderVars, MayRender, ShowInv,
                      Undisturbed, ShowsItsUrl
  <2>2. CASE ~rendering
    BY <1>4, <1>t, <2>2, RenderShows DEF connectedCallback
  <2>. QED
    BY <2>1, <2>2
<1>5. CASE disconnectedCallback
  <2>1. ~connected' /\ rendering' = rendering /\ step' = step /\ (rendering => disturbed')
    BY <1>5 DEF disconnectedCallback, renderVars, Disturbs
  <2>2. step = "import" => rendering
    BY DEF ViewInv, ViewBookkeeping
  <2>. QED
    BY <2>1, <2>2 DEF ShowInv, Undisturbed, ShowsItsUrl
<1>6. CASE Disposed
  <2>1. step' = "import" => step = "import" /\ iframes' = iframes
    BY <1>6 DEF Disposed, ViewInv, FreshStart, ViewTypeOK
  <2>. QED
    BY <1>6, <2>1 DEF Disposed, ShowInv, Undisturbed, ShowsItsUrl
<1>7. CASE RealmReady
  BY <1>7 DEF RealmReady, ShowInv, Undisturbed, ShowsItsUrl
<1>8. CASE Imported
  <2>1. step' = "none" /\ ~rendering' /\ disturbed' = disturbed /\ url' = url
    BY <1>8 DEF Imported, AfterRender
  <2>2. instance' = [templateUrl |-> url, fetched |-> fetched, attached |-> iframes > 0]
    BY <1>8 DEF Imported
  <2>3. ~disturbed => fetched = url /\ iframes > 0
    BY <1>8 DEF Imported, ShowInv, Undisturbed
  <2>4. ~disturbed => instance'.templateUrl = url /\ instance'.fetched = url /\ instance'.attached
    BY <2>2, <2>3
  <2>. QED
    BY <2>1, <2>4 DEF ShowInv, Undisturbed, ShowsItsUrl
<1>. QED
  BY <1>1, <1>2, <1>3, <1>4, <1>5, <1>6, <1>7, <1>8 DEF ViewNext

\* After a render operation that was not disturbed the element shows the bundle of its url,
\* in a realm that is there, until the next one begins.
THEOREM UrlShown == ViewSpec => []ShowsItsUrl
<1>1. ShowInv => ShowsItsUrl
  BY DEF ShowInv
<1>. QED
  BY <1>1, ViewInitial, ViewInductive, ShowInitially, ShowInductive, PTL DEF ViewSpec

-----------------------------------------------------------------------------
(* The workers of the cards.                                               *)
(*                                                                         *)
(* PoolInv relates the pool to the cards: it counts the running cards of a *)
(* group, and the worker it names is theirs and alive.  Of a group that a  *)
(* card has left without having joined it says only that its cards and its *)
(* entry keep to workers of the group, so that the damage does not spread. *)
(* CallInv follows the calls of a card and needs no such condition.        *)

Pool(g) == contextIdToBackgroundWorker[g]
Users(g) == {c \in Cards : group[c] = g /\ Running(c)}

CountedGroups == Groups \ miscounted

\* The pool has an entry for a group exactly if a card runs in it, and counts these cards.
PoolCounts ==
  \A g \in CountedGroups :
    IF Pool(g) = Undefined THEN Users(g) = {} ELSE Pool(g).runningCards = Cardinality(Users(g))

\* The cards of a group run in the worker of the pool, which is alive.
PoolNames ==
  \A g \in CountedGroups :
    Pool(g) # Undefined =>
      Pool(g).worker \in alive /\ \A c \in Users(g) : webWorker[c] = Pool(g).worker

\* The workers of a group were created by its cards.
OwnWorkers ==
  /\ \A g \in Groups : Pool(g) # Undefined => group[Pool(g).worker] = g
  /\ \A c \in Cards : Shared(c) /\ HasWorker(c) => group[webWorker[c]] = group[c]

\* A card without a group runs in its own worker.
SoloWorkers ==
  \A c \in Cards : ~Shared(c) /\ Running(c) => webWorker[c] = c /\ c \in alive

\* A worker is alive because the pool names it or its only card runs.
AliveForAReason ==
  \A w \in alive :
    /\ group[w] \in CountedGroups => Pool(group[w]) # Undefined /\ Pool(group[w]).worker = w
    /\ ~Shared(w) => Running(w)

PoolInv == PoolCounts /\ PoolNames /\ OwnWorkers /\ SoloWorkers /\ AliveForAReason

\* What a call says about the card that waits for it.
CallInv ==
  /\ \A c \in Cards :
       /\ call[c] # "none" => c \in created
       /\ at[c] \in {"sent", "answered"} => HasWorker(c)
       /\ call[c] \in {"start", "dispose"} => c \in btsStarted
       /\ c \in loaded => c \in btsStarted
       /\ at[c] = "answered" /\ call[c] = "dispose" => c \notin loaded
  /\ DestroyedFirst

-----------------------------------------------------------------------------
(* Types *)

LEMMA TypeInitial == Init => TypeOK
  BY ConstantsAssumption DEF Init, TypeOK, Undefined, Calls

LEMMA ReleaseType ==
  ASSUME NEW c \in created, TypeOK, Release(c)
  PROVE  /\ webWorker' = webWorker /\ alive' \subseteq Cards
         /\ contextIdToBackgroundWorker' \in
              [Groups -> [worker : Cards, runningCards : Nat \ {0}] \cup {Undefined}]
         /\ disposing' \subseteq created /\ disposed' \subseteq created
         /\ miscounted' \subseteq Groups
<1>1. /\ webWorker' = webWorker /\ disposing' \subseteq created /\ disposed' \subseteq created
      /\ alive' \subseteq Cards /\ miscounted' \subseteq Groups
  BY ConstantsAssumption DEF Release, Leave, LeavesUnjoined, Shared, TypeOK
<1>2. contextIdToBackgroundWorker' \in
        [Groups -> [worker : Cards, runningCards : Nat \ {0}] \cup {Undefined}]
  <2>1. CASE Shared(c) /\ Pool(group[c]) # Undefined
    <3>1. /\ group[c] \in Groups
          /\ Pool(group[c]) \in [worker : Cards, runningCards : Nat \ {0}]
      BY <2>1, ConstantsAssumption DEF TypeOK, Shared, Pool
    <3>2. ~IsLastCard(group[c]) =>
            [Pool(group[c]) EXCEPT !.runningCards = @ - 1]
              \in [worker : Cards, runningCards : Nat \ {0}]
      BY <3>1 DEF IsLastCard, Pool
    <3>. QED
      BY <2>1, <3>1, <3>2 DEF Release, Leave, TypeOK, Pool
  <2>2. CASE ~(Shared(c) /\ Pool(group[c]) # Undefined)
    BY <2>2 DEF Release, TypeOK, Pool
  <2>. QED
    BY <2>1, <2>2
<1>. QED
  BY <1>1, <1>2

LEMMA TypeInductive == TypeOK /\ CallInv /\ [Next]_vars => TypeOK'
<1> SUFFICES ASSUME TypeOK, CallInv, [Next]_vars PROVE TypeOK'
  OBVIOUS
<1>1. CASE UNCHANGED vars
  BY <1>1 DEF TypeOK, vars, poolVars, btsVars, callVars
<1>2. ASSUME NEW c \in Cards, Create(c) PROVE TypeOK'
  BY <1>2 DEF Create, TypeOK, poolVars, btsVars, callVars
<1>3. ASSUME NEW c \in Cards, startWebWorker(c) PROVE TypeOK'
  <2>1. /\ webWorker' \in [Cards -> Cards \cup {NoWorker}] /\ alive' \subseteq Cards
        /\ contextIdToBackgroundWorker' \in
             [Groups -> [worker : Cards, runningCards : Nat \ {0}] \cup {Undefined}]
    <3>1. CASE JoinsGroup(c)
      <4>1. /\ group[c] \in Groups
            /\ Pool(group[c]) \in [worker : Cards, runningCards : Nat \ {0}]
        BY <3>1, ConstantsAssumption DEF JoinsGroup, TypeOK, Shared, Pool
      <4>2. Joined(group[c]) \in [worker : Cards, runningCards : Nat \ {0}]
        BY <4>1 DEF Joined, Pool
      <4>. QED
        BY <1>3, <3>1, <4>1, <4>2 DEF startWebWorker, TypeOK, Pool
    <3>2. CASE ~JoinsGroup(c)
      BY <1>3, <3>2, ConstantsAssumption DEF startWebWorker, TypeOK, Shared
    <3>. QED
      BY <3>1, <3>2
  <2>2. at' \in [Cards -> {"none", "queued", "sent", "answered"}]
    BY <1>3 DEF startWebWorker, TypeOK
  <2>. QED
    BY <1>3, <2>1, <2>2 DEF startWebWorker, TypeOK, btsVars
<1>4. ASSUME NEW c \in Cards, onBTSScriptsLoaded(c) PROVE TypeOK'
  BY <1>4 DEF onBTSScriptsLoaded, Invoke, TypeOK, poolVars, btsVars, Calls
<1>5. ASSUME NEW c \in Cards, asyncDispose(c) PROVE TypeOK'
  <2>1. CASE MustWait(c)
    BY <1>5, <2>1 DEF asyncDispose, Invoke, TypeOK, poolVars, btsVars, callVars, Calls
  <2>2. CASE ~MustWait(c)
    BY <1>5, <2>2, ReleaseType DEF asyncDispose, TypeOK, btsVars, callVars
  <2>. QED
    BY <2>1, <2>2
<1>6. ASSUME NEW c \in Cards, Answer(c) PROVE TypeOK'
  BY <1>6 DEF Answer, TypeOK, poolVars, btsVars
<1>7. ASSUME NEW c \in Cards, startBTS(c) PROVE TypeOK'
  BY <1>7 DEF startBTS, Invoke, TypeOK, poolVars, Calls
<1>8. ASSUME NEW c \in Cards, resolveBtsReady(c) PROVE TypeOK'
  BY <1>8 DEF resolveBtsReady, Answered, Invoke, TypeOK, poolVars, Calls, CallInv
<1>9. ASSUME NEW c \in Cards, disposeReturns(c) PROVE TypeOK'
  <2>1. c \in created
    BY <1>9 DEF disposeReturns, Answered, CallInv
  <2>. QED
    BY <1>9, <2>1, ReleaseType DEF disposeReturns, TypeOK, btsVars, callVars
<1>. QED
  BY <1>1, <1>2, <1>3, <1>4, <1>5, <1>6, <1>7, <1>8, <1>9 DEF Next
-----------------------------------------------------------------------------
(* Calls *)

LEMMA CallInitial == Init => CallInv
  BY DEF Init, CallInv, DestroyedFirst

LEMMA CallInductive == TypeOK /\ CallInv /\ [Next]_vars => CallInv'
<1> SUFFICES ASSUME TypeOK, CallInv, [Next]_vars PROVE CallInv'
  OBVIOUS
<1> USE DEF CallInv, TypeOK, DestroyedFirst, HasWorker
<1>1. CASE UNCHANGED vars
  BY <1>1 DEF vars, poolVars, btsVars, callVars
<1>2. ASSUME NEW c \in Cards, Create(c) PROVE CallInv'
  BY <1>2 DEF Create, poolVars, btsVars, callVars
<1>3. ASSUME NEW c \in Cards, startWebWorker(c) PROVE CallInv'
  <2>1. webWorker'[c] # NoWorker /\ \A d \in Cards \ {c} : webWorker'[d] = webWorker[d]
    <3>1. CASE JoinsGroup(c)
      <4>1. group[c] \in Groups /\ Pool(group[c]).worker \in Cards
        BY <3>1, ConstantsAssumption DEF JoinsGroup, Shared, Pool
      <4>. QED
        BY <1>3, <3>1, <4>1, ConstantsAssumption DEF startWebWorker, Pool
    <3>2. CASE ~JoinsGroup(c)
      BY <1>3, <3>2, ConstantsAssumption DEF startWebWorker
    <3>. QED
      BY <3>1, <3>2
  <2>2. \A d \in Cards \ {c} : at'[d] = at[d]
    BY <1>3 DEF startWebWorker
  <2>3. at'[c] = "answered" => at[c] = "answered"
    BY <1>3 DEF startWebWorker
  <2>. QED
    BY <1>3, <2>1, <2>2, <2>3 DEF startWebWorker, btsVars
<1>4. ASSUME NEW c \in Cards, onBTSScriptsLoaded(c) PROVE CallInv'
  BY <1>4 DEF onBTSScriptsLoaded, Invoke, poolVars, btsVars
<1>5. ASSUME NEW c \in Cards, asyncDispose(c) PROVE CallInv'
  <2>1. CASE MustWait(c)
    BY <1>5, <2>1 DEF asyncDispose, MustWait, Invoke, poolVars, btsVars, callVars
  <2>2. CASE ~MustWait(c)
    BY <1>5, <2>2 DEF asyncDispose, MustWait, Release, btsVars, callVars
  <2>. QED
    BY <2>1, <2>2
<1>6. ASSUME NEW c \in Cards, Answer(c) PROVE CallInv'
  BY <1>6 DEF Answer, poolVars, btsVars
<1>7. ASSUME NEW c \in Cards, startBTS(c) PROVE CallInv'
  BY <1>7 DEF startBTS, Answered, Invoke, poolVars
<1>8. ASSUME NEW c \in Cards, resolveBtsReady(c) PROVE CallInv'
  BY <1>8 DEF resolveBtsReady, Answered, Invoke, poolVars
<1>9. ASSUME NEW c \in Cards, disposeReturns(c) PROVE CallInv'
  BY <1>9 DEF disposeReturns, Answered, Release, btsVars, callVars
<1>. QED
  BY <1>1, <1>2, <1>3, <1>4, <1>5, <1>6, <1>7, <1>8, <1>9 DEF Next

\* Types, and the order in which a card is loaded, destroyed and disposed, hold whenever
\* cards are disposed.
THEOREM TypeCorrect == Spec => []TypeOK
<1>1. TypeOK /\ CallInv /\ [Next]_vars => (TypeOK /\ CallInv)'
  BY TypeInductive, CallInductive
<1>. QED
  BY <1>1, TypeInitial, CallInitial, PTL DEF Spec

THEOREM LoadedCardsAreDestroyed == Spec => []DestroyedFirst
<1>1. TypeOK /\ CallInv /\ [Next]_vars => (TypeOK /\ CallInv)'
  BY TypeInductive, CallInductive
<1>2. CallInv => DestroyedFirst
  BY DEF CallInv
<1>. QED
  BY <1>1, <1>2, TypeInitial, CallInitial, PTL DEF Spec
-----------------------------------------------------------------------------
(* The pool *)

LEMMA UsersFinite == \A g : IsFiniteSet(Users(g)) /\ Cardinality(Users(g)) \in Nat
  BY ConstantsAssumption, FS_Subset, FS_CardinalityType DEF Users

LEMMA PoolInitial == Init => PoolInv
  BY DEF Init, PoolInv, PoolCounts, PoolNames, OwnWorkers, SoloWorkers, AliveForAReason, Pool,
         Users, Running, HasWorker, CountedGroups

LEMMA PoolUntouched ==
  ASSUME PoolInv, UNCHANGED poolVars, UNCHANGED disposed, UNCHANGED miscounted
  PROVE  PoolInv'
  BY DEF PoolInv, PoolCounts, PoolNames, OwnWorkers, SoloWorkers, AliveForAReason, Pool, Users,
         Running, HasWorker, CountedGroups, poolVars

\* Whatever becomes of a miscounted group and its workers concerns no other card.
LEMMA PoolMiscounted ==
  ASSUME TypeOK, PoolInv, OwnWorkers', NEW g \in Groups,
         g \in miscounted', miscounted \subseteq miscounted',
         \A h \in Groups \ {g} : Pool(h)' = Pool(h) /\ Users(h)' = Users(h),
         \A d \in Cards : group[d] # g => webWorker'[d] = webWorker[d]
                                         /\ (Running(d)' <=> Running(d)),
         alive' \subseteq Cards,
         \A w \in Cards : group[w] # g => (w \in alive' <=> w \in alive)
  PROVE  PoolInv'
<1>1. \A h \in CountedGroups' :
        h # g /\ h \in CountedGroups /\ Pool(h)' = Pool(h) /\ Users(h)' = Users(h)
  BY DEF CountedGroups
<1>2. PoolCounts'
  BY <1>1 DEF PoolInv, PoolCounts
<1>3. PoolNames'
  <2>1. ASSUME NEW h \in CountedGroups', Pool(h)' # Undefined
        PROVE  Pool(h)'.worker \in alive' /\ \A c \in Users(h)' : webWorker'[c] = Pool(h)'.worker
    <3>1. /\ h # g /\ h \in CountedGroups /\ Pool(h)' = Pool(h) /\ Users(h)' = Users(h)
      BY <1>1
    <3>2. Pool(h).worker \in alive /\ group[Pool(h).worker] = h
      BY <2>1, <3>1 DEF PoolInv, PoolNames, OwnWorkers, CountedGroups
    <3>3. Pool(h).worker \in Cards
      BY <3>2 DEF TypeOK
    <3>4. \A c \in Users(h) : webWorker'[c] = webWorker[c]
      BY <3>1 DEF Users
    <3>. QED
      BY <2>1, <3>1, <3>2, <3>3, <3>4 DEF PoolInv, PoolNames
  <2>. QED
    BY <2>1 DEF PoolNames
<1>4. SoloWorkers'
  BY ConstantsAssumption DEF PoolInv, SoloWorkers, Shared
<1>5. AliveForAReason'
  <2>1. ASSUME NEW w \in alive'
        PROVE  /\ group[w] \in CountedGroups' =>
                    Pool(group[w])' # Undefined /\ Pool(group[w])'.worker = w
               /\ ~Shared(w) => Running(w)'
    <3>1. w \in Cards
      OBVIOUS
    <3>2. ASSUME group[w] \in CountedGroups'
          PROVE  Pool(group[w])' # Undefined /\ Pool(group[w])'.worker = w
      BY <1>1, <2>1, <3>1, <3>2 DEF PoolInv, AliveForAReason
    <3>3. ASSUME ~Shared(w) PROVE Running(w)'
      BY <2>1, <3>1, <3>3, ConstantsAssumption DEF PoolInv, AliveForAReason, Shared
    <3>. QED
      BY <3>2, <3>3
  <2>. QED
    BY <2>1 DEF AliveForAReason, Shared
<1>. QED
  BY <1>2, <1>3, <1>4, <1>5 DEF PoolInv

LEMMA OwnWorkersJoin ==
  ASSUME TypeOK, OwnWorkers, NEW c \in Cards, startWebWorker(c)
  PROVE  OwnWorkers'
<1>1. CASE JoinsGroup(c)
  <2>1. group[c] \in Groups /\ Pool(group[c]) # Undefined
    BY <1>1, ConstantsAssumption DEF JoinsGroup, Shared, Pool
  <2>2. Pool(group[c]) \in [worker : Cards, runningCards : Nat \ {0}]
    BY <2>1 DEF TypeOK, Pool
  <2>3. /\ webWorker' = [webWorker EXCEPT ![c] = Pool(group[c]).worker]
        /\ contextIdToBackgroundWorker' =
             [contextIdToBackgroundWorker EXCEPT ![group[c]] = Joined(group[c])]
    BY <1>1 DEF startWebWorker, Pool
  <2>4. /\ Joined(group[c]).worker = Pool(group[c]).worker
        /\ group[Pool(group[c]).worker] = group[c]
    BY <2>1, <2>2 DEF Joined, Pool, OwnWorkers
  <2>5. \A g \in Groups :
          Pool(g)' = IF g = group[c] THEN Joined(group[c]) ELSE Pool(g)
    BY <2>3 DEF Pool, TypeOK
  <2>6. \A d \in Cards :
          webWorker'[d] = IF d = c THEN Pool(group[c]).worker ELSE webWorker[d]
    BY <2>3 DEF TypeOK
  <2>7. \A g \in Groups : Pool(g)' # Undefined => group[Pool(g)'.worker] = g
    BY <2>4, <2>5 DEF OwnWorkers
  <2>8. \A d \in Cards : Shared(d) /\ HasWorker(d)' => group[webWorker'[d]] = group[d]
    BY <2>4, <2>6 DEF OwnWorkers, HasWorker
  <2>. QED
    BY <2>7, <2>8 DEF OwnWorkers, Shared
<1>2. CASE ~JoinsGroup(c)
  <2>1. \A d \in Cards : webWorker'[d] = IF d = c THEN c ELSE webWorker[d]
    BY <1>2 DEF startWebWorker, TypeOK
  <2>2. \A g \in Groups : Pool(g)' = Pool(g) \/ (group[c] = g /\ Pool(g)'.worker = c)
    <3>1. CASE Shared(c)
      <4>1. contextIdToBackgroundWorker' = [contextIdToBackgroundWorker EXCEPT
              ![group[c]] = [worker |-> c, runningCards |-> 1]]
        BY <1>2, <3>1 DEF startWebWorker
      <4>. QED
        BY <4>1 DEF TypeOK, Pool
    <3>2. CASE ~Shared(c)
      BY <1>2, <3>2 DEF startWebWorker, Pool
    <3>. QED
      BY <3>1, <3>2
  <2>3. \A g \in Groups : Pool(g)' # Undefined => group[Pool(g)'.worker] = g
    BY <2>2 DEF OwnWorkers
  <2>4. \A d \in Cards : Shared(d) /\ HasWorker(d)' => group[webWorker'[d]] = group[d]
    BY <2>1 DEF OwnWorkers, HasWorker
  <2>. QED
    BY <2>3, <2>4 DEF OwnWorkers, Shared
<1>. QED
  BY <1>1, <1>2

LEMMA OwnWorkersLeave ==
  ASSUME TypeOK, OwnWorkers, NEW c \in Cards, Release(c)
  PROVE  OwnWorkers'
<1>1. webWorker' = webWorker
  BY DEF Release
<1>2. ASSUME NEW g \in Groups, Pool(g)' # Undefined
      PROVE  Pool(g) # Undefined /\ Pool(g)'.worker = Pool(g).worker
  <2>1. CASE Shared(c) /\ Pool(group[c]) # Undefined /\ g = group[c]
    <3>1. Pool(g) \in [worker : Cards, runningCards : Nat \ {0}]
      BY <2>1 DEF TypeOK, Pool
    <3>2. ~IsLastCard(g) /\ Pool(g)' = [Pool(g) EXCEPT !.runningCards = @ - 1]
      BY <1>2, <2>1 DEF Release, Leave, TypeOK, Pool
    <3>. QED
      BY <2>1, <3>1, <3>2
  <2>2. CASE ~(Shared(c) /\ Pool(group[c]) # Undefined /\ g = group[c])
    <3>1. Pool(g)' = Pool(g)
      BY <2>2 DEF Release, Leave, TypeOK, Pool
    <3>. QED
      BY <1>2, <3>1
  <2>. QED
    BY <2>1, <2>2
<1>. QED
  BY <1>1, <1>2 DEF OwnWorkers, HasWorker, Shared

\* A card that gets its worker is one more user of its group.
LEMMA PoolJoins ==
  ASSUME TypeOK, PoolInv, NEW c \in Cards, group[c] \notin miscounted, startWebWorker(c)
  PROVE  PoolInv'
<1> DEFINE g == group[c]
<1>0. OwnWorkers' /\ CountedGroups' = CountedGroups
  BY OwnWorkersJoin DEF PoolInv, CountedGroups, startWebWorker
<1>1. /\ c \notin disposed /\ disposed' = disposed /\ webWorker[c] = NoWorker
      /\ webWorker \in [Cards -> Cards \cup {NoWorker}]
      /\ contextIdToBackgroundWorker \in
           [Groups -> [worker : Cards, runningCards : Nat \ {0}] \cup {Undefined}]
  BY DEF startWebWorker, HasWorker, TypeOK
<1>2. CASE JoinsGroup(c)
  <2>1. /\ g \in CountedGroups /\ Shared(c) /\ Pool(g) # Undefined
        /\ Pool(g) \in [worker : Cards, runningCards : Nat \ {0}]
    BY <1>1, <1>2, ConstantsAssumption DEF JoinsGroup, Shared, Pool, CountedGroups
  <2>2. /\ webWorker' = [webWorker EXCEPT ![c] = Pool(g).worker] /\ alive' = alive
        /\ contextIdToBackgroundWorker' = [contextIdToBackgroundWorker EXCEPT ![g] = Joined(g)]
    BY <1>2 DEF startWebWorker, Pool
  <2>3. /\ Pool(g)' = [worker |-> Pool(g).worker, runningCards |-> Pool(g).runningCards + 1]
        /\ \A h \in Groups \ {g} : Pool(h)' = Pool(h)
    BY <1>1, <2>1, <2>2 DEF Joined, Pool, CountedGroups
  <2>4. Pool(g)' # Undefined
    BY <2>1, <2>3, ConstantsAssumption DEF Undefined
  <2>5. /\ Users(g)' = Users(g) \cup {c} /\ c \notin Users(g)
        /\ \A h \in Groups \ {g} : Users(h)' = Users(h)
    BY <1>1, <2>1, <2>2, ConstantsAssumption DEF Users, Running, HasWorker
  <2>6. Cardinality(Users(g)') = Cardinality(Users(g)) + 1
    BY <2>5, UsersFinite, FS_AddElement
  <2>7. PoolCounts'
    <3>1. Pool(g)'.runningCards = Cardinality(Users(g)')
      BY <2>1, <2>3, <2>6 DEF PoolInv, PoolCounts
    <3>. QED
      BY <1>0, <2>3, <2>4, <2>5, <3>1 DEF PoolInv, PoolCounts, CountedGroups
  <2>8. PoolNames'
    <3>1. \A d \in Cards : webWorker'[d] = IF d = c THEN Pool(g).worker ELSE webWorker[d]
      BY <1>1, <2>2
    <3>2. ASSUME NEW h \in CountedGroups \ {g}, Pool(h)' # Undefined
          PROVE  /\ Pool(h)'.worker \in alive'
                 /\ \A d \in Users(h)' : webWorker'[d] = Pool(h)'.worker
      <4>1. Pool(h)' = Pool(h) /\ Users(h)' = Users(h)
        BY <2>3, <2>5 DEF CountedGroups
      <4>2. \A d \in Users(h) : d # c /\ webWorker'[d] = webWorker[d]
        BY <3>1 DEF Users
      <4>. QED
        BY <2>2, <3>2, <4>1, <4>2 DEF PoolInv, PoolNames
    <3>3. \A d \in Users(g) \cup {c} : webWorker'[d] = Pool(g).worker
      BY <2>1, <3>1 DEF PoolInv, PoolNames, Users
    <3>4. /\ Pool(g)'.worker \in alive'
          /\ \A d \in Users(g)' : webWorker'[d] = Pool(g)'.worker
      BY <2>1, <2>2, <2>3, <2>5, <3>3 DEF PoolInv, PoolNames
    <3>. QED
      BY <1>0, <3>2, <3>4 DEF PoolNames
  <2>9. SoloWorkers'
    BY <1>1, <2>1, <2>2 DEF PoolInv, SoloWorkers, Shared, Running, HasWorker
  <2>10. AliveForAReason'
    <3>1. \A w \in alive : ~Shared(w) => Running(w)' = Running(w)
      BY <1>1, <2>1, <2>2 DEF Running, HasWorker
    <3>. QED
      BY <1>0, <2>1, <2>2, <2>3, <2>4, <3>1
         DEF PoolInv, AliveForAReason, Shared, CountedGroups
  <2>. QED
    BY <1>0, <2>7, <2>8, <2>9, <2>10 DEF PoolInv
<1>3. CASE ~JoinsGroup(c)
  <2>1. /\ webWorker' = [webWorker EXCEPT ![c] = c] /\ alive' = alive \cup {c}
        /\ contextIdToBackgroundWorker' =
             IF Shared(c) THEN [contextIdToBackgroundWorker EXCEPT
                                  ![g] = [worker |-> c, runningCards |-> 1]]
             ELSE contextIdToBackgroundWorker
    BY <1>3 DEF startWebWorker
  <2>2. Shared(c) => g \in CountedGroups /\ Pool(g) = Undefined /\ Users(g) = {}
    BY <1>3, ConstantsAssumption DEF JoinsGroup, Shared, Pool, PoolInv, PoolCounts, CountedGroups
  <2>3. \A d \in Cards : webWorker'[d] = IF d = c THEN c ELSE webWorker[d]
    BY <1>1, <2>1
  <2>4. c # NoWorker
    BY ConstantsAssumption
  <2>5. /\ \A h \in Groups \ {g} : Pool(h)' = Pool(h) /\ Users(h)' = Users(h)
        /\ Shared(c) => /\ Pool(g)' = [worker |-> c, runningCards |-> 1]
                        /\ Users(g)' = {c} /\ Pool(g)' # Undefined
    <3>1. \A h \in Groups \ {g} : Pool(h)' = Pool(h)
      BY <1>1, <2>1 DEF Pool
    <3>2. \A h \in Groups \ {g} : Users(h)' = Users(h)
      BY <1>1, <2>3 DEF Users, Running, HasWorker
    <3>3. Shared(c) => Pool(g)' = [worker |-> c, runningCards |-> 1]
      BY <1>1, <2>1, <2>2 DEF Pool, CountedGroups
    <3>4. Shared(c) => Users(g)' = {c}
      BY <1>1, <2>2, <2>3, <2>4 DEF Users, Running, HasWorker
    <3>5. Shared(c) => Pool(g)' # Undefined
      BY <3>3, <2>4 DEF Undefined
    <3>. QED
      BY <3>1, <3>2, <3>3, <3>4, <3>5
  <2>6. ~Shared(c) => g \notin Groups
    BY ConstantsAssumption DEF Shared
  <2>7. PoolCounts'
    <3>1. Cardinality({c}) = 1
      BY FS_Singleton
    <3>2. ASSUME NEW h \in CountedGroups \ {g}
          PROVE  IF Pool(h)' = Undefined THEN Users(h)' = {}
                 ELSE Pool(h)'.runningCards = Cardinality(Users(h)')
      <4>1. Pool(h)' = Pool(h) /\ Users(h)' = Users(h)
        BY <2>5 DEF CountedGroups
      <4>. QED
        BY <4>1 DEF PoolInv, PoolCounts
    <3>3. Shared(c) => Pool(g)'.runningCards = Cardinality(Users(g)')
      BY <2>5, <3>1
    <3>. QED
      BY <1>0, <2>5, <2>6, <3>2, <3>3 DEF PoolCounts, CountedGroups
  <2>8. PoolNames'
    <3>1. ASSUME NEW h \in CountedGroups \ {g}, Pool(h)' # Undefined
          PROVE  /\ Pool(h)'.worker \in alive'
                 /\ \A d \in Users(h)' : webWorker'[d] = Pool(h)'.worker
      <4>1. Pool(h)' = Pool(h) /\ Users(h)' = Users(h)
        BY <2>5 DEF CountedGroups
      <4>2. \A d \in Users(h) : d # c /\ webWorker'[d] = webWorker[d]
        BY <2>3 DEF Users
      <4>. QED
        BY <2>1, <3>1, <4>1, <4>2 DEF PoolInv, PoolNames
    <3>2. ASSUME Shared(c)
          PROVE  /\ Pool(g)'.worker \in alive'
                 /\ \A d \in Users(g)' : webWorker'[d] = Pool(g)'.worker
      BY <2>1, <2>3, <2>5, <3>2
    <3>. QED
      BY <1>0, <2>6, <3>1, <3>2 DEF PoolNames, CountedGroups
  <2>9. SoloWorkers'
    BY <1>1, <2>1, <2>3 DEF PoolInv, SoloWorkers, Shared, Running, HasWorker
  <2>10. AliveForAReason'
    <3>1. ASSUME NEW w \in alive, w # c, group[w] \in CountedGroups
          PROVE  Pool(group[w])' # Undefined /\ Pool(group[w])'.worker = w
      <4>1. Pool(group[w]) # Undefined /\ Pool(group[w]).worker = w
        BY <3>1 DEF PoolInv, AliveForAReason
      <4>2. group[w] # g
        BY <2>2, <2>6, <3>1, <4>1 DEF CountedGroups
      <4>. QED
        BY <2>5, <3>1, <4>1, <4>2 DEF CountedGroups
    <3>2. ASSUME NEW w \in alive, w # c, ~Shared(w) PROVE Running(w)'
      BY <1>1, <2>3, <3>2 DEF PoolInv, AliveForAReason, TypeOK, Running, HasWorker
    <3>3. IF Shared(c) THEN Pool(g)' # Undefined /\ Pool(g)'.worker = c ELSE Running(c)'
      BY <1>1, <2>3, <2>4, <2>5 DEF Running, HasWorker
    <3>. QED
      BY <1>0, <2>1, <2>6, <3>1, <3>2, <3>3 DEF AliveForAReason, Shared, CountedGroups
  <2>. QED
    BY <1>0, <2>7, <2>8, <2>9, <2>10 DEF PoolInv
<1>. QED
  BY <1>2, <1>3

\* A card without a group that is disposed takes its worker with it.
LEMMA PoolLosesSolo ==
  ASSUME TypeOK, PoolInv, NEW c \in Cards, c \notin disposed, ~Shared(c), Release(c)
  PROVE  PoolInv'
<1>1. /\ webWorker' = webWorker /\ alive' = alive \ {webWorker[c]}
      /\ contextIdToBackgroundWorker' = contextIdToBackgroundWorker
      /\ disposed' = disposed \cup {c} /\ OwnWorkers' /\ CountedGroups' = CountedGroups
  BY OwnWorkersLeave DEF Release, LeavesUnjoined, PoolInv, CountedGroups
<1>2. /\ \A h \in Groups : Pool(h)' = Pool(h) /\ Users(h)' = Users(h)
      /\ \A d \in Cards : Running(d)' <=> Running(d) /\ d # c
  BY <1>1, ConstantsAssumption DEF Pool, Users, Running, HasWorker, Shared
<1>3. IF HasWorker(c) THEN webWorker[c] = c ELSE webWorker[c] = NoWorker
  BY DEF PoolInv, SoloWorkers, Running, HasWorker
<1>4. PoolCounts'
  BY <1>1, <1>2 DEF PoolInv, PoolCounts, CountedGroups
<1>5. PoolNames'
  <2>1. ASSUME NEW h \in CountedGroups, Pool(h) # Undefined
        PROVE  Pool(h).worker # webWorker[c]
    <3>1. group[Pool(h).worker] = h /\ Pool(h).worker \in Cards
      BY <2>1 DEF PoolInv, OwnWorkers, TypeOK, Pool, CountedGroups
    <3>. QED
      BY <1>3, <3>1, ConstantsAssumption DEF Shared, CountedGroups
  <2>. QED
    BY <1>1, <1>2, <2>1 DEF PoolInv, PoolNames, CountedGroups
<1>6. SoloWorkers'
  BY <1>1, <1>2, <1>3, ConstantsAssumption DEF PoolInv, SoloWorkers, Shared
<1>7. AliveForAReason'
  <2>1. ASSUME NEW w \in alive', group[w] \in CountedGroups
        PROVE  Pool(group[w])' # Undefined /\ Pool(group[w])'.worker = w
    BY <1>1, <1>2, <2>1 DEF PoolInv, AliveForAReason, CountedGroups
  <2>2. ASSUME NEW w \in alive', ~Shared(w) PROVE Running(w)'
    <3>1. w \in alive /\ w \in Cards /\ w # webWorker[c]
      BY <1>1, <2>2 DEF TypeOK
    <3>. QED
      BY <1>2, <1>3, <2>2, <3>1 DEF PoolInv, AliveForAReason, Running
  <2>. QED
    BY <1>1, <2>1, <2>2 DEF AliveForAReason, Shared
<1>. QED
  BY <1>1, <1>4, <1>5, <1>6, <1>7 DEF PoolInv

\* A running card of a group that is disposed leaves the worker to the others, if any.
LEMMA PoolLosesUser ==
  ASSUME TypeOK, PoolInv, NEW c \in Cards, c \notin disposed, HasWorker(c), Shared(c),
         group[c] \notin miscounted, Release(c)
  PROVE  PoolInv'
<1> DEFINE g == group[c]
<1>0. OwnWorkers' /\ CountedGroups' = CountedGroups
  BY OwnWorkersLeave DEF PoolInv, Release, LeavesUnjoined, CountedGroups
<1>1. g \in CountedGroups /\ g \in Groups /\ c \in Users(g)
  BY ConstantsAssumption DEF Shared, Users, Running, CountedGroups
<1>2. Pool(g) # Undefined /\ Pool(g).runningCards = Cardinality(Users(g))
  BY <1>1 DEF PoolInv, PoolCounts
<1>3. /\ contextIdToBackgroundWorker \in
           [Groups -> [worker : Cards, runningCards : Nat \ {0}] \cup {Undefined}]
      /\ Pool(g) \in [worker : Cards, runningCards : Nat \ {0}]
  BY <1>1, <1>2 DEF TypeOK, Pool
<1>4. /\ webWorker' = webWorker /\ disposed' = disposed \cup {c} /\ Leave(g)
  BY <1>2 DEF Release, Pool
<1>5. /\ Users(g)' = Users(g) \ {c}
      /\ \A h \in Groups \ {g} : Users(h)' = Users(h)
      /\ \A d \in Cards : Running(d)' <=> Running(d) /\ d # c
  BY <1>1, <1>4, ConstantsAssumption DEF Users, Running, HasWorker
<1>6. Cardinality(Users(g)') = Pool(g).runningCards - 1 /\ IsFiniteSet(Users(g)')
  BY <1>1, <1>2, <1>5, UsersFinite, FS_RemoveElement
<1>7. \A h \in Groups \ {g} : Pool(h)' = Pool(h)
  BY <1>1, <1>3, <1>4 DEF Leave, Pool
<1>8. SoloWorkers' /\ \A w \in alive : ~Shared(w) => (Running(w)' <=> Running(w))
  <2>1. alive' = alive \/ alive' = alive \ {Pool(g).worker}
    BY <1>4 DEF Leave, Pool
  <2>2. Shared(Pool(g).worker)
    BY <1>1, <1>2, ConstantsAssumption DEF PoolInv, OwnWorkers, Shared
  <2>. QED
    BY <1>4, <1>5, <2>1, <2>2 DEF PoolInv, SoloWorkers, Shared, TypeOK
<1>9. CASE IsLastCard(g)
  <2>1. /\ Pool(g)' = Undefined /\ alive' = alive \ {Pool(g).worker}
        /\ Users(g)' = {}
    <3>1. Cardinality(Users(g)') = 0
      BY <1>3, <1>6, <1>9 DEF IsLastCard, Pool
    <3>. QED
      BY <1>1, <1>3, <1>4, <1>6, <1>9, <3>1, FS_EmptySet DEF Leave, Pool
  <2>2. PoolCounts'
    BY <1>0, <1>5, <1>7, <2>1 DEF PoolInv, PoolCounts, CountedGroups
  <2>3. PoolNames'
    <3>1. ASSUME NEW h \in CountedGroups, Pool(h)' # Undefined
          PROVE  /\ Pool(h)'.worker \in alive'
                 /\ \A d \in Users(h)' : webWorker'[d] = Pool(h)'.worker
      <4>1. h # g /\ Pool(h)' = Pool(h) /\ Users(h)' = Users(h)
        BY <1>5, <1>7, <2>1, <3>1 DEF CountedGroups
      <4>2. Pool(h).worker # Pool(g).worker
        BY <1>1, <1>2, <3>1, <4>1 DEF PoolInv, OwnWorkers, CountedGroups
      <4>. QED
        BY <1>4, <2>1, <3>1, <4>1, <4>2 DEF PoolInv, PoolNames
    <3>. QED
      BY <1>0, <3>1 DEF PoolNames
  <2>4. AliveForAReason'
    <3>1. ASSUME NEW w \in alive', group[w] \in CountedGroups
          PROVE  Pool(group[w])' # Undefined /\ Pool(group[w])'.worker = w
      <4>1. w \in alive /\ w # Pool(g).worker /\ group[w] \in Groups
        BY <2>1, <3>1 DEF CountedGroups
      <4>2. Pool(group[w]) # Undefined /\ Pool(group[w]).worker = w
        BY <3>1, <4>1 DEF PoolInv, AliveForAReason
      <4>3. group[w] # g
        BY <4>1, <4>2
      <4>. QED
        BY <1>7, <4>1, <4>2, <4>3
    <3>2. ASSUME NEW w \in alive', ~Shared(w) PROVE Running(w)'
      BY <1>8, <2>1, <3>2 DEF PoolInv, AliveForAReason
    <3>. QED
      BY <1>0, <3>1, <3>2 DEF AliveForAReason, Shared
  <2>. QED
    BY <1>0, <1>8, <2>2, <2>3, <2>4 DEF PoolInv
<1>10. CASE ~IsLastCard(g)
  <2>1. /\ Pool(g)' = [worker |-> Pool(g).worker, runningCards |-> Pool(g).runningCards - 1]
        /\ alive' = alive
    BY <1>1, <1>3, <1>4, <1>10 DEF Leave, Pool
  <2>2. Pool(g)' # Undefined
    BY <1>3, <2>1, ConstantsAssumption DEF Undefined
  <2>3. PoolCounts'
    <3>1. ASSUME NEW h \in CountedGroups \ {g}
          PROVE  IF Pool(h)' = Undefined THEN Users(h)' = {}
                 ELSE Pool(h)'.runningCards = Cardinality(Users(h)')
      <4>1. Pool(h)' = Pool(h) /\ Users(h)' = Users(h)
        BY <1>5, <1>7 DEF CountedGroups
      <4>. QED
        BY <4>1 DEF PoolInv, PoolCounts
    <3>2. Pool(g)'.runningCards = Cardinality(Users(g)')
      BY <1>6, <2>1
    <3>. QED
      BY <1>0, <2>2, <3>1, <3>2 DEF PoolCounts
  <2>4. PoolNames'
    <3>1. ASSUME NEW h \in CountedGroups, Pool(h)' # Undefined
          PROVE  /\ Pool(h)'.worker \in alive'
                 /\ \A d \in Users(h)' : webWorker'[d] = Pool(h)'.worker
      <4>1. Pool(h)'.worker = Pool(h).worker /\ Pool(h) # Undefined
        BY <1>2, <1>7, <2>1, <3>1 DEF CountedGroups
      <4>2. Users(h)' \subseteq Users(h)
        BY <1>5 DEF CountedGroups
      <4>. QED
        BY <1>4, <2>1, <4>1, <4>2 DEF PoolInv, PoolNames
    <3>. QED
      BY <1>0, <3>1 DEF PoolNames
  <2>5. AliveForAReason'
    <3>1. ASSUME NEW w \in alive, group[w] \in CountedGroups
          PROVE  Pool(group[w])' # Undefined /\ Pool(group[w])'.worker = w
      <4>1. group[w] \in Groups /\ Pool(group[w]) # Undefined /\ Pool(group[w]).worker = w
        BY <3>1 DEF PoolInv, AliveForAReason, CountedGroups
      <4>. QED
        BY <1>7, <2>1, <2>2, <4>1
    <3>2. ASSUME NEW w \in alive, ~Shared(w) PROVE Running(w)'
      BY <1>8, <3>2 DEF PoolInv, AliveForAReason
    <3>. QED
      BY <1>0, <2>1, <3>1, <3>2 DEF AliveForAReason, Shared
  <2>. QED
    BY <1>0, <1>8, <2>3, <2>4, <2>5 DEF PoolInv
<1>. QED
  BY <1>9, <1>10

\* In a group that is miscounted, or becomes so, anything may happen to the group.
LEMMA PoolJoinsMiscounted ==
  ASSUME TypeOK, PoolInv, NEW c \in Cards, group[c] \in miscounted, startWebWorker(c)
  PROVE  PoolInv'
<1> DEFINE g == group[c]
<1>1. g \in Groups /\ Shared(c)
  BY ConstantsAssumption DEF TypeOK, Shared
<1>2. OwnWorkers' /\ miscounted' = miscounted /\ disposed' = disposed
  BY OwnWorkersJoin DEF PoolInv, startWebWorker
<1>3. /\ \A d \in Cards \ {c} : webWorker'[d] = webWorker[d]
      /\ \A h \in Groups \ {g} : Pool(h)' = Pool(h)
      /\ alive' \subseteq alive \cup {c} /\ alive \subseteq alive'
  <2>1. CASE JoinsGroup(c)
    BY <2>1 DEF startWebWorker, Pool, TypeOK
  <2>2. CASE ~JoinsGroup(c)
    <3>1. /\ webWorker' = [webWorker EXCEPT ![c] = c] /\ alive' = alive \cup {c}
          /\ contextIdToBackgroundWorker' = [contextIdToBackgroundWorker EXCEPT
                                              ![g] = [worker |-> c, runningCards |-> 1]]
      BY <1>1, <2>2 DEF startWebWorker
    <3>. QED
      BY <3>1 DEF Pool, TypeOK
  <2>. QED
    BY <2>1, <2>2
<1>4. \A d \in Cards : group[d] # g => (Running(d)' <=> Running(d))
  BY <1>2, <1>3 DEF Running, HasWorker
<1>5. \A h \in Groups \ {g} : Users(h)' = Users(h)
  BY <1>4 DEF Users
<1>6. alive' \subseteq Cards /\ \A w \in Cards : group[w] # g => (w \in alive' <=> w \in alive)
  BY <1>3 DEF TypeOK
<1>7. \A d \in Cards : group[d] # g => webWorker'[d] = webWorker[d]
  BY <1>3
<1>. QED
  BY <1>1, <1>2, <1>3, <1>4, <1>5, <1>6, <1>7, PoolMiscounted

LEMMA PoolLosesMiscounted ==
  ASSUME TypeOK, PoolInv, NEW c \in Cards, Shared(c), group[c] \in miscounted', Release(c)
  PROVE  PoolInv'
<1> DEFINE g == group[c]
<1>1. g \in Groups
  BY ConstantsAssumption DEF Shared
<1>2. /\ OwnWorkers' /\ miscounted \subseteq miscounted' /\ webWorker' = webWorker
      /\ disposed' = disposed \cup {c}
  BY OwnWorkersLeave DEF PoolInv, Release
<1>3. \A h \in Groups \ {g} : Pool(h)' = Pool(h)
  BY DEF Release, Leave, Pool, TypeOK
<1>4. alive' \subseteq Cards /\ \A w \in Cards : group[w] # g => (w \in alive' <=> w \in alive)
  <2>1. alive' = alive \/ (Pool(g) # Undefined /\ alive' = alive \ {Pool(g).worker})
    <3>1. CASE Pool(g) = Undefined
      BY <3>1 DEF Release, Pool
    <3>2. CASE Pool(g) # Undefined
      <4>1. Leave(g)
        BY <3>2 DEF Release, Pool
      <4>. QED
        BY <3>2, <4>1 DEF Leave, Pool
    <3>. QED
      BY <3>1, <3>2
  <2>. QED
    BY <1>1, <2>1 DEF PoolInv, OwnWorkers, TypeOK
<1>5. \A d \in Cards : group[d] # g => (Running(d)' <=> Running(d))
  BY <1>2 DEF Running, HasWorker
<1>6. \A h \in Groups \ {g} : Users(h)' = Users(h)
  BY <1>5 DEF Users
<1>. QED
  BY <1>1, <1>2, <1>3, <1>4, <1>5, <1>6, PoolMiscounted

\* A card that has no worker, of a group that has none: only the card is gone.
LEMMA PoolLosesNothing ==
  ASSUME TypeOK, PoolInv, NEW c \in Cards, Shared(c), ~HasWorker(c),
         Pool(group[c]) = Undefined, Release(c)
  PROVE  PoolInv'
<1>1. /\ UNCHANGED poolVars /\ UNCHANGED miscounted /\ disposed' = disposed \cup {c}
  BY DEF Release, LeavesUnjoined, Pool, poolVars
<1>2. /\ \A d \in Cards : Running(d)' <=> Running(d)
      /\ \A h \in Groups : Pool(h)' = Pool(h)
  BY <1>1 DEF Running, HasWorker, Pool, poolVars
<1>3. \A h \in Groups : Users(h)' = Users(h)
  BY <1>2 DEF Users
<1>. QED
  BY <1>1, <1>2, <1>3 DEF PoolInv, PoolCounts, PoolNames, OwnWorkers, SoloWorkers,
     AliveForAReason, CountedGroups, HasWorker, Shared, poolVars, TypeOK

LEMMA PoolLoses ==
  ASSUME TypeOK, PoolInv, NEW c \in Cards, c \notin disposed, Release(c)
  PROVE  PoolInv'
<1>1. CASE ~Shared(c)
  BY <1>1, PoolLosesSolo
<1>2. CASE Shared(c) /\ group[c] \in miscounted'
  BY <1>2, PoolLosesMiscounted
<1>3. CASE Shared(c) /\ group[c] \notin miscounted'
  <2>1. group[c] \notin miscounted /\ (HasWorker(c) \/ Pool(group[c]) = Undefined)
    BY <1>3 DEF Release, LeavesUnjoined, Pool
  <2>. QED
    BY <1>3, <2>1, PoolLosesUser, PoolLosesNothing
<1>. QED
  BY <1>1, <1>2, <1>3

LEMMA PoolInductive == TypeOK /\ PoolInv /\ [Next]_vars => PoolInv'
<1> SUFFICES ASSUME TypeOK, PoolInv, [Next]_vars PROVE PoolInv'
  OBVIOUS
<1>1. CASE UNCHANGED vars
  BY <1>1, PoolUntouched DEF vars
<1>2. ASSUME NEW c \in Cards, Create(c) \/ onBTSScriptsLoaded(c) \/ Answer(c)
                              \/ startBTS(c) \/ resolveBtsReady(c)
      PROVE  PoolInv'
  BY <1>2, PoolUntouched DEF Create, onBTSScriptsLoaded, Answer, startBTS, resolveBtsReady
<1>3. ASSUME NEW c \in Cards, startWebWorker(c) PROVE PoolInv'
  BY <1>3, PoolJoins, PoolJoinsMiscounted
<1>4. ASSUME NEW c \in Cards, asyncDispose(c) PROVE PoolInv'
  <2>1. CASE MustWait(c)
    BY <1>4, <2>1, PoolUntouched DEF asyncDispose
  <2>2. CASE ~MustWait(c)
    BY <1>4, <2>2, PoolLoses DEF asyncDispose
  <2>. QED
    BY <2>1, <2>2
<1>5. ASSUME NEW c \in Cards, disposeReturns(c) PROVE PoolInv'
  BY <1>5, PoolLoses DEF disposeReturns, Answered
<1>. QED
  BY <1>1, <1>2, <1>3, <1>4, <1>5 DEF Next

-----------------------------------------------------------------------------
(* What the pool promises *)

LEMMA PoolInvImplies ==
  TypeOK /\ PoolInv => RunningCardsHaveWorkers /\ WorkersFollowCards
<1> SUFFICES ASSUME TypeOK, PoolInv
             PROVE  RunningCardsHaveWorkers /\ WorkersFollowCards
  OBVIOUS
<1>1. ASSUME NEW c \in Cards, Running(c), Shared(c), IsCounted(c)
      PROVE  webWorker[c] = Pool(group[c]).worker /\ webWorker[c] \in alive
  <2>1. group[c] \in CountedGroups /\ c \in Users(group[c])
    BY <1>1, ConstantsAssumption DEF Shared, Users, IsCounted, CountedGroups
  <2>2. Pool(group[c]) # Undefined
    BY <2>1 DEF PoolInv, PoolCounts
  <2>. QED
    BY <2>1, <2>2 DEF PoolInv, PoolNames
<1>2. ASSUME NEW c \in Cards, Running(c), ~Shared(c)
      PROVE  webWorker[c] = c /\ webWorker[c] \in alive
  BY <1>2 DEF PoolInv, SoloWorkers
<1>3. RunningCardsHaveWorkers
  BY <1>1, <1>2 DEF RunningCardsHaveWorkers
<1>4. ASSUME NEW c \in Cards, NEW d \in Cards, Running(c), Running(d), c # d
      PROVE  /\ webWorker[c] = webWorker[d] => Shared(c) /\ group[c] = group[d]
             /\ Shared(c) /\ group[c] = group[d] /\ IsCounted(c) => webWorker[c] = webWorker[d]
  <2>1. \A b \in {c, d} : group[webWorker[b]] = group[b]
    BY <1>2, <1>4 DEF PoolInv, OwnWorkers, Running
  <2>2. webWorker[c] = webWorker[d] => Shared(c) /\ group[c] = group[d]
    BY <1>2, <1>4, <2>1 DEF Shared
  <2>3. Shared(c) /\ group[c] = group[d] /\ IsCounted(c) => webWorker[c] = webWorker[d]
    BY <1>1, <1>4 DEF Shared, IsCounted
  <2>. QED
    BY <2>2, <2>3
<1>5. ASSUME NEW w \in alive, IsCounted(w) PROVE \E c \in Cards : Running(c) /\ webWorker[c] = w
  <2>1. CASE Shared(w)
    <3>1. /\ group[w] \in CountedGroups /\ Pool(group[w]) # Undefined
          /\ Pool(group[w]).worker = w
      BY <1>5, <2>1, ConstantsAssumption
         DEF PoolInv, AliveForAReason, TypeOK, Shared, IsCounted, CountedGroups
    <3>2. Pool(group[w]).runningCards = Cardinality(Users(group[w]))
      BY <3>1 DEF PoolInv, PoolCounts
    <3>3. Pool(group[w]).runningCards \in Nat \ {0}
      BY <3>1 DEF TypeOK, Pool, CountedGroups
    <3>4. PICK c \in Users(group[w]) : TRUE
      BY <3>2, <3>3, FS_EmptySet
    <3>. QED
      BY <3>1, <3>4 DEF PoolInv, PoolNames, Users
  <2>2. CASE ~Shared(w)
    BY <1>5, <2>2 DEF PoolInv, AliveForAReason, SoloWorkers, TypeOK
  <2>. QED
    BY <2>1, <2>2
<1>. QED
  BY <1>3, <1>4, <1>5 DEF WorkersFollowCards

\* A running card keeps its worker, whatever other cards do, those of its group that leave
\* without having joined it excepted.
THEOREM WorkersSafe == Spec => []RunningCardsHaveWorkers
<1>1. (TypeOK /\ CallInv /\ PoolInv) /\ [Next]_vars => (TypeOK /\ CallInv /\ PoolInv)'
  BY TypeInductive, CallInductive, PoolInductive
<1>. QED
  BY <1>1, TypeInitial, CallInitial, PoolInitial, PoolInvImplies, PTL DEF Spec

\* And a group shares one worker, which is terminated with the last of the cards that
\* run in it.
THEOREM WorkersShared == Spec => []WorkersFollowCards
<1>1. (TypeOK /\ CallInv /\ PoolInv) /\ [Next]_vars => (TypeOK /\ CallInv /\ PoolInv)'
  BY TypeInductive, CallInductive, PoolInductive
<1>. QED
  BY <1>1, TypeInitial, CallInitial, PoolInitial, PoolInvImplies, PTL DEF Spec

-----------------------------------------------------------------------------
(* The bundle loader *)

Handlers == [url : BundleUrls, label : Labels, request : Requests]
Messages == [url : BundleUrls, type : {"section", "done", "error"}, label : Labels \cup {"none"}]

-----------------------------------------------------------------------------
(* Maps and queues                                                          *)

LEMMA LabelsOfSections == \A k \in 1..Len(Sections) : Sections[k] \in Labels
  BY LoaderAssumption DEF Labels, ToSet

LEMMA InboxLabels ==
  ASSUME LoaderTypeOK
  PROVE  /\ DOMAIN inbox = 1..Len(inbox) /\ Len(inbox) \in Nat
         /\ \A n \in 1..Len(inbox) : inbox[n].type = "section" => inbox[n].label \in Labels
<1>1. DOMAIN inbox = 1..Len(inbox) /\ Len(inbox) \in Nat
  BY DEF LoaderTypeOK
<1>2. \A n \in DOMAIN inbox : inbox[n].type = "section" => inbox[n].label \in Labels
  BY DEF LoaderTypeOK
<1>. QED
  BY <1>1, <1>2

\* What the worker posts.
LEMMA InboxGrows ==
  ASSUME LoaderTypeOK, NEW u \in BundleUrls, NEW kind \in {"section", "done", "error"},
         NEW label \in Labels \cup {"none"}, Post(u, kind, label)
  PROVE  /\ inbox' \in Seq(Messages)
         /\ Len(inbox) \in Nat /\ Len(inbox') = Len(inbox) + 1
         /\ inbox'[Len(inbox) + 1] = [url |-> u, type |-> kind, label |-> label]
         /\ \A n \in 1..Len(inbox) : inbox'[n] = inbox[n]
         /\ (kind = "section" => label \in Labels) =>
              \A n \in DOMAIN inbox' : inbox'[n].type = "section" => inbox'[n].label \in Labels
<1> DEFINE m == [url |-> u, type |-> kind, label |-> label]
<1>1. inbox \in Seq(Messages) /\ m \in Messages
  BY DEF LoaderTypeOK, Messages
<1>2. inbox' = Append(inbox, m)
  BY DEF Post
<1> HIDE DEF m
<1>3. Len(inbox) \in Nat
  BY <1>1
<1>4. /\ inbox' \in Seq(Messages) /\ Len(inbox') = Len(inbox) + 1
      /\ inbox'[Len(inbox) + 1] = m
      /\ \A n \in 1..Len(inbox) : inbox'[n] = inbox[n]
  BY <1>1, <1>2, AppendProperties
<1>5. m.type = kind /\ m.label = label
  BY DEF m
<1>6. (kind = "section" => label \in Labels) =>
        \A n \in DOMAIN inbox' : inbox'[n].type = "section" => inbox'[n].label \in Labels
  <2>1. DOMAIN inbox' = 1..(Len(inbox) + 1)
    BY <1>4
  <2>2. \A n \in 1..(Len(inbox) + 1) : n = Len(inbox) + 1 \/ n \in 1..Len(inbox)
    BY <1>3
  <2>. QED
    BY <1>4, <1>5, <2>1, <2>2, InboxLabels
<1>. QED
  BY <1>3, <1>4, <1>6 DEF m

\* What the main thread takes.
LEMMA InboxShrinks ==
  ASSUME LoaderTypeOK, NEW kind, Message(kind)
  PROVE  /\ inbox' \in Seq(Messages) /\ inbox[1] \in Messages /\ Head(inbox) = inbox[1]
         /\ inbox[1].type = kind
         /\ Len(inbox) \in Nat \ {0} /\ Len(inbox') = Len(inbox) - 1
         /\ \A n \in 1..Len(inbox') : n + 1 \in 1..Len(inbox) /\ inbox'[n] = inbox[n + 1]
         /\ \A n \in DOMAIN inbox' : inbox'[n].type = "section" => inbox'[n].label \in Labels
         /\ kind = "section" => inbox[1].label \in Labels
<1>1. inbox \in Seq(Messages) /\ inbox # <<>> /\ inbox' = Tail(inbox) /\ Head(inbox).type = kind
  BY DEF LoaderTypeOK, Messages, Message
<1>2. Len(inbox) \in Nat \ {0} /\ Head(inbox) = inbox[1] /\ 1 \in 1..Len(inbox)
  BY <1>1, EmptySeq
<1>3. inbox[1] \in Messages
  BY <1>1, <1>2, ElementOfSeq
<1>4. /\ inbox' \in Seq(Messages) /\ Len(inbox') = Len(inbox) - 1
      /\ \A n \in 1..Len(inbox') : inbox'[n] = inbox[n + 1]
  BY <1>1, HeadTailProperties
<1>5. \A n \in 1..Len(inbox') : n + 1 \in 1..Len(inbox)
  BY <1>2, <1>4
<1>6. DOMAIN inbox' = 1..Len(inbox')
  BY <1>4
<1>. QED
  BY <1>1, <1>2, <1>3, <1>4, <1>5, <1>6, InboxLabels

LEMMA RemoveAtType ==
  ASSUME NEW S, NEW q \in Seq(S), NEW i \in 1..Len(q)
  PROVE  RemoveAt(q, i) \in Seq(S)
<1>1. Len(q) \in Nat /\ i \in 1..Len(q)
  OBVIOUS
<1>2. SubSeq(q, 1, i - 1) \in Seq(S) /\ SubSeq(q, i + 1, Len(q)) \in Seq(S)
  <2>1. \A k \in 1..(i - 1) : q[k] \in S
    BY <1>1, ElementOfSeq
  <2>2. \A k \in (i + 1)..Len(q) : q[k] \in S
    BY <1>1, ElementOfSeq
  <2>3. i - 1 \in Int /\ i + 1 \in Int /\ Len(q) \in Int
    BY <1>1
  <2>. QED
    BY <1>1, <2>1, <2>2, <2>3, SubSeqProperties
<1>. QED
  BY <1>2, ConcatProperties DEF RemoveAt

LEMMA RemoveOnly ==
  ASSUME NEW S, NEW q \in Seq(S), Len(q) <= 1, NEW i \in 1..Len(q)
  PROVE  i = 1 /\ Len(q) = 1 /\ RemoveAt(q, i) = <<>>
<1>1. Len(q) \in Nat
  OBVIOUS
<1>2. i = 1 /\ Len(q) = 1
  <2>1. \A n \in Nat : \A j \in 1..n : n <= 1 => j = 1 /\ n = 1
    OBVIOUS
  <2>. QED
    BY <1>1, <2>1
<1>3. SubSeq(q, 1, 0) = <<>> /\ SubSeq(q, 2, 1) = <<>>
  BY <1>1, SubSeqEmpty
<1>. QED
  BY <1>2, <1>3 DEF RemoveAt

-----------------------------------------------------------------------------
(* Types                                                                    *)

LEMMA LoaderTypeInitial == LoaderInit => LoaderTypeOK
<1> SUFFICES ASSUME LoaderInit PROVE LoaderTypeOK
  OBVIOUS
<1>1. DOMAIN Empty = {}
  BY DEF Empty
<1>2. 0 \in 0..Len(Sections) + 1
  BY LoaderAssumption
<1>3. /\ position \in [BundleUrls -> 0..Len(Sections) + 1] /\ loads \in [BundleUrls -> Nat]
      /\ promise \in [Requests -> {"none", "loads", "loading", "instance", "resolved", "rejected"}]
      /\ given \in [Requests -> SUBSET Labels]
  BY <1>2 DEF LoaderInit
<1>4. /\ handlers \in Seq([url : BundleUrls, label : Labels, request : Requests])
      /\ inbox \in Seq([url : BundleUrls, type : {"section", "done", "error"}, label : Labels \cup {"none"}])
      /\ DOMAIN inbox = {}
  BY EmptySeq DEF LoaderInit
<1>5. /\ prompt \in BOOLEAN /\ ready \in BOOLEAN /\ wasm \in BOOLEAN /\ instances \subseteq Requests
      /\ Asked = {} /\ DOMAIN bundles = {} /\ DOMAIN loadingBundles = {}
      /\ DOMAIN lynxViewInstancesMap = {} /\ loadingPromises = {} /\ awaitingWorker = {}
  BY <1>1 DEF LoaderInit, Asked
<1>. QED
  BY <1>3, <1>4, <1>5 DEF LoaderTypeOK

LEMMA StoredType ==
  ASSUME LoaderTypeOK, NEW h \in Handlers
  PROVE  /\ DOMAIN Stored(h) = DOMAIN loadingBundles
         /\ \A u \in DOMAIN loadingBundles :
              /\ loadingBundles[u] \subseteq Stored(h)[u] /\ Stored(h)[u] \subseteq Labels
              /\ u # h.url => Stored(h)[u] = loadingBundles[u]
         /\ h.url \in DOMAIN loadingBundles =>
              Stored(h)[h.url] = loadingBundles[h.url] \cup {h.label}
<1>1. h.label \in Labels
  BY DEF Handlers
<1>2. \A u \in DOMAIN loadingBundles : loadingBundles[u] \subseteq Labels
  BY DEF LoaderTypeOK
<1>3. CASE h.url \in DOMAIN loadingBundles
  <2>1. Stored(h) = Put(loadingBundles, h.url, loadingBundles[h.url] \cup {h.label})
    BY <1>3 DEF Stored
  <2>2. /\ DOMAIN Stored(h) = DOMAIN loadingBundles
        /\ Stored(h)[h.url] = loadingBundles[h.url] \cup {h.label}
        /\ \A u \in DOMAIN loadingBundles : u # h.url => Stored(h)[u] = loadingBundles[u]
    BY <1>3, <2>1 DEF Put
  <2>. QED
    BY <1>1, <1>2, <2>2
<1>4. CASE h.url \notin DOMAIN loadingBundles
  BY <1>2, <1>4 DEF Stored
<1>. QED
  BY <1>3, <1>4

LEMMA BundleType ==
  ASSUME LoaderTypeOK, NEW u PROVE getBundle(u, bundles, loadingBundles) \subseteq Labels
  BY DEF getBundle, LoaderTypeOK

LEMMA FetchTypeInductive ==
  ASSUME LoaderTypeOK,
         \/ WorkerReady \/ WasmLoaded
         \/ \E r \in Requests : InstanceReady(r) \/ serveCached(r)
         \/ \E u \in BundleUrls : PostLoad(u)
         \/ \E r \in Requests, u \in BundleUrls : fetchBundle(r, u)
  PROVE  LoaderTypeOK'
<1>1. CASE WorkerReady
  BY <1>1 DEF WorkerReady, LoaderTypeOK, mapVars, requestVars, workerVars, Asked
<1>2. CASE WasmLoaded
  BY <1>2 DEF WasmLoaded, LoaderTypeOK, mapVars, requestVars, workerVars, Asked
<1>3. ASSUME NEW r \in Requests, InstanceReady(r) PROVE LoaderTypeOK'
  BY <1>3 DEF InstanceReady, LoaderTypeOK, mapVars, workerVars, Asked
<1>4. ASSUME NEW r \in Requests, serveCached(r) PROVE LoaderTypeOK'
  <2>1. getBundle(wants[r], bundles, loadingBundles) \subseteq Labels
    BY BundleType
  <2>2. /\ given' \in [Requests -> SUBSET Labels]
        /\ promise' \in [Requests -> {"none", "loads", "loading", "instance", "resolved", "rejected"}]
    BY <1>4, <2>1 DEF serveCached, LoaderTypeOK
  <2>. QED
    BY <1>4, <2>2 DEF serveCached, LoaderTypeOK, mapVars, workerVars, Asked
<1>5. ASSUME NEW u \in BundleUrls, PostLoad(u) PROVE LoaderTypeOK'
  <2>1. position' \in [BundleUrls -> 0..Len(Sections) + 1] /\ loads' \in [BundleUrls -> Nat]
    <3>1. 1 \in 0..Len(Sections) + 1
      BY LoaderAssumption
    <3>. QED
      BY <1>5, <3>1 DEF PostLoad, LoaderTypeOK
  <2>. QED
    BY <1>5, <2>1 DEF PostLoad, LoaderTypeOK, mapVars, requestVars, Asked
<1>6. ASSUME NEW r \in Requests, NEW u \in BundleUrls, fetchBundle(r, u) PROVE LoaderTypeOK'
  <2>1. Asked' \subseteq Requests /\ \A x \in Asked' : wants'[x] \in BundleUrls
    <3>1. wants' = Put(wants, r, u)
      BY <1>6 DEF fetchBundle
    <3>2. DOMAIN wants' = DOMAIN wants \cup {r} /\ wants'[r] = u
          /\ \A x \in DOMAIN wants : x # r => wants'[x] = wants[x]
      BY <3>1 DEF Put
    <3>. QED
      BY <3>2 DEF Asked, LoaderTypeOK
  <2>2. promise' \in [Requests -> {"none", "loads", "loading", "instance", "resolved", "rejected"}]
    BY <1>6 DEF fetchBundle, LoaderTypeOK
  <2>3. CASE UNCHANGED <<mapVars, awaitingWorker>>
    BY <1>6, <2>1, <2>2, <2>3 DEF fetchBundle, LoaderTypeOK, mapVars, workerVars
  <2>4. CASE /\ loadingBundles' = Put(loadingBundles, u, {})
             /\ loadingPromises' = loadingPromises \cup {u}
             /\ lynxViewInstancesMap' = Put(lynxViewInstancesMap, u, r)
             /\ awaitingWorker' = awaitingWorker \cup {u}
             /\ UNCHANGED bundles
    <3>1. \A f \in {bundles', loadingBundles'} :
            DOMAIN f \subseteq BundleUrls /\ \A x \in DOMAIN f : f[x] \subseteq Labels
      <4>1. /\ DOMAIN bundles \subseteq BundleUrls /\ DOMAIN loadingBundles \subseteq BundleUrls
            /\ \A x \in DOMAIN bundles : bundles[x] \subseteq Labels
            /\ \A x \in DOMAIN loadingBundles : loadingBundles[x] \subseteq Labels
        BY DEF LoaderTypeOK
      <4>2. /\ DOMAIN loadingBundles' = DOMAIN loadingBundles \cup {u} /\ loadingBundles'[u] = {}
            /\ \A x \in DOMAIN loadingBundles : x # u => loadingBundles'[x] = loadingBundles[x]
        BY <2>4 DEF Put
      <4>. QED
        BY <2>4, <4>1, <4>2
    <3>2. /\ DOMAIN lynxViewInstancesMap' \subseteq BundleUrls
          /\ \A x \in DOMAIN lynxViewInstancesMap' : lynxViewInstancesMap'[x] \in Requests
      BY <2>4 DEF LoaderTypeOK, Put
    <3>3. loadingPromises' \subseteq BundleUrls /\ awaitingWorker' \subseteq BundleUrls
      BY <2>4 DEF LoaderTypeOK
    <3>4. UNCHANGED <<prompt, ready, wasm, instances, given, handlers, position, inbox, loads>>
      BY <1>6 DEF fetchBundle, workerVars
    <3>. QED
      BY <2>1, <2>2, <3>1, <3>2, <3>3, <3>4 DEF LoaderTypeOK
  <2>. QED
    BY <1>6, <2>3, <2>4 DEF fetchBundle
<1>. QED
  BY <1>1, <1>2, <1>3, <1>4, <1>5, <1>6

LEMMA WorkerTypeInductive ==
  ASSUME LoaderTypeOK, NEW u \in BundleUrls, PostSection(u) \/ PostDone(u) \/ PostError(u)
  PROVE  LoaderTypeOK'
<1>1. CASE PostSection(u)
  <2>1. position[u] \in 1..Len(Sections) /\ Sections[position[u]] \in Labels
    BY <1>1, LabelsOfSections, LoaderAssumption DEF PostSection
  <2>2. Post(u, "section", Sections[position[u]])
    BY <1>1 DEF PostSection
  <2>3. inbox' \in Seq(Messages)
        /\ \A n \in DOMAIN inbox' : inbox'[n].type = "section" => inbox'[n].label \in Labels
    BY <2>1, <2>2, InboxGrows
  <2>4. position' \in [BundleUrls -> 0..Len(Sections) + 1]
    <3>1. position[u] + 1 \in 0..Len(Sections) + 1
      BY <2>1, LoaderAssumption
    <3>. QED
      BY <1>1, <3>1 DEF PostSection, LoaderTypeOK
  <2>. QED
    BY <1>1, <2>3, <2>4 DEF PostSection, LoaderTypeOK, Messages, mapVars, requestVars, Asked
<1>2. ASSUME NEW kind \in {"done", "error"}, Post(u, kind, "none"), position' = Finished(u),
             UNCHANGED <<prompt, ready, wasm, mapVars, requestVars, awaitingWorker, handlers, loads>>
      PROVE  LoaderTypeOK'
  <2>1. inbox' \in Seq(Messages)
        /\ \A n \in DOMAIN inbox' : inbox'[n].type = "section" => inbox'[n].label \in Labels
    BY <1>2, InboxGrows
  <2>2. position' \in [BundleUrls -> 0..Len(Sections) + 1]
    <3>1. 0 \in 0..Len(Sections) + 1
      BY LoaderAssumption
    <3>. QED
      BY <1>2, <3>1 DEF Finished, LoaderTypeOK
  <2>. QED
    BY <1>2, <2>1, <2>2 DEF LoaderTypeOK, Messages, mapVars, requestVars, Asked
<1>. QED
  BY <1>1, <1>2 DEF PostDone, PostError

LEMMA SettledType ==
  ASSUME LoaderTypeOK, NEW u, NEW loader \in {"resolved", "rejected"},
         NEW waiter \in {"instance", "rejected"}
  PROVE  Settled(u, loader, waiter)
           \in [Requests -> {"none", "loads", "loading", "instance", "resolved", "rejected"}]
  BY DEF Settled, LoaderTypeOK

LEMMA MessageTypeInductive ==
  ASSUME LoaderTypeOK, ReceiveSection \/ ReceiveDone \/ ReceiveError \/ handleSection
  PROVE  LoaderTypeOK'
<1>1. ASSUME NEW kind, Message(kind)
      PROVE  /\ inbox' \in Seq(Messages) /\ inbox[1] \in Messages /\ Head(inbox) = inbox[1]
             /\ inbox[1].type = kind /\ (kind = "section" => inbox[1].label \in Labels)
             /\ \A n \in DOMAIN inbox' : inbox'[n].type = "section" => inbox'[n].label \in Labels
  BY <1>1, InboxShrinks
<1>2. CASE ReceiveSection
  <2> DEFINE h == [url |-> inbox[1].url, label |-> inbox[1].label,
                   request |-> lynxViewInstancesMap[inbox[1].url]]
  <2>1. Message("section")
    BY <1>2 DEF ReceiveSection
  <2>2. handlers' = IF IsAwaited(inbox[1].url) THEN Append(handlers, h) ELSE handlers
    BY <1>1, <1>2, <2>1 DEF ReceiveSection
  <2>3. handlers \in Seq(Handlers)
    BY DEF LoaderTypeOK, Handlers
  <2>4. IsAwaited(inbox[1].url) => h \in Handlers
    <3>1. inbox[1].url \in BundleUrls /\ inbox[1].label \in Labels
      BY <1>1, <2>1 DEF Messages
    <3>. QED
      BY <3>1 DEF IsAwaited, LoaderTypeOK, Handlers
  <2> HIDE DEF h
  <2>5. handlers' \in Seq(Handlers)
    BY <2>2, <2>3, <2>4, AppendProperties
  <2>. QED
    BY <1>1, <1>2, <2>1, <2>5 DEF ReceiveSection, LoaderTypeOK, Messages, Handlers, mapVars, requestVars, Asked
<1>3. ASSUME NEW u, NoLongerLoading(u)
      PROVE  /\ DOMAIN lynxViewInstancesMap' \subseteq BundleUrls
             /\ \A x \in DOMAIN lynxViewInstancesMap' : lynxViewInstancesMap'[x] \in Requests
             /\ DOMAIN loadingBundles' \subseteq BundleUrls
             /\ \A x \in DOMAIN loadingBundles' : loadingBundles'[x] \subseteq Labels
             /\ loadingPromises' \subseteq BundleUrls
  BY <1>3 DEF NoLongerLoading, LoaderTypeOK, Drop
<1>4. CASE ReceiveDone
  <2> DEFINE u == inbox[1].url
  <2>1. Message("done") /\ Head(inbox).url = u
    BY <1>1, <1>4 DEF ReceiveDone
  <2>2. u \in BundleUrls
    BY <1>1, <2>1 DEF Messages
  <2>3. UNCHANGED <<prompt, ready, wasm, instances, wants, given, awaitingWorker, handlers, position,
                    loads>>
    BY <1>4 DEF ReceiveDone
  <2>4. CASE IsAwaited(u)
    <3>1. /\ NoLongerLoading(u) /\ promise' = AfterDone(u)
          /\ bundles' = IF u \in DOMAIN loadingBundles
                        THEN Put(bundles, u, loadingBundles[u]) ELSE bundles
      BY <1>4, <2>1, <2>4 DEF ReceiveDone
    <3>2. promise' \in [Requests -> {"none", "loads", "loading", "instance", "resolved", "rejected"}]
      BY <3>1, SettledType DEF AfterDone
    <3>3. DOMAIN bundles' \subseteq BundleUrls /\ \A x \in DOMAIN bundles' : bundles'[x] \subseteq Labels
      <4>1. CASE u \in DOMAIN loadingBundles
        BY <2>2, <3>1, <4>1 DEF LoaderTypeOK, Put
      <4>2. CASE u \notin DOMAIN loadingBundles
        BY <3>1, <4>2 DEF LoaderTypeOK
      <4>. QED
        BY <4>1, <4>2
    <3>. QED
      BY <1>1, <1>3, <2>1, <2>3, <3>1, <3>2, <3>3 DEF LoaderTypeOK, Messages, Asked
  <2>5. CASE ~IsAwaited(u)
    <3>1. UNCHANGED <<mapVars, promise>>
      BY <1>4, <2>1, <2>5 DEF ReceiveDone
    <3>. QED
      BY <1>1, <2>1, <2>3, <3>1 DEF LoaderTypeOK, Messages, mapVars, Asked
  <2>. QED
    BY <2>4, <2>5
<1>5. CASE ReceiveError
  <2> DEFINE u == inbox[1].url
  <2>1. Message("error") /\ Head(inbox).url = u
    BY <1>1, <1>5 DEF ReceiveError
  <2>3. UNCHANGED <<prompt, ready, wasm, instances, wants, given, awaitingWorker, handlers, position,
                    loads>>
    BY <1>5 DEF ReceiveError
  <2>4. CASE IsAwaited(u)
    <3>1. NoLongerLoading(u) /\ promise' = AfterError(u) /\ bundles' = Drop(bundles, u)
      BY <1>5, <2>1, <2>4 DEF ReceiveError
    <3>2. promise' \in [Requests -> {"none", "loads", "loading", "instance", "resolved", "rejected"}]
      BY <3>1, SettledType DEF AfterError
    <3>3. DOMAIN bundles' \subseteq BundleUrls /\ \A x \in DOMAIN bundles' : bundles'[x] \subseteq Labels
      BY <3>1 DEF LoaderTypeOK, Drop
    <3>. QED
      BY <1>1, <1>3, <2>1, <2>3, <3>1, <3>2, <3>3 DEF LoaderTypeOK, Messages, Asked
  <2>5. CASE ~IsAwaited(u)
    <3>1. UNCHANGED <<mapVars, promise>>
      BY <1>5, <2>1, <2>5 DEF ReceiveError
    <3>. QED
      BY <1>1, <2>1, <2>3, <3>1 DEF LoaderTypeOK, Messages, mapVars, Asked
  <2>. QED
    BY <2>4, <2>5
<1>6. CASE handleSection
  <2>1. handlers \in Seq(Handlers) /\ DOMAIN handlers = 1..Len(handlers)
    BY DEF LoaderTypeOK, Handlers
  <2>2. PICK i \in 1..Len(handlers) :
          /\ handlers' = RemoveAt(handlers, i) /\ loadingBundles' = Stored(handlers[i])
          /\ \/ UNCHANGED given
             \/ given' = [given EXCEPT ![handlers[i].request] = @ \cup {handlers[i].label}]
    BY <1>6, <2>1 DEF handleSection
  <2>3. handlers[i] \in Handlers
    BY <2>1, ElementOfSeq
  <2>4. handlers' \in Seq(Handlers)
    BY <2>1, <2>2, RemoveAtType
  <2>5. DOMAIN loadingBundles' \subseteq BundleUrls
        /\ \A u \in DOMAIN loadingBundles' : loadingBundles'[u] \subseteq Labels
    <3>1. DOMAIN loadingBundles \subseteq BundleUrls
      BY DEF LoaderTypeOK
    <3>. QED
      BY <2>2, <2>3, <3>1, StoredType
  <2>6. given' \in [Requests -> SUBSET Labels]
    <3>1. handlers[i].request \in Requests /\ handlers[i].label \in Labels
      BY <2>3 DEF Handlers
    <3>2. given \in [Requests -> SUBSET Labels]
      BY DEF LoaderTypeOK
    <3>. QED
      BY <2>2, <3>1, <3>2
  <2>7. UNCHANGED <<prompt, ready, wasm, bundles, loadingPromises, lynxViewInstancesMap, instances,
                    wants, promise, awaitingWorker, position, inbox, loads>>
    BY <1>6 DEF handleSection, workerVars
  <2>. QED
    BY <2>4, <2>5, <2>6, <2>7 DEF LoaderTypeOK, Handlers, Asked
<1>. QED
  BY <1>2, <1>4, <1>5, <1>6

LEMMA LoaderTypeInductive == LoaderTypeOK /\ [LoaderNext]_loaderVars => LoaderTypeOK'
<1> SUFFICES ASSUME LoaderTypeOK, [LoaderNext]_loaderVars PROVE LoaderTypeOK'
  OBVIOUS
<1>1. CASE UNCHANGED loaderVars
  BY <1>1 DEF LoaderTypeOK, loaderVars, mapVars, requestVars, workerVars, Asked
<1>2. CASE LoaderNext
  BY <1>2, FetchTypeInductive, WorkerTypeInductive, MessageTypeInductive DEF LoaderNext
<1>. QED
  BY <1>1, <1>2

\* The loader's maps hold urls, sections and requests, whatever is asked, posted and answered
\* when, for any urls, requests and sections.
THEOREM LoaderTypeCorrect == LoaderSpec => []LoaderTypeOK
  BY LoaderTypeInitial, LoaderTypeInductive, PTL DEF LoaderSpec

-----------------------------------------------------------------------------
(* The inductive invariant behind FetchedOnce.                              *)

\* Message n of the inbox ends a load of u.
Ends(n, u) == inbox[n].url = u /\ inbox[n].type # "section"
Ending(u) == \E n \in 1..Len(inbox) : Ends(n, u)

\* A load of u is in one place, and while it lasts u is loading.
OneLoad ==
  \A u \in BundleUrls :
    /\ u \in awaitingWorker => position[u] = 0 /\ ~Ending(u)
    /\ position[u] > 0 => ~Ending(u)
    /\ \A m, n \in 1..Len(inbox) : Ends(m, u) /\ Ends(n, u) => m = n
    /\ u \in awaitingWorker \/ position[u] > 0 \/ Ending(u) => u \in loadingPromises

\* The maps of what is loading agree, and what is loading is not in the cache.
MapsAgree ==
  /\ DOMAIN loadingBundles = loadingPromises /\ DOMAIN lynxViewInstancesMap = loadingPromises
  /\ loadingPromises \cap DOMAIN bundles = {}

LoadInv == LoaderTypeOK /\ OneLoad /\ MapsAgree

\* How the ends of loads move with the inbox.
LEMMA EndsGrow ==
  ASSUME LoaderTypeOK, NEW u \in BundleUrls, NEW kind \in {"section", "done", "error"},
         NEW label \in Labels \cup {"none"}, Post(u, kind, label)
  PROVE  /\ Len(inbox) \in Nat /\ Len(inbox') = Len(inbox) + 1
         /\ \A v, n : n = Len(inbox) + 1 => (Ends(n, v)' <=> v = u /\ kind # "section")
         /\ \A v : \A n \in 1..Len(inbox) : Ends(n, v)' <=> Ends(n, v)
         /\ \A v : Ending(v)' <=> Ending(v) \/ (v = u /\ kind # "section")
<1> PICK k : k = Len(inbox) + 1
  OBVIOUS
<1>1. /\ Len(inbox) \in Nat /\ Len(inbox') = k /\ k \in 1..k
      /\ inbox'[k] = [url |-> u, type |-> kind, label |-> label]
      /\ \A n \in 1..Len(inbox) : inbox'[n] = inbox[n]
      /\ \A n \in 1..k : n = k \/ n \in 1..Len(inbox)
      /\ \A n \in 1..Len(inbox) : n \in 1..k
  BY InboxGrows
<1>2. inbox'[k].url = u /\ inbox'[k].type = kind
  BY <1>1
<1>3. \A v : (inbox'[k].url = v /\ inbox'[k].type # "section") <=> v = u /\ kind # "section"
  BY <1>2
<1>4. \A v : \A n \in 1..Len(inbox) : Ends(n, v)' <=> Ends(n, v)
  BY <1>1 DEF Ends
<1>5. \A v : Ending(v)' <=> Ending(v) \/ (v = u /\ kind # "section")
  BY <1>1, <1>3 DEF Ending, Ends
<1>6. \A v : Ends(k, v)' <=> v = u /\ kind # "section"
  BY <1>3 DEF Ends
<1>. QED
  BY <1>1, <1>4, <1>5, <1>6

LEMMA EndsShrink ==
  ASSUME LoaderTypeOK, NEW kind, Message(kind)
  PROVE  /\ Len(inbox) \in Nat \ {0} /\ Len(inbox') = Len(inbox) - 1
         /\ \A v : \A n \in 1..Len(inbox') :
              n + 1 \in 1..Len(inbox) /\ (Ends(n, v)' <=> Ends(n + 1, v))
         /\ \A v : Ending(v)' => Ending(v)
         /\ \A v : Ends(1, v) <=> v = inbox[1].url /\ kind # "section"
<1>1. /\ Len(inbox) \in Nat \ {0} /\ Len(inbox') = Len(inbox) - 1
      /\ inbox[1].type = kind
      /\ \A n \in 1..Len(inbox') : n + 1 \in 1..Len(inbox) /\ inbox'[n] = inbox[n + 1]
  BY InboxShrinks
<1>2. \A v : \A n \in 1..Len(inbox') : Ends(n, v)' <=> Ends(n + 1, v)
  BY <1>1 DEF Ends
<1>3. \A v : Ending(v)' => Ending(v)
  BY <1>1 DEF Ending, Ends
<1>. QED
  BY <1>1, <1>2, <1>3 DEF Ends

LEMMA OneLoadLoader ==
  ASSUME LoaderTypeOK, OneLoad, MapsAgree, NEW r, NEW u \in BundleUrls, fetchBundle(r, u) \/ PostLoad(u)
  PROVE  OneLoad' /\ MapsAgree'
<1>1. CASE fetchBundle(r, u)
  <2>1. UNCHANGED <<position, inbox>>
    BY <1>1 DEF fetchBundle, workerVars
  <2>2. CASE UNCHANGED <<mapVars, awaitingWorker>>
    BY <2>1, <2>2 DEF OneLoad, MapsAgree, Ending, Ends, mapVars
  <2>3. CASE /\ u \notin DOMAIN bundles /\ ~IsLoading(u)
             /\ loadingBundles' = Put(loadingBundles, u, {})
             /\ loadingPromises' = loadingPromises \cup {u}
             /\ lynxViewInstancesMap' = Put(lynxViewInstancesMap, u, r)
             /\ awaitingWorker' = awaitingWorker \cup {u}
             /\ UNCHANGED bundles
    <3>1. u \notin loadingPromises
      BY <2>3 DEF IsLoading
    <3>2. u \notin awaitingWorker /\ ~(position[u] > 0) /\ ~Ending(u)
      BY <3>1 DEF OneLoad
    <3>3. position[u] = 0
      <4>1. position[u] \in 0..Len(Sections) + 1
        BY DEF LoaderTypeOK
      <4>. QED
        BY <3>2, <4>1, LoaderAssumption
    <3>4. OneLoad'
      BY <2>1, <2>3, <3>2, <3>3 DEF OneLoad, Ending, Ends
    <3>5. MapsAgree'
      BY <2>3 DEF MapsAgree, Put
    <3>. QED
      BY <3>4, <3>5
  <2>. QED
    BY <1>1, <2>2, <2>3 DEF fetchBundle
<1>2. CASE PostLoad(u)
  <2>1. /\ u \in awaitingWorker /\ awaitingWorker' = awaitingWorker \ {u}
        /\ position' = [position EXCEPT ![u] = 1]
        /\ UNCHANGED <<inbox, bundles, loadingBundles, loadingPromises, lynxViewInstancesMap>>
    BY <1>2 DEF PostLoad, mapVars
  <2>2. MapsAgree'
    BY <2>1 DEF MapsAgree
  <2>3. position \in [BundleUrls -> 0..Len(Sections) + 1]
    BY DEF LoaderTypeOK
  <2>4. ASSUME NEW v \in BundleUrls
        PROVE  /\ v \in awaitingWorker' => position'[v] = 0 /\ ~Ending(v)'
               /\ position'[v] > 0 => ~Ending(v)'
               /\ v \in awaitingWorker' \/ position'[v] > 0 \/ Ending(v)' => v \in loadingPromises'
    <3>1. Ending(v)' <=> Ending(v)
      BY <2>1 DEF Ending, Ends
    <3>2. CASE v = u
      BY <2>1, <2>3, <3>1, <3>2 DEF OneLoad
    <3>3. CASE v # u
      BY <2>1, <2>3, <3>1, <3>3 DEF OneLoad
    <3>. QED
      BY <3>2, <3>3
  <2>5. \A v \in BundleUrls : \A m, n \in 1..Len(inbox') : Ends(m, v)' /\ Ends(n, v)' => m = n
    BY <2>1 DEF OneLoad, Ends
  <2>6. OneLoad'
    BY <2>4, <2>5 DEF OneLoad
  <2>. QED
    BY <2>2, <2>6
<1>. QED
  BY <1>1, <1>2

LEMMA OneLoadWorker ==
  ASSUME LoaderTypeOK, OneLoad, MapsAgree, NEW u \in BundleUrls, PostSection(u) \/ PostDone(u) \/ PostError(u)
  PROVE  OneLoad' /\ MapsAgree'
<1>1. UNCHANGED <<awaitingWorker, bundles, loadingBundles, loadingPromises, lynxViewInstancesMap>>
      /\ position[u] > 0
  BY LoaderAssumption DEF PostSection, PostDone, PostError, mapVars
<1>2. MapsAgree'
  BY <1>1 DEF MapsAgree
<1>3. /\ u \in loadingPromises /\ u \notin awaitingWorker /\ ~Ending(u)
      /\ \A n \in 1..Len(inbox) : ~Ends(n, u)
  BY <1>1 DEF OneLoad, Ending
<1>4. position \in [BundleUrls -> 0..Len(Sections) + 1]
  BY DEF LoaderTypeOK
<1>5. CASE PostSection(u)
  <2>1. /\ Post(u, "section", Sections[position[u]]) /\ Sections[position[u]] \in Labels
        /\ position' = [position EXCEPT ![u] = @ + 1]
    BY <1>5, LabelsOfSections, LoaderAssumption DEF PostSection
  <2>2. /\ \A v : Ending(v)' <=> Ending(v)
        /\ \A v : \A m, n \in 1..Len(inbox') :
             Ends(m, v)' /\ Ends(n, v)' => /\ m \in 1..Len(inbox) /\ n \in 1..Len(inbox)
                                          /\ Ends(m, v) /\ Ends(n, v)
    <3>1. /\ Len(inbox) \in Nat /\ Len(inbox') = Len(inbox) + 1
          /\ \A v, n : n = Len(inbox) + 1 => ~Ends(n, v)'
          /\ \A v : \A n \in 1..Len(inbox) : Ends(n, v)' <=> Ends(n, v)
          /\ \A v : Ending(v)' <=> Ending(v)
      BY <2>1, EndsGrow
    <3>2. \A n \in 1..Len(inbox') : n = Len(inbox) + 1 \/ n \in 1..Len(inbox)
      BY <3>1
    <3>3. ASSUME NEW v, NEW n \in 1..Len(inbox'), Ends(n, v)'
          PROVE  n \in 1..Len(inbox) /\ Ends(n, v)
      BY <3>1, <3>2, <3>3
    <3>. QED
      BY <3>1, <3>3
  <2>3. \A v \in BundleUrls : position'[v] > 0 => position[v] > 0
    BY <1>1, <1>4, <2>1
  <2>4. \A v \in BundleUrls : position[v] = 0 => position'[v] = 0
    BY <1>1, <1>4, <2>1
  <2>5. OneLoad'
    BY <1>1, <2>2, <2>3, <2>4 DEF OneLoad
  <2>. QED
    BY <1>2, <2>5
<1>6. ASSUME NEW kind \in {"done", "error"}, Post(u, kind, "none"), position' = Finished(u)
      PROVE  OneLoad'
  <2>1. /\ Len(inbox) \in Nat /\ Len(inbox') = Len(inbox) + 1
        /\ \A v, n : n = Len(inbox) + 1 => (Ends(n, v)' <=> v = u)
        /\ \A v : \A n \in 1..Len(inbox) : Ends(n, v)' <=> Ends(n, v)
        /\ \A v : Ending(v)' <=> Ending(v) \/ v = u
    BY <1>6, EndsGrow
  <2>2. /\ position'[u] = 0 /\ \A v \in BundleUrls : v # u => position'[v] = position[v]
    BY <1>4, <1>6 DEF Finished
  <2>3. \A n \in 1..Len(inbox') : n = Len(inbox) + 1 \/ n \in 1..Len(inbox)
    BY <2>1
  <2>4. ASSUME NEW v \in BundleUrls, NEW m \in 1..Len(inbox'), NEW n \in 1..Len(inbox'),
               Ends(m, v)', Ends(n, v)'
        PROVE  m = n
    <3>1. CASE v = u
      BY <1>3, <2>1, <2>3, <2>4, <3>1
    <3>2. CASE v # u
      <4>1. m \in 1..Len(inbox) /\ Ends(m, v)
        BY <2>1, <2>3, <2>4, <3>2
      <4>2. n \in 1..Len(inbox) /\ Ends(n, v)
        BY <2>1, <2>3, <2>4, <3>2
      <4>. QED
        BY <4>1, <4>2 DEF OneLoad
    <3>. QED
      BY <3>1, <3>2
  <2>5. ASSUME NEW v \in BundleUrls
        PROVE  /\ v \in awaitingWorker' => position'[v] = 0 /\ ~Ending(v)'
               /\ position'[v] > 0 => ~Ending(v)'
               /\ v \in awaitingWorker' \/ position'[v] > 0 \/ Ending(v)' => v \in loadingPromises'
    <3>1. CASE v = u
      BY <1>1, <1>3, <2>2, <3>1
    <3>2. CASE v # u
      BY <1>1, <2>1, <2>2, <3>2 DEF OneLoad
    <3>. QED
      BY <3>1, <3>2
  <2>. QED
    BY <2>4, <2>5 DEF OneLoad
<1>. QED
  BY <1>2, <1>5, <1>6 DEF PostDone, PostError

LEMMA OneLoadMessages ==
  ASSUME LoaderTypeOK, OneLoad, MapsAgree, ReceiveSection \/ ReceiveDone \/ ReceiveError
  PROVE  OneLoad' /\ MapsAgree'
<1>1. ASSUME NEW kind, Message(kind)
      PROVE  /\ \A v : Ending(v)' => Ending(v)
             /\ \A v \in BundleUrls : \A m, n \in 1..Len(inbox') : Ends(m, v)' /\ Ends(n, v)' => m = n
             /\ kind # "section" => \E u \in BundleUrls :
                  /\ u = inbox[1].url /\ u \in loadingPromises /\ u \notin awaitingWorker
                  /\ ~(position[u] > 0) /\ ~Ending(u)'
  <2>1. /\ Len(inbox) \in Nat \ {0} /\ Len(inbox') = Len(inbox) - 1
        /\ \A v : \A n \in 1..Len(inbox') :
             n + 1 \in 1..Len(inbox) /\ (Ends(n, v)' <=> Ends(n + 1, v))
        /\ \A v : Ending(v)' => Ending(v)
        /\ \A v : Ends(1, v) <=> v = inbox[1].url /\ kind # "section"
    BY <1>1, EndsShrink
  <2>2. ASSUME NEW v \in BundleUrls, NEW m \in 1..Len(inbox'), NEW n \in 1..Len(inbox'),
               Ends(m, v)', Ends(n, v)'
        PROVE  m = n
    <3>1. m + 1 = n + 1
      BY <2>1, <2>2 DEF OneLoad
    <3>. QED
      BY <2>1, <3>1
  <2>3. ASSUME kind # "section"
        PROVE  \E u \in BundleUrls :
                 /\ u = inbox[1].url /\ u \in loadingPromises /\ u \notin awaitingWorker
                 /\ ~(position[u] > 0) /\ ~Ending(u)'
    <3>1. PICK u \in BundleUrls : u = inbox[1].url
      BY <1>1, InboxShrinks DEF Messages
    <3>2. 1 \in 1..Len(inbox) /\ Ends(1, u) /\ Ending(u)
      <4>1. 1 \in 1..Len(inbox) /\ Ends(1, u)
        BY <2>1, <2>3, <3>1
      <4>. QED
        BY <4>1 DEF Ending
    <3>3. u \in loadingPromises /\ u \notin awaitingWorker /\ ~(position[u] > 0)
      BY <3>2 DEF OneLoad
    <3>4. ASSUME NEW n \in 1..Len(inbox'), Ends(n, u)' PROVE FALSE
      <4>1. n + 1 \in 1..Len(inbox) /\ Ends(n + 1, u)
        BY <2>1, <3>4
      <4>2. n + 1 = 1
        BY <3>2, <4>1 DEF OneLoad
      <4>. QED
        BY <2>1, <4>2
    <3>5. ~Ending(u)'
      BY <3>4 DEF Ending, Ends
    <3>. QED
      BY <3>1, <3>3, <3>5
  <2>. QED
    BY <2>1, <2>2, <2>3
<1>2. UNCHANGED <<awaitingWorker, position>>
  BY DEF ReceiveSection, ReceiveDone, ReceiveError
<1>3. CASE ReceiveSection
  <2>1. Message("section") /\ UNCHANGED mapVars
    BY <1>3 DEF ReceiveSection
  <2>2. OneLoad'
    BY <1>1, <1>2, <2>1 DEF OneLoad, mapVars
  <2>. QED
    BY <2>1, <2>2 DEF MapsAgree, mapVars
<1>4. ASSUME NEW kind \in {"done", "error"}, Message(kind), NoLongerLoading(inbox[1].url),
             DOMAIN bundles' \subseteq DOMAIN bundles \cup {inbox[1].url}
      PROVE  OneLoad' /\ MapsAgree'
  <2>2. PICK u \in BundleUrls :
          /\ u = inbox[1].url /\ u \notin awaitingWorker /\ ~(position[u] > 0) /\ ~Ending(u)'
    BY <1>1, <1>4
  <2>1. loadingPromises' = loadingPromises \ {u}
    BY <1>4, <2>2 DEF NoLongerLoading
  <2>3. /\ \A v : Ending(v)' => Ending(v)
        /\ \A v \in BundleUrls : \A m, n \in 1..Len(inbox') : Ends(m, v)' /\ Ends(n, v)' => m = n
    BY <1>1, <1>4
  <2>4. MapsAgree'
    BY <1>4 DEF NoLongerLoading, MapsAgree, Drop
  <2>5. OneLoad'
    BY <1>2, <2>1, <2>2, <2>3 DEF OneLoad
  <2>. QED
    BY <2>4, <2>5
<1>5. ASSUME NEW kind \in {"done", "error"}, Message(kind)
      PROVE  IsAwaited(Head(inbox).url) /\ Head(inbox) = inbox[1]
  BY <1>1, <1>5, InboxShrinks DEF IsAwaited, MapsAgree
<1>6. CASE ReceiveDone
  <2>1. Message("done")
    BY <1>6 DEF ReceiveDone
  <2>2. IsAwaited(inbox[1].url) /\ Head(inbox) = inbox[1]
    BY <1>5, <2>1
  <2>3. /\ NoLongerLoading(inbox[1].url)
        /\ bundles' = IF inbox[1].url \in DOMAIN loadingBundles
                      THEN Put(bundles, inbox[1].url, loadingBundles[inbox[1].url]) ELSE bundles
    BY <1>6, <2>2 DEF ReceiveDone
  <2>4. DOMAIN bundles' \subseteq DOMAIN bundles \cup {inbox[1].url}
    BY <2>3 DEF Put
  <2>. QED
    BY <1>4, <2>1, <2>3, <2>4
<1>7. CASE ReceiveError
  <2>1. Message("error")
    BY <1>7 DEF ReceiveError
  <2>2. IsAwaited(inbox[1].url) /\ Head(inbox) = inbox[1]
    BY <1>5, <2>1
  <2>3. NoLongerLoading(inbox[1].url) /\ bundles' = Drop(bundles, inbox[1].url)
    BY <1>7, <2>2 DEF ReceiveError
  <2>4. DOMAIN bundles' \subseteq DOMAIN bundles \cup {inbox[1].url}
    BY <2>3 DEF Drop
  <2>. QED
    BY <1>4, <2>1, <2>3, <2>4
<1>. QED
  BY <1>3, <1>6, <1>7

LEMMA LoadInductive == LoadInv /\ [LoaderNext]_loaderVars => LoadInv'
<1> SUFFICES ASSUME LoadInv, [LoaderNext]_loaderVars PROVE LoadInv'
  OBVIOUS
<1>1. LoaderTypeOK /\ OneLoad /\ MapsAgree /\ LoaderTypeOK'
  BY LoaderTypeInductive DEF LoadInv
<1>2. CASE UNCHANGED <<mapVars, awaitingWorker, position, inbox>>
  BY <1>1, <1>2 DEF LoadInv, OneLoad, MapsAgree, Ending, Ends, mapVars
<1>3. ASSUME handleSection PROVE OneLoad' /\ MapsAgree'
  <2>1. DOMAIN loadingBundles' = DOMAIN loadingBundles
    <3>1. PICK i \in DOMAIN handlers : loadingBundles' = Stored(handlers[i])
      BY <1>3 DEF handleSection
    <3>2. handlers[i] \in Handlers
      <4>1. handlers \in Seq(Handlers)
        BY <1>1 DEF LoaderTypeOK, Handlers
      <4>2. i \in 1..Len(handlers)
        BY <4>1
      <4>. QED
        BY <4>1, <4>2, ElementOfSeq
    <3>. QED
      BY <1>1, <3>1, <3>2, StoredType
  <2>2. UNCHANGED <<bundles, loadingPromises, lynxViewInstancesMap, awaitingWorker, position, inbox>>
    BY <1>3 DEF handleSection, workerVars
  <2>. QED
    BY <1>1, <2>1, <2>2 DEF OneLoad, MapsAgree, Ending, Ends
<1>4. CASE LoaderNext
  <2>1. ASSUME WorkerReady \/ WasmLoaded \/ \E r \in Requests : InstanceReady(r) \/ serveCached(r)
        PROVE  UNCHANGED <<mapVars, awaitingWorker, position, inbox>>
    BY <2>1 DEF WorkerReady, WasmLoaded, InstanceReady, serveCached, workerVars
  <2>. QED
    BY <1>1, <1>2, <1>3, <1>4, <2>1, OneLoadLoader, OneLoadWorker, OneLoadMessages DEF LoaderNext, LoadInv
<1>5. CASE UNCHANGED loaderVars
  BY <1>2, <1>5 DEF loaderVars, workerVars
<1>. QED
  BY <1>4, <1>5

LEMMA LoadInitial == LoaderInit => LoadInv
<1> SUFFICES ASSUME LoaderInit PROVE LoadInv
  OBVIOUS
<1>1. inbox = <<>> /\ Len(inbox) = 0 /\ 1..0 = {}
  BY DEF LoaderInit
<1>2. OneLoad
  BY <1>1 DEF LoaderInit, OneLoad, Ending, Ends
<1>3. MapsAgree
  BY DEF LoaderInit, MapsAgree, Empty
<1>. QED
  BY <1>2, <1>3, LoaderTypeInitial DEF LoadInv

\* A url is fetched by one request at a time and not again once its bundle is in the cache,
\* for any number of views and urls, however their requests, the messages of the worker and
\* its errors interleave.
THEOREM NeverFetchedTwice == LoaderSpec => []FetchedOnce
<1>1. LoadInv => FetchedOnce
  <2> SUFFICES ASSUME LoadInv, NEW u \in BundleUrls
               PROVE  UnderWay(u) <= IF u \in DOMAIN bundles THEN 0 ELSE 1
    BY DEF FetchedOnce
  <2> DEFINE ends == {n \in DOMAIN inbox : inbox[n].url = u /\ inbox[n].type # "section"}
  <2>1. LoaderTypeOK /\ OneLoad /\ MapsAgree /\ DOMAIN inbox = 1..Len(inbox)
    BY InboxLabels DEF LoadInv
  <2>2. /\ u \in awaitingWorker => position[u] = 0 /\ ~Ending(u)
        /\ position[u] > 0 => ~Ending(u)
        /\ \A m, n \in 1..Len(inbox) : Ends(m, u) /\ Ends(n, u) => m = n
        /\ u \in awaitingWorker \/ position[u] > 0 \/ Ending(u) => u \notin DOMAIN bundles
    BY <2>1 DEF OneLoad, MapsAgree
  <2>3. CASE Ending(u)
    <3>1. PICK n \in 1..Len(inbox) : Ends(n, u)
      BY <2>3 DEF Ending
    <3>2. ends = {n}
      BY <2>1, <2>2, <3>1 DEF Ends
    <3>3. Cardinality(ends) = 1
      BY <3>2, FS_Singleton
    <3>. QED
      BY <2>2, <2>3, <3>3 DEF UnderWay
  <2>4. CASE ~Ending(u)
    <3>1. ends = {}
      BY <2>1, <2>4 DEF Ending, Ends
    <3>2. Cardinality(ends) = 0
      BY <3>1, FS_EmptySet
    <3>3. position[u] \in Nat
      BY <2>1, LoaderAssumption DEF LoaderTypeOK
    <3>. QED
      BY <2>2, <3>2, <3>3 DEF UnderWay
  <2>. QED
    BY <2>3, <2>4
<1>. QED
  BY <1>1, LoadInitial, LoadInductive, PTL DEF LoaderSpec

-----------------------------------------------------------------------------
(* The inductive invariant behind CompleteWhenPrompt.                       *)

\* Message n of the inbox is section l of u.
Posted(n, u, l) == inbox[n].url = u /\ inbox[n].type = "section" /\ inbox[n].label = l
Handled(i, u, l) == handlers[i].url = u /\ handlers[i].label = l

\* Section l of u is stored, is being handled or is on its way.
Collected(u, l) ==
  \/ l \in loadingBundles[u]
  \/ \E i \in 1..Len(handlers) : Handled(i, u, l)
  \/ \E n \in 1..Len(inbox) : Posted(n, u, l)

\* What has been decoded of u is collected, all of it when the load is done.
DecodedIsCollected ==
  \A u \in BundleUrls :
    /\ \A k \in 1..Len(Sections) : k < position[u] => Collected(u, Sections[k])
    /\ \A n \in 1..Len(inbox) :
         inbox[n].url = u /\ inbox[n].type = "done" => \A l \in Labels : Collected(u, l)

\* A section is received before the end of its load, for the request that loads it, and one
\* is handled at a time.
SectionsInTime ==
  /\ \A u \in BundleUrls : \A n \in 1..Len(inbox) : inbox[n].url = u /\ inbox[n].type = "section" =>
       u \in loadingPromises /\ \A m \in 1..Len(inbox) : Ends(m, u) => n < m
  /\ Len(handlers) <= 1
  /\ \A i \in 1..Len(handlers) :
       /\ handlers[i].url \in loadingPromises
       /\ handlers[i].request = lynxViewInstancesMap[handlers[i].url]

\* The view that loads a bundle has been given what is stored of it, and a promise stands
\* for what its view is given.
ViewsHaveTheirs ==
  /\ \A u \in loadingPromises : loadingBundles[u] \cap Passed \subseteq given[lynxViewInstancesMap[u]]
  /\ \A r \in Asked :
       /\ promise[r] = "loads" =>
            wants[r] \in loadingPromises /\ lynxViewInstancesMap[wants[r]] = r
       /\ promise[r] = "instance" => wants[r] \in DOMAIN bundles
  /\ \A r \in Requests :
       /\ r \notin Asked => promise[r] = "none"
       /\ promise[r] = "resolved" => Passed \subseteq given[r]

Complete == DecodedIsCollected /\ SectionsInTime /\ ViewsHaveTheirs /\ NoPartialBundle

PromptInv == prompt => instances = Requests /\ wasm /\ Complete

\* Collected holds on when nothing of it is taken away.
LEMMA CollectedStays ==
  ASSUME NEW u, NEW l, Collected(u, l),
         loadingBundles[u] \subseteq loadingBundles'[u],
         UNCHANGED handlers,
         \A n \in 1..Len(inbox) : n \in 1..Len(inbox') /\ inbox'[n] = inbox[n]
  PROVE  Collected(u, l)'
<1>1. CASE l \in loadingBundles[u]
  BY <1>1 DEF Collected
<1>2. CASE \E i \in 1..Len(handlers) : Handled(i, u, l)
  BY <1>2 DEF Collected, Handled
<1>3. CASE \E n \in 1..Len(inbox) : Posted(n, u, l)
  BY <1>3 DEF Collected, Posted
<1>. QED
  BY <1>1, <1>2, <1>3 DEF Collected

LEMMA ServeComplete ==
  ASSUME LoadInv, Complete, NEW r \in Requests, serveCached(r)
  PROVE  Complete'
<1>1. /\ UNCHANGED <<mapVars, wants, handlers, position, inbox>>
      /\ promise[r] = "instance" /\ promise' = [promise EXCEPT ![r] = "resolved"]
      /\ given' = [given EXCEPT ![r] = @ \cup (getBundle(wants[r], bundles, loadingBundles) \cap Passed)]
  BY DEF serveCached, Cached, workerVars
<1>2. /\ promise \in [Requests -> {"none", "loads", "loading", "instance", "resolved", "rejected"}]
      /\ given \in [Requests -> SUBSET Labels]
  BY DEF LoadInv, LoaderTypeOK
<1>3. r \in Asked /\ getBundle(wants[r], bundles, loadingBundles) = Labels
  <2>1. r \in Asked /\ wants[r] \in DOMAIN bundles
    BY <1>1 DEF Complete, ViewsHaveTheirs
  <2>. QED
    BY <2>1 DEF Complete, NoPartialBundle, getBundle
<1>4. Passed \subseteq given'[r] /\ \A x \in Requests : given[x] \subseteq given'[x]
  BY <1>1, <1>2, <1>3 DEF Passed
<1>5. ViewsHaveTheirs'
  <2>1. \A u \in loadingPromises : lynxViewInstancesMap[u] \in Requests
    BY DEF LoadInv, LoaderTypeOK, MapsAgree
  <2>2. Asked \subseteq Requests
    BY DEF LoadInv, LoaderTypeOK
  <2>. QED
    BY <1>1, <1>2, <1>4, <2>1, <2>2 DEF Complete, ViewsHaveTheirs, mapVars, Asked
<1>6. DecodedIsCollected' /\ SectionsInTime' /\ NoPartialBundle'
  BY <1>1 DEF Complete, DecodedIsCollected, SectionsInTime, NoPartialBundle, Collected, Posted,
              Handled, Ends, mapVars
<1>. QED
  BY <1>5, <1>6 DEF Complete

LEMMA FetchComplete ==
  ASSUME LoadInv, Complete, NEW r \in Requests, NEW u \in BundleUrls, fetchBundle(r, u)
  PROVE  Complete'
<1>1. /\ UNCHANGED <<given, handlers, position, inbox>> /\ UNCHANGED bundles
      /\ r \notin Asked /\ wants' = Put(wants, r, u)
  BY DEF fetchBundle, mapVars, workerVars
<1>2. promise \in [Requests -> {"none", "loads", "loading", "instance", "resolved", "rejected"}]
      /\ Asked \subseteq Requests
  BY DEF LoadInv, LoaderTypeOK
<1>3. /\ Asked' = Asked \cup {r} /\ wants'[r] = u
      /\ \A x \in Asked : x # r /\ wants'[x] = wants[x]
  BY <1>1 DEF Asked, Put
<1>4. promise[r] = "none"
  BY <1>1 DEF Complete, ViewsHaveTheirs
<1>5. ASSUME UNCHANGED mapVars,
             NEW p \in {"instance", "loading"}, promise' = [promise EXCEPT ![r] = p],
             p = "instance" => u \in DOMAIN bundles
      PROVE  Complete'
  <2>1. ViewsHaveTheirs'
    BY <1>1, <1>2, <1>3, <1>5 DEF Complete, ViewsHaveTheirs, mapVars
  <2>2. DecodedIsCollected' /\ SectionsInTime' /\ NoPartialBundle'
    BY <1>1, <1>5 DEF Complete, DecodedIsCollected, SectionsInTime, NoPartialBundle, Collected,
                Posted, Handled, Ends, mapVars
  <2>. QED
    BY <2>1, <2>2 DEF Complete
<1>6. ASSUME u \notin loadingPromises,
             promise' = [promise EXCEPT ![r] = "loads"],
             loadingBundles' = Put(loadingBundles, u, {}),
             loadingPromises' = loadingPromises \cup {u},
             lynxViewInstancesMap' = Put(lynxViewInstancesMap, u, r)
      PROVE  Complete'
  <2>1. /\ DOMAIN loadingBundles = loadingPromises /\ DOMAIN lynxViewInstancesMap = loadingPromises
        /\ loadingPromises \subseteq BundleUrls
    BY DEF LoadInv, MapsAgree, LoaderTypeOK
  <2>2. /\ loadingBundles'[u] = {} /\ lynxViewInstancesMap'[u] = r
        /\ \A v \in loadingPromises : /\ v # u /\ loadingBundles'[v] = loadingBundles[v]
                                      /\ lynxViewInstancesMap'[v] = lynxViewInstancesMap[v]
    BY <1>6, <2>1 DEF Put
  <2>3. ViewsHaveTheirs'
    <3>1. \A v \in loadingPromises' :
            loadingBundles'[v] \cap Passed \subseteq given'[lynxViewInstancesMap'[v]]
      BY <1>1, <1>6, <2>2 DEF Complete, ViewsHaveTheirs
    <3>2. \A x \in Asked' :
            /\ promise'[x] = "loads" =>
                 wants'[x] \in loadingPromises' /\ lynxViewInstancesMap'[wants'[x]] = x
            /\ promise'[x] = "instance" => wants'[x] \in DOMAIN bundles'
      BY <1>1, <1>2, <1>3, <1>6, <2>2 DEF Complete, ViewsHaveTheirs
    <3>3. \A x \in Requests :
            /\ x \notin Asked' => promise'[x] = "none"
            /\ promise'[x] = "resolved" => Passed \subseteq given'[x]
      BY <1>1, <1>2, <1>3, <1>6 DEF Complete, ViewsHaveTheirs
    <3>. QED
      BY <3>1, <3>2, <3>3 DEF ViewsHaveTheirs
  <2>4. \A v \in loadingPromises : \A l : Collected(v, l) => Collected(v, l)'
    BY <1>1, <2>2, CollectedStays
  <2>5. DecodedIsCollected'
    <3>1. ASSUME NEW v \in BundleUrls, NEW k \in 1..Len(Sections), k < position[v] PROVE v \in loadingPromises
      <4>1. position[v] > 0
        <5>1. position[v] \in 0..Len(Sections) + 1 /\ Len(Sections) \in Nat
          BY LoaderAssumption DEF LoadInv, LoaderTypeOK
        <5>. QED
          BY <3>1, <5>1
      <4>. QED
        BY <4>1 DEF LoadInv, OneLoad
    <3>2. ASSUME NEW v \in BundleUrls, NEW n \in 1..Len(inbox), inbox[n].url = v, inbox[n].type = "done"
          PROVE  v \in loadingPromises
      <4>1. Ending(v)
        BY <3>2 DEF Ending, Ends
      <4>. QED
        BY <4>1 DEF LoadInv, OneLoad
    <3>. QED
      BY <1>1, <2>4, <3>1, <3>2 DEF Complete, DecodedIsCollected
  <2>6. SectionsInTime'
    BY <1>1, <1>6, <2>2 DEF Complete, SectionsInTime, Ends
  <2>7. NoPartialBundle'
    BY <1>1 DEF Complete, NoPartialBundle
  <2>. QED
    BY <2>3, <2>5, <2>6, <2>7 DEF Complete
<1>. QED
  BY <1>5, <1>6 DEF fetchBundle, IsLoading

LEMMA WorkerComplete ==
  ASSUME LoadInv, Complete, NEW u \in BundleUrls,
         PostLoad(u) \/ PostSection(u) \/ PostDone(u) \/ PostError(u)
  PROVE  Complete'
<1>1. UNCHANGED <<mapVars, requestVars, handlers>>
  BY DEF PostLoad, PostSection, PostDone, PostError
<1>2. ViewsHaveTheirs' /\ NoPartialBundle'
  BY <1>1 DEF Complete, ViewsHaveTheirs, NoPartialBundle, mapVars, requestVars, Asked
<1>3. position \in [BundleUrls -> 0..Len(Sections) + 1] /\ Len(Sections) \in Nat
  BY LoaderAssumption DEF LoadInv, LoaderTypeOK
<1>4. CASE PostLoad(u)
  <2>1. position' = [position EXCEPT ![u] = 1] /\ UNCHANGED inbox
    BY <1>4 DEF PostLoad
  <2>2. \A v \in BundleUrls : \A k \in 1..Len(Sections) : k < position'[v] => k < position[v]
    BY <1>3, <2>1
  <2>3. DecodedIsCollected' /\ SectionsInTime'
    BY <1>1, <2>1, <2>2 DEF Complete, DecodedIsCollected, SectionsInTime, Collected, Posted, Handled,
                Ends, mapVars
  <2>. QED
    BY <1>2, <2>3 DEF Complete
<1>5. ASSUME NEW kind \in {"section", "done", "error"}, NEW label \in Labels \cup {"none"},
             Post(u, kind, label), position[u] > 0,
             kind = "section" =>
               position[u] \in 1..Len(Sections) /\ label = Sections[position[u]],
             kind = "done" => position[u] = Len(Sections) + 1,
             \A v \in BundleUrls : \A k \in 1..Len(Sections) : k < position'[v] =>
               k < position[v] \/ (v = u /\ kind = "section" /\ k = position[u])
      PROVE  Complete'
  <2>1. PICK e : e = Len(inbox) + 1
    OBVIOUS
  <2>2. /\ Len(inbox) \in Nat /\ Len(inbox') = e /\ e \in 1..Len(inbox')
        /\ inbox'[e] = [url |-> u, type |-> kind, label |-> label]
        /\ \A n \in 1..Len(inbox) : n \in 1..Len(inbox') /\ inbox'[n] = inbox[n]
        /\ \A n \in 1..Len(inbox') : n = e \/ n \in 1..Len(inbox)
        /\ \A n \in 1..Len(inbox) : n < e
    BY <1>5, <2>1, InboxGrows DEF LoadInv
  <2>3. inbox'[e].url = u /\ inbox'[e].type = kind /\ inbox'[e].label = label
    BY <2>2
  <2>4. \A v, l : Collected(v, l) => Collected(v, l)'
    BY <1>1, <2>2, CollectedStays DEF mapVars
  <2>5. kind = "section" => Collected(u, label)'
    BY <2>2, <2>3 DEF Collected, Posted
  <2>6. kind = "done" => \A l \in Labels : Collected(u, l)
    <3>1. ASSUME kind = "done", NEW l \in Labels PROVE Collected(u, l)
      <4>1. PICK k \in 1..Len(Sections) : l = Sections[k]
        BY LoaderAssumption DEF Labels, ToSet
      <4>2. k < position[u]
        BY <1>3, <1>5, <3>1, <4>1
      <4>. QED
        BY <4>1, <4>2 DEF Complete, DecodedIsCollected
    <3>. QED
      BY <3>1
  <2>7. DecodedIsCollected'
    <3>1. ASSUME NEW v \in BundleUrls, NEW k \in 1..Len(Sections), k < position'[v]
          PROVE  Collected(v, Sections[k])'
      <4>1. CASE k < position[v]
        BY <2>4, <4>1 DEF Complete, DecodedIsCollected
      <4>2. CASE v = u /\ kind = "section" /\ k = position[u]
        BY <1>5, <2>5, <4>2
      <4>. QED
        BY <1>5, <3>1, <4>1, <4>2
    <3>2. ASSUME NEW v \in BundleUrls, NEW n \in 1..Len(inbox'), inbox'[n].url = v, inbox'[n].type = "done",
                 NEW l \in Labels
          PROVE  Collected(v, l)'
      <4>1. CASE n = e
        BY <2>3, <2>4, <2>6, <3>2, <4>1
      <4>2. CASE n \in 1..Len(inbox)
        BY <2>2, <2>4, <3>2, <4>2 DEF Complete, DecodedIsCollected
      <4>. QED
        BY <2>2, <4>1, <4>2
    <3>. QED
      BY <3>1, <3>2 DEF DecodedIsCollected
  <2>8. SectionsInTime'
    <3>1. u \in loadingPromises /\ \A m \in 1..Len(inbox) : ~Ends(m, u)
      BY <1>5 DEF LoadInv, OneLoad, Ending
    <3>2. ASSUME NEW v \in BundleUrls, NEW n \in 1..Len(inbox'), inbox'[n].url = v,
                 inbox'[n].type = "section"
          PROVE  v \in loadingPromises /\ \A m \in 1..Len(inbox') : Ends(m, v)' => n < m
      <4>1. CASE n = e
        <5>1. v = u /\ kind = "section"
          BY <2>3, <3>2, <4>1
        <5>2. \A m \in 1..Len(inbox') : ~Ends(m, u)'
          BY <2>2, <2>3, <3>1, <5>1 DEF Ends
        <5>. QED
          BY <3>1, <5>1, <5>2
      <4>2. CASE n \in 1..Len(inbox)
        <5>1. v \in loadingPromises /\ \A m \in 1..Len(inbox) : Ends(m, v) => n < m
          BY <2>2, <3>2, <4>2 DEF Complete, SectionsInTime
        <5>2. \A m \in 1..Len(inbox) : Ends(m, v)' => Ends(m, v)
          BY <2>2 DEF Ends
        <5>. QED
          BY <2>2, <4>2, <5>1, <5>2
      <4>. QED
        BY <2>2, <4>1, <4>2
    <3>3. /\ Len(handlers') <= 1
          /\ \A i \in 1..Len(handlers') :
               /\ handlers'[i].url \in loadingPromises'
               /\ handlers'[i].request = lynxViewInstancesMap'[handlers'[i].url]
      BY <1>1 DEF Complete, SectionsInTime, mapVars
    <3>. QED
      BY <1>1, <3>2, <3>3 DEF SectionsInTime, mapVars
  <2>. QED
    BY <1>2, <2>7, <2>8 DEF Complete
<1>6. CASE PostSection(u)
  <2>1. /\ position[u] \in 1..Len(Sections) /\ Post(u, "section", Sections[position[u]])
        /\ position' = [position EXCEPT ![u] = @ + 1]
    BY <1>6, LoaderAssumption DEF PostSection
  <2>2. Sections[position[u]] \in Labels
    BY <2>1, LabelsOfSections
  <2>3. \A v \in BundleUrls : \A k \in 1..Len(Sections) : k < position'[v] =>
          k < position[v] \/ (v = u /\ k = position[u])
    BY <1>3, <2>1
  <2>4. position[u] > 0
    BY <1>3, <2>1
  <2>. QED
    BY <1>5, <2>1, <2>2, <2>3, <2>4
<1>7. ASSUME PostDone(u) \/ PostError(u) PROVE Complete'
  <2>1. position' = [position EXCEPT ![u] = 0] /\ position[u] > 0
    BY <1>3, <1>7 DEF PostDone, PostError, Finished
  <2>2. \A v \in BundleUrls : \A k \in 1..Len(Sections) : k < position'[v] => k < position[v]
    BY <1>3, <2>1
  <2>3. CASE PostDone(u)
    BY <1>5, <2>1, <2>2, <2>3 DEF PostDone
  <2>4. CASE PostError(u)
    BY <1>5, <2>1, <2>2, <2>4 DEF PostError
  <2>. QED
    BY <1>7, <2>3, <2>4
<1>. QED
  BY <1>4, <1>6, <1>7

\* When nothing has to be waited for, a message comes when no section is being handled.
LEMMA IdleHandlesNothing ==
  ASSUME LoadInv, instances = Requests, wasm, Idle
  PROVE  Len(handlers) = 0 /\ handlers = <<>>
<1>1. handlers \in Seq(Handlers) /\ Len(handlers) \in Nat /\ DOMAIN handlers = 1..Len(handlers)
  BY DEF LoadInv, LoaderTypeOK, Handlers
<1>2. ASSUME NEW i \in 1..Len(handlers) PROVE FALSE
  <2>1. handlers[i] \in Handlers
    BY <1>1, ElementOfSeq
  <2>2. CanRun(handlers[i])
    BY <2>1 DEF CanRun, Handlers
  <2>. QED
    BY <1>1, <2>2 DEF Idle
<1>3. Len(handlers) = 0
  <2>1. \A n \in Nat : n # 0 => 1 \in 1..n
    OBVIOUS
  <2>. QED
    BY <1>1, <1>2, <2>1
<1>. QED
  BY <1>1, <1>3, EmptySeq

LEMMA SectionComplete ==
  ASSUME LoadInv, Complete, instances = Requests, wasm, ReceiveSection
  PROVE  Complete'
<1>1. Message("section") /\ LoaderTypeOK
  BY DEF ReceiveSection, LoadInv
<1>2. Len(handlers) = 0 /\ handlers = <<>>
  BY <1>1, IdleHandlesNothing DEF Message
<1>3. /\ inbox[1] \in Messages /\ Head(inbox) = inbox[1] /\ inbox[1].type = "section"
      /\ Len(inbox) \in Nat \ {0} /\ Len(inbox') = Len(inbox) - 1
      /\ \A n \in 1..Len(inbox') : n + 1 \in 1..Len(inbox) /\ inbox'[n] = inbox[n + 1]
  BY <1>1, InboxShrinks
<1>4. PICK u \in BundleUrls : u = inbox[1].url
  BY <1>3 DEF Messages
<1>5. PICK l0 : l0 = inbox[1].label
  OBVIOUS
<1>6. u \in loadingPromises
  BY <1>3, <1>4 DEF Complete, SectionsInTime
<1>7. /\ Len(handlers') = 1 /\ handlers'[1].url = u /\ handlers'[1].label = l0
      /\ handlers'[1].request = lynxViewInstancesMap[u]
  <2> DEFINE h == [url |-> u, label |-> l0, request |-> lynxViewInstancesMap[u]]
  <2>1. IsAwaited(u)
    BY <1>6 DEF IsAwaited, LoadInv, MapsAgree
  <2>2. handlers' = Append(handlers, h)
    BY <1>3, <1>4, <1>5, <2>1 DEF ReceiveSection
  <2>3. Len(handlers') = 1 /\ handlers'[1] = h
    BY <1>2, <2>2
  <2>. QED
    BY <2>3
<1>8. UNCHANGED <<mapVars, requestVars, position>>
  BY DEF ReceiveSection
<1>9. ASSUME NEW v, NEW l, Collected(v, l) PROVE Collected(v, l)'
  <2>1. CASE l \in loadingBundles[v]
    BY <1>8, <2>1 DEF Collected, mapVars
  <2>2. ASSUME NEW n \in 1..Len(inbox), Posted(n, v, l) PROVE Collected(v, l)'
    <3>1. CASE n = 1
      <4>1. handlers'[1].url = v /\ handlers'[1].label = l /\ 1 \in 1..Len(handlers')
        BY <1>4, <1>5, <1>7, <2>2, <3>1 DEF Posted
      <4>. QED
        BY <4>1 DEF Collected, Handled
    <3>2. CASE n # 1
      <4>1. n - 1 \in 1..Len(inbox') /\ (n - 1) + 1 = n
        BY <1>3, <3>2
      <4>2. inbox'[n - 1] = inbox[n]
        BY <1>3, <4>1
      <4>. QED
        BY <2>2, <4>1, <4>2 DEF Collected, Posted
    <3>. QED
      BY <3>1, <3>2
  <2>. QED
    BY <1>2, <1>9, <2>1, <2>2 DEF Collected
<1>10. DecodedIsCollected'
  <2>1. ASSUME NEW v \in BundleUrls, NEW k \in 1..Len(Sections), k < position'[v]
        PROVE  Collected(v, Sections[k])'
    BY <1>8, <1>9, <2>1 DEF Complete, DecodedIsCollected
  <2>2. ASSUME NEW v \in BundleUrls, NEW n \in 1..Len(inbox'), inbox'[n].url = v, inbox'[n].type = "done",
               NEW l \in Labels
        PROVE  Collected(v, l)'
    <3>1. n + 1 \in 1..Len(inbox) /\ inbox[n + 1].url = v /\ inbox[n + 1].type = "done"
      BY <1>3, <2>2
    <3>. QED
      BY <1>9, <3>1 DEF Complete, DecodedIsCollected
  <2>. QED
    BY <2>1, <2>2 DEF DecodedIsCollected
<1>11. SectionsInTime'
  <2>1. ASSUME NEW v \in BundleUrls, NEW n \in 1..Len(inbox'), inbox'[n].url = v, inbox'[n].type = "section"
        PROVE  v \in loadingPromises /\ \A m \in 1..Len(inbox') : Ends(m, v)' => n < m
    <3>1. n + 1 \in 1..Len(inbox) /\ inbox[n + 1].url = v /\ inbox[n + 1].type = "section"
      BY <1>3, <2>1
    <3>2. v \in loadingPromises /\ \A m \in 1..Len(inbox) : Ends(m, v) => n + 1 < m
      BY <3>1 DEF Complete, SectionsInTime
    <3>3. ASSUME NEW m \in 1..Len(inbox'), Ends(m, v)' PROVE n < m
      <4>1. m + 1 \in 1..Len(inbox) /\ Ends(m + 1, v)
        BY <1>3, <3>3 DEF Ends
      <4>2. n + 1 < m + 1
        BY <3>2, <4>1
      <4>. QED
        BY <1>3, <4>2
    <3>. QED
      BY <3>2, <3>3
  <2>2. \A i \in 1..Len(handlers') : i = 1
    BY <1>7
  <2>. QED
    BY <1>6, <1>7, <1>8, <2>1, <2>2 DEF SectionsInTime, mapVars
<1>12. ViewsHaveTheirs' /\ NoPartialBundle'
  BY <1>8 DEF Complete, ViewsHaveTheirs, NoPartialBundle, mapVars, requestVars, Asked
<1>. QED
  BY <1>10, <1>11, <1>12 DEF Complete

\* The end of a load leaves the loads of other urls as they were.
LEMMA EndComplete ==
  ASSUME LoadInv, Complete, instances = Requests, wasm,
         NEW kind \in {"done", "error"}, Message(kind),
         NEW u \in BundleUrls, u = inbox[1].url, NoLongerLoading(u),
         UNCHANGED <<position, handlers>>
  PROVE  /\ u \in loadingPromises /\ u \in DOMAIN loadingBundles /\ IsAwaited(u)
         /\ u \notin DOMAIN bundles
         /\ kind = "done" => loadingBundles[u] = Labels
         /\ DecodedIsCollected' /\ SectionsInTime'
<1>1. LoaderTypeOK /\ OneLoad /\ MapsAgree
  BY DEF LoadInv
<1>2. Len(handlers) = 0
  BY IdleHandlesNothing DEF Message
<1>3. /\ inbox[1].type = kind
      /\ Len(inbox) \in Nat \ {0} /\ 1 \in 1..Len(inbox) /\ Len(inbox') = Len(inbox) - 1
      /\ \A n \in 1..Len(inbox') : n + 1 \in 1..Len(inbox) /\ inbox'[n] = inbox[n + 1]
      /\ \A n \in 1..Len(inbox') : n + 1 # 1 /\ ~(n + 1 < 1)
  BY <1>1, InboxShrinks
<1>4. Ends(1, u)
  BY <1>3 DEF Ends
<1>5. u \in loadingPromises /\ ~(position[u] > 0)
  BY <1>1, <1>3, <1>4 DEF OneLoad, Ending
<1>6. u \in DOMAIN loadingBundles /\ IsAwaited(u) /\ u \notin DOMAIN bundles
  BY <1>1, <1>5 DEF MapsAgree, IsAwaited
<1>7. \A n \in 1..Len(inbox) : ~(inbox[n].url = u /\ inbox[n].type = "section")
  <2>1. ASSUME NEW n \in 1..Len(inbox), inbox[n].url = u, inbox[n].type = "section" PROVE FALSE
    <3>1. n < 1
      BY <1>3, <1>4, <2>1 DEF Complete, SectionsInTime
    <3>. QED
      BY <1>3, <3>1
  <2>. QED
    BY <2>1
<1>8. kind = "done" => loadingBundles[u] = Labels
  <2>1. loadingBundles[u] \subseteq Labels
    BY <1>1, <1>6 DEF LoaderTypeOK
  <2>2. ASSUME kind = "done", NEW l \in Labels PROVE l \in loadingBundles[u]
    <3>1. Collected(u, l)
      BY <1>3, <2>2 DEF Complete, DecodedIsCollected
    <3>. QED
      BY <1>2, <1>7, <3>1 DEF Collected, Posted
  <2>. QED
    BY <2>1, <2>2
<1>9. /\ loadingPromises' = loadingPromises \ {u}
      /\ \A v \in loadingPromises : v # u => /\ loadingBundles'[v] = loadingBundles[v]
                                             /\ lynxViewInstancesMap'[v] = lynxViewInstancesMap[v]
  BY <1>1 DEF NoLongerLoading, MapsAgree, Drop
<1>10. ASSUME NEW v \in loadingPromises, v # u, NEW l, Collected(v, l) PROVE Collected(v, l)'
  <2>1. CASE l \in loadingBundles[v]
    BY <1>9, <1>10, <2>1 DEF Collected
  <2>2. ASSUME NEW n \in 1..Len(inbox), Posted(n, v, l) PROVE Collected(v, l)'
    <3>1. n # 1
      BY <1>3, <2>2 DEF Posted
    <3>2. n - 1 \in 1..Len(inbox') /\ (n - 1) + 1 = n
      BY <1>3, <3>1
    <3>3. inbox'[n - 1] = inbox[n]
      BY <1>3, <3>2
    <3>. QED
      BY <2>2, <3>2, <3>3 DEF Collected, Posted
  <2>. QED
    BY <1>2, <1>10, <2>1, <2>2 DEF Collected
<1>11. DecodedIsCollected'
  <2>1. ASSUME NEW v \in BundleUrls, NEW k \in 1..Len(Sections), k < position'[v]
        PROVE  Collected(v, Sections[k])'
    <3>1. position[v] > 0 /\ k < position[v]
      <4>1. position[v] \in 0..Len(Sections) + 1 /\ Len(Sections) \in Nat
        BY <1>1, LoaderAssumption DEF LoaderTypeOK
      <4>. QED
        BY <2>1, <4>1
    <3>2. v # u /\ v \in loadingPromises
      BY <1>1, <1>5, <3>1 DEF OneLoad
    <3>. QED
      BY <1>10, <3>1, <3>2 DEF Complete, DecodedIsCollected
  <2>2. ASSUME NEW v \in BundleUrls, NEW n \in 1..Len(inbox'), inbox'[n].url = v, inbox'[n].type = "done",
               NEW l \in Labels
        PROVE  Collected(v, l)'
    <3>1. n + 1 \in 1..Len(inbox) /\ inbox[n + 1].url = v /\ inbox[n + 1].type = "done"
      BY <1>3, <2>2
    <3>2. Ends(n + 1, v) /\ v \in loadingPromises
      <4>1. Ends(n + 1, v)
        BY <3>1 DEF Ends
      <4>. QED
        BY <1>1, <3>1, <4>1 DEF OneLoad, Ending
    <3>3. v # u
      BY <1>1, <1>3, <1>4, <3>1, <3>2 DEF OneLoad
    <3>. QED
      BY <1>10, <3>1, <3>2, <3>3 DEF Complete, DecodedIsCollected
  <2>. QED
    BY <2>1, <2>2 DEF DecodedIsCollected
<1>12. SectionsInTime'
  <2>1. ASSUME NEW v \in BundleUrls, NEW n \in 1..Len(inbox'), inbox'[n].url = v, inbox'[n].type = "section"
        PROVE  v \in loadingPromises' /\ \A m \in 1..Len(inbox') : Ends(m, v)' => n < m
    <3>1. n + 1 \in 1..Len(inbox) /\ inbox[n + 1].url = v /\ inbox[n + 1].type = "section"
      BY <1>3, <2>1
    <3>2. v \in loadingPromises /\ \A m \in 1..Len(inbox) : Ends(m, v) => n + 1 < m
      BY <3>1 DEF Complete, SectionsInTime
    <3>3. ASSUME NEW m \in 1..Len(inbox'), Ends(m, v)' PROVE n < m
      <4>1. m + 1 \in 1..Len(inbox) /\ Ends(m + 1, v)
        BY <1>3, <3>3 DEF Ends
      <4>2. n + 1 < m + 1
        BY <3>2, <4>1
      <4>. QED
        BY <1>3, <4>2
    <3>4. v # u
      BY <1>7, <3>1
    <3>. QED
      BY <1>9, <3>2, <3>3, <3>4
  <2>2. Len(handlers') = 0 /\ \A i \in 1..Len(handlers') : FALSE
    BY <1>2
  <2>. QED
    BY <2>1, <2>2 DEF SectionsInTime
<1>. QED
  BY <1>5, <1>6, <1>8, <1>11, <1>12

LEMMA EndsOfLoadsComplete ==
  ASSUME LoadInv, Complete, instances = Requests, wasm, ReceiveDone \/ ReceiveError
  PROVE  Complete'
<1>1. PICK kind \in {"done", "error"} :
        Message(kind) /\ (kind = "done" => ReceiveDone) /\ (kind = "error" => ReceiveError)
  BY DEF ReceiveDone, ReceiveError
<1>2. PICK u \in BundleUrls : u = inbox[1].url /\ u = Head(inbox).url /\ inbox[1].type = kind
  BY <1>1, InboxShrinks DEF LoadInv, Messages
<1>3. UNCHANGED <<position, handlers, wants, given>>
  BY DEF ReceiveDone, ReceiveError
<1>4. IsAwaited(u)
  <2>1. 1 \in 1..Len(inbox)
    BY <1>1, InboxShrinks DEF LoadInv
  <2>2. Ending(u)
    BY <1>1, <1>2, <2>1 DEF Ending, Ends
  <2>. QED
    BY <2>2 DEF LoadInv, OneLoad, MapsAgree, IsAwaited
<1>5. NoLongerLoading(u)
  BY <1>1, <1>2, <1>4 DEF ReceiveDone, ReceiveError
<1>6. /\ u \in loadingPromises /\ u \in DOMAIN loadingBundles /\ u \notin DOMAIN bundles
      /\ kind = "done" => loadingBundles[u] = Labels
      /\ DecodedIsCollected' /\ SectionsInTime'
  BY <1>1, <1>2, <1>3, <1>5, EndComplete
<1>7. /\ loadingPromises' = loadingPromises \ {u}
      /\ \A v \in loadingPromises : v # u => /\ loadingBundles'[v] = loadingBundles[v]
                                             /\ lynxViewInstancesMap'[v] = lynxViewInstancesMap[v]
  BY <1>5 DEF NoLongerLoading, LoadInv, MapsAgree, Drop
<1>8. \A v \in loadingPromises' :
        loadingBundles'[v] \cap Passed \subseteq given'[lynxViewInstancesMap'[v]]
  BY <1>3, <1>7 DEF Complete, ViewsHaveTheirs
<1>9. Asked' = Asked /\ Asked \subseteq Requests
  BY <1>3 DEF Asked, LoadInv, LoaderTypeOK
<1>10. CASE kind = "done"
  <2>1. bundles' = Put(bundles, u, Labels) /\ promise' = Settled(u, "resolved", "instance")
    BY <1>1, <1>2, <1>4, <1>6, <1>10 DEF ReceiveDone, AfterDone
  <2>2. /\ u \in DOMAIN bundles' /\ DOMAIN bundles \subseteq DOMAIN bundles'
        /\ \A v \in DOMAIN bundles' : bundles'[v] = Labels
    BY <2>1 DEF Put, Complete, NoPartialBundle
  <2>3. NoPartialBundle'
    BY <2>2 DEF NoPartialBundle
  <2>4. ASSUME NEW r \in Requests
        PROVE  /\ r \in Asked /\ promise'[r] = "loads" =>
                    wants[r] \in loadingPromises' /\ lynxViewInstancesMap'[wants[r]] = r
               /\ r \in Asked /\ promise'[r] = "instance" => wants[r] \in DOMAIN bundles'
               /\ r \notin Asked => promise'[r] = "none"
               /\ promise'[r] = "resolved" => Passed \subseteq given[r]
    <3>1. CASE r \notin Asked \/ wants[r] # u
      <4>1. promise'[r] = promise[r]
        BY <2>1, <3>1 DEF Settled
      <4>. QED
        BY <1>7, <2>2, <3>1, <4>1 DEF Complete, ViewsHaveTheirs
    <3>2. CASE r \in Asked /\ wants[r] = u
      <4>1. CASE promise[r] = "loads"
        <5>1. promise'[r] = "resolved" /\ lynxViewInstancesMap[u] = r
          BY <2>1, <3>2, <4>1 DEF Settled, Complete, ViewsHaveTheirs
        <5>2. Passed \subseteq given[r]
          BY <1>6, <1>10, <5>1 DEF Complete, ViewsHaveTheirs, Passed
        <5>. QED
          BY <3>2, <5>1, <5>2
      <4>2. CASE promise[r] = "loading"
        BY <2>1, <2>2, <3>2, <4>2 DEF Settled
      <4>3. CASE promise[r] \notin {"loads", "loading"}
        <5>1. promise'[r] = promise[r]
          BY <2>1, <3>2, <4>3 DEF Settled
        <5>. QED
          BY <2>2, <3>2, <4>3, <5>1 DEF Complete, ViewsHaveTheirs
      <4>. QED
        BY <4>1, <4>2, <4>3
    <3>. QED
      BY <3>1, <3>2
  <2>5. ViewsHaveTheirs'
    BY <1>3, <1>8, <1>9, <2>4 DEF ViewsHaveTheirs
  <2>. QED
    BY <1>6, <2>3, <2>5 DEF Complete
<1>11. CASE kind = "error"
  <2>1. bundles' = Drop(bundles, u) /\ promise' = Settled(u, "rejected", "rejected")
    BY <1>1, <1>2, <1>4, <1>11 DEF ReceiveError, AfterError
  <2>2. /\ DOMAIN bundles' = DOMAIN bundles /\ \A v \in DOMAIN bundles' : bundles'[v] = bundles[v]
    BY <1>6, <2>1 DEF Drop
  <2>3. NoPartialBundle'
    BY <2>2 DEF NoPartialBundle, Complete
  <2>4. ASSUME NEW r \in Requests
        PROVE  /\ r \in Asked /\ promise'[r] = "loads" =>
                    wants[r] \in loadingPromises' /\ lynxViewInstancesMap'[wants[r]] = r
               /\ r \in Asked /\ promise'[r] = "instance" => wants[r] \in DOMAIN bundles'
               /\ r \notin Asked => promise'[r] = "none"
               /\ promise'[r] = "resolved" => Passed \subseteq given[r]
    <3>1. CASE r \notin Asked \/ wants[r] # u
      <4>1. promise'[r] = promise[r]
        BY <2>1, <3>1 DEF Settled
      <4>. QED
        BY <1>7, <2>2, <3>1, <4>1 DEF Complete, ViewsHaveTheirs
    <3>2. CASE r \in Asked /\ wants[r] = u
      <4>1. CASE promise[r] \in {"loads", "loading"}
        <5>1. promise'[r] = "rejected"
          BY <2>1, <3>2, <4>1 DEF Settled
        <5>. QED
          BY <3>2, <5>1
      <4>2. CASE promise[r] \notin {"loads", "loading"}
        <5>1. promise'[r] = promise[r]
          BY <2>1, <3>2, <4>2 DEF Settled
        <5>. QED
          BY <2>2, <3>2, <4>2, <5>1 DEF Complete, ViewsHaveTheirs
      <4>. QED
        BY <4>1, <4>2
    <3>. QED
      BY <3>1, <3>2
  <2>5. ViewsHaveTheirs'
    BY <1>3, <1>8, <1>9, <2>4 DEF ViewsHaveTheirs
  <2>. QED
    BY <1>6, <2>3, <2>5 DEF Complete
<1>. QED
  BY <1>10, <1>11

LEMMA HandleComplete ==
  ASSUME LoadInv, Complete, handleSection
  PROVE  Complete'
<1>1. handlers \in Seq(Handlers) /\ DOMAIN handlers = 1..Len(handlers) /\ Len(handlers) <= 1
  BY DEF LoadInv, LoaderTypeOK, Handlers, Complete, SectionsInTime
<1>2. PICK i \in 1..Len(handlers) :
        LET h == handlers[i]
            visible == h.label \in Passed /\
              (h.label = "Configurations" \/ h.label \in getBundle(h.url, bundles, Stored(h)))
        IN  /\ handlers' = RemoveAt(handlers, i) /\ loadingBundles' = Stored(h)
            /\ given' = IF visible THEN [given EXCEPT ![h.request] = @ \cup {h.label}] ELSE given
  BY <1>1 DEF handleSection
<1>3. UNCHANGED <<bundles, loadingPromises, lynxViewInstancesMap, wants, promise, position, inbox>>
  BY DEF handleSection, workerVars
<1>4. i = 1 /\ Len(handlers) = 1 /\ handlers' = <<>> /\ Len(handlers') = 0
  BY <1>1, <1>2, RemoveOnly
<1>5. PICK h \in Handlers : h = handlers[i]
  BY <1>1, <1>2, ElementOfSeq
<1>6. /\ h.url \in loadingPromises /\ h.request = lynxViewInstancesMap[h.url]
      /\ h.request \in Requests /\ h.label \in Labels
  BY <1>2, <1>5 DEF Complete, SectionsInTime, Handlers
<1>7. /\ DOMAIN loadingBundles = loadingPromises
      /\ \A u \in loadingPromises :
           /\ loadingBundles[u] \subseteq loadingBundles'[u]
           /\ u # h.url => loadingBundles'[u] = loadingBundles[u]
      /\ loadingBundles'[h.url] = loadingBundles[h.url] \cup {h.label}
  BY <1>2, <1>5, <1>6, StoredType DEF LoadInv, MapsAgree
<1>8. h.label \in Passed => given' = [given EXCEPT ![h.request] = @ \cup {h.label}]
  <2>1. h.url \notin DOMAIN bundles /\ h.url \in DOMAIN Stored(h)
    BY <1>6, <1>7, StoredType DEF LoadInv, MapsAgree
  <2>2. h.label \in getBundle(h.url, bundles, Stored(h))
    BY <1>2, <1>5, <1>7, <2>1 DEF getBundle
  <2>. QED
    BY <1>2, <1>5, <2>2
<1>9. /\ given \in [Requests -> SUBSET Labels]
      /\ \A r \in Requests : given[r] \subseteq given'[r]
      /\ h.label \in Passed => h.label \in given'[h.request]
  <2>1. given \in [Requests -> SUBSET Labels]
    BY DEF LoadInv, LoaderTypeOK
  <2>. QED
    BY <1>2, <1>5, <1>6, <1>8, <2>1
<1>10. ASSUME NEW v \in loadingPromises, NEW l, Collected(v, l) PROVE Collected(v, l)'
  <2>1. CASE l \in loadingBundles[v]
    BY <1>7, <2>1 DEF Collected
  <2>2. ASSUME NEW j \in 1..Len(handlers), Handled(j, v, l) PROVE Collected(v, l)'
    <3>1. j = i
      BY <1>4
    <3>2. h.url = v /\ h.label = l
      BY <1>5, <2>2, <3>1 DEF Handled
    <3>. QED
      BY <1>7, <3>2 DEF Collected
  <2>3. CASE \E n \in 1..Len(inbox) : Posted(n, v, l)
    BY <1>3, <2>3 DEF Collected, Posted
  <2>. QED
    BY <1>10, <2>1, <2>2, <2>3 DEF Collected
<1>11. DecodedIsCollected'
  <2>1. ASSUME NEW v \in BundleUrls, NEW k \in 1..Len(Sections), k < position[v]
        PROVE  Collected(v, Sections[k])'
    <3>1. position[v] \in 0..Len(Sections) + 1 /\ Len(Sections) \in Nat
      BY LoaderAssumption DEF LoadInv, LoaderTypeOK
    <3>2. position[v] > 0
      BY <2>1, <3>1
    <3>3. v \in loadingPromises
      BY <3>2 DEF LoadInv, OneLoad
    <3>. QED
      BY <1>10, <2>1, <3>3 DEF Complete, DecodedIsCollected
  <2>2. ASSUME NEW v \in BundleUrls, NEW n \in 1..Len(inbox), inbox[n].url = v, inbox[n].type = "done",
               NEW l \in Labels
        PROVE  Collected(v, l)'
    <3>1. Ending(v)
      BY <2>2 DEF Ending, Ends
    <3>2. v \in loadingPromises
      BY <3>1 DEF LoadInv, OneLoad
    <3>. QED
      BY <1>10, <2>2, <3>2 DEF Complete, DecodedIsCollected
  <2>. QED
    BY <1>3, <2>1, <2>2 DEF DecodedIsCollected
<1>12. SectionsInTime'
  <2>1. \A j \in 1..Len(handlers') : FALSE
    BY <1>4
  <2>. QED
    BY <1>3, <1>4, <2>1 DEF Complete, SectionsInTime, Ends
<1>13. ViewsHaveTheirs'
  <2>1. ASSUME NEW v \in loadingPromises
        PROVE  loadingBundles'[v] \cap Passed \subseteq given'[lynxViewInstancesMap[v]]
    <3>1. lynxViewInstancesMap[v] \in Requests
      BY DEF LoadInv, LoaderTypeOK, MapsAgree
    <3>2. loadingBundles[v] \cap Passed \subseteq given[lynxViewInstancesMap[v]]
      BY DEF Complete, ViewsHaveTheirs
    <3>3. CASE v = h.url
      BY <1>6, <1>7, <1>9, <3>1, <3>2, <3>3
    <3>4. CASE v # h.url
      BY <1>7, <1>9, <3>1, <3>2, <3>4
    <3>. QED
      BY <3>3, <3>4
  <2>. QED
    BY <1>3, <1>9, <2>1 DEF Complete, ViewsHaveTheirs, Asked
<1>14. NoPartialBundle'
  BY <1>3 DEF Complete, NoPartialBundle
<1>. QED
  BY <1>11, <1>12, <1>13, <1>14 DEF Complete

LEMMA PromptInductive == LoadInv /\ PromptInv /\ [LoaderNext]_loaderVars => PromptInv'
<1> SUFFICES ASSUME LoadInv, PromptInv, [LoaderNext]_loaderVars, prompt'
             PROVE  (instances = Requests /\ wasm /\ Complete)'
  BY DEF PromptInv
<1>1. UNCHANGED prompt
  BY DEF LoaderNext, loaderVars, WorkerReady, WasmLoaded, ReceiveSection, ReceiveDone, ReceiveError, handleSection,
         InstanceReady, serveCached, PostLoad, PostSection, PostDone, PostError, fetchBundle
<1>2. instances = Requests /\ wasm /\ Complete
  BY <1>1 DEF PromptInv
<1>3. CASE UNCHANGED loaderVars
  BY <1>2, <1>3 DEF loaderVars, mapVars, requestVars, workerVars, Complete, DecodedIsCollected, SectionsInTime,
                    ViewsHaveTheirs, NoPartialBundle, Collected, Posted, Handled, Ends, Asked
<1>4. CASE WorkerReady
  BY <1>2, <1>4 DEF WorkerReady, mapVars, requestVars, workerVars, Complete, DecodedIsCollected,
                    SectionsInTime, ViewsHaveTheirs, NoPartialBundle, Collected, Posted, Handled,
                    Ends, Asked
<1>5. ASSUME WasmLoaded \/ \E r \in Requests : InstanceReady(r) PROVE FALSE
  BY <1>2, <1>5 DEF WasmLoaded, InstanceReady
<1>6. ASSUME LoaderNext, ~WorkerReady, ~WasmLoaded, ~ \E r \in Requests : InstanceReady(r)
      PROVE  UNCHANGED <<instances, wasm>>
  BY <1>6 DEF LoaderNext, ReceiveSection, ReceiveDone, ReceiveError, handleSection, serveCached, PostLoad,
              PostSection, PostDone, PostError, fetchBundle, requestVars
<1>7. ASSUME LoaderNext, ~WorkerReady, ~WasmLoaded, ~ \E r \in Requests : InstanceReady(r)
      PROVE  Complete'
  BY <1>2, <1>7, ServeComplete, FetchComplete, WorkerComplete, SectionComplete, EndsOfLoadsComplete,
     HandleComplete DEF LoaderNext
<1>. QED
  BY <1>2, <1>3, <1>4, <1>5, <1>6, <1>7

LEMMA PromptInitial == LoaderInit => PromptInv
<1> SUFFICES ASSUME LoaderInit, prompt PROVE instances = Requests /\ wasm /\ Complete
  BY DEF PromptInv
<1>1. /\ Len(inbox) = 0 /\ Len(handlers) = 0 /\ 1..0 = {}
      /\ Asked = {} /\ DOMAIN bundles = {} /\ loadingPromises = {}
      /\ instances = Requests /\ wasm
  BY DEF LoaderInit, Empty, Asked
<1>2. DecodedIsCollected
  <2>1. \A u \in BundleUrls : \A k \in 1..Len(Sections) : ~(k < position[u])
    BY LoaderAssumption DEF LoaderInit
  <2>. QED
    BY <1>1, <2>1 DEF DecodedIsCollected
<1>3. SectionsInTime
  BY <1>1 DEF SectionsInTime
<1>4. ViewsHaveTheirs
  BY <1>1 DEF LoaderInit, ViewsHaveTheirs
<1>5. NoPartialBundle
  BY <1>1 DEF NoPartialBundle
<1>. QED
  BY <1>1, <1>2, <1>3, <1>4, <1>5 DEF Complete

\* When no promise has to be waited for, no view is served a part of a bundle: whatever order
\* its sections come in and whatever errors interrupt a load, the cache holds whole bundles
\* and a view whose fetchBundle resolves has been given every section.
THEOREM PromptIsComplete == LoaderSpec => []CompleteWhenPrompt
<1>1. PromptInv => CompleteWhenPrompt
  BY DEF PromptInv, Complete, ViewsHaveTheirs, CompleteWhenPrompt
<1>2. LoadInv /\ PromptInv /\ [LoaderNext]_loaderVars => (LoadInv /\ PromptInv)'
  BY LoadInductive, PromptInductive
<1>3. LoaderInit => LoadInv /\ PromptInv
  BY LoadInitial, PromptInitial
<1>. QED
  BY <1>1, <1>2, <1>3, PTL DEF LoaderSpec
==============================================================================
