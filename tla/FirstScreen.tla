----------------------------- MODULE FirstScreen -----------------------------
(***************************************************************************)
(* The hand-over of a ReactLynx page from the main thread, which renders   *)
(* the first screen alone, to the background thread, which hydrates it and *)
(* drives every later update; and the reload of a page, which does the     *)
(* hand-over again.                                                        *)
(*                                                                         *)
(* A page is abstracted to one element with one event handler.  Each       *)
(* render of the main thread gives the root and this element a new id; ids *)
(* are counted upwards here (the code counts -1, -2, ...).  The code is    *)
(* packages/react/runtime/src/snapshot (lynx/, lifecycle/) and             *)
(* packages/react/runtime/src/lynx-api.ts.  The two channels are the       *)
(* engine's task queues of the two threads: reliable and first-in          *)
(* first-out.                                                              *)
(***************************************************************************)
EXTENDS Integers, Sequences

CONSTANTS
  Timings,       \* values of __FIRST_SCREEN_SYNC_TIMING__ to consider
  Apps,          \* what apps and the engine may do, see "app"
  MaxUpdates,    \* bound on updatePage calls before the first screen is synced
  MaxReloads,    \* bound on reloads
  MaxEvents,     \* bound on events fired by the user
  MaxCommits     \* bound on commits of the background thread after hydration

ASSUME ConstantsAssumption ==
  /\ Timings \subseteq {"immediately", "jsReady", "manual"}
  /\ Apps \subseteq [earlyReload : BOOLEAN, markInReload : BOOLEAN]
  /\ MaxUpdates \in Nat /\ MaxReloads \in Nat
  /\ MaxEvents \in Nat /\ MaxCommits \in Nat

VARIABLES
  app,            \* fixed: may the page be reloaded before the script's root.render, and
                  \* may app code mark the first screen ready while a reload renders?
  timing,         \* __FIRST_SCREEN_SYNC_TIMING__, fixed when the bundle is built
  \* main thread
  phase,          \* what the main thread is running: one task at a time
  mVersion,       \* reloadVersion of the main thread
  mRoot,          \* id of __root (0: renderPage not called yet)
  mIds,           \* keys of snapshotInstanceManager.values
  shown,          \* the element of the first screen is on the page
  synced,         \* isFirstScreenSynced
  marked,         \* isMarkedFirstScreenSyncReady
  treeReady,      \* isFirstScreenTreeReady
  swap,           \* firstScreenEventIdSwap, a set of pairs <<old id, new id>>
  hydrated,       \* a hydration patch has been applied to the current __root
  \* background thread
  bVersion,       \* reloadVersion of the background thread
  bTree,          \* "none": root.render not called; "empty"; "rendered"
  bPatching,      \* __globalSnapshotPatch is defined
  bRoot,          \* id of the background __root, once hydrated
  bElement,       \* id of the live element (0: not hydrated yet)
  bIds,           \* first-screen ids of elements in backgroundSnapshotInstanceManager.values
  direct,         \* tt.publishEvent is the real publishEvent, not delayedPublishEvent
  delayedEvents,
  delayedScreens, \* delayedLifecycleEvents
  \* channels
  toBackground,
  toMain,
  \* history and bounds
  handovers,      \* firstScreen messages sent in the current reload version
  missed,         \* events whose handler was not found
  aborted,        \* hydrations that ended with an exception
  updates, events, commits

mainVars == <<phase, mVersion, mRoot, mIds, shown, synced, marked, treeReady, swap, hydrated>>
bgVars == <<bVersion, bTree, bPatching, bRoot, bElement, bIds, direct, delayedEvents, delayedScreens>>
vars == <<app, timing, mainVars, bgVars, toBackground, toMain,
          handovers, missed, aborted, updates, events, commits>>

(***************************************************************************)
(* Messages.  In those to the background thread "version" and "settled"    *)
(* are history: the reload version of the main thread, and whether the     *)
(* tree was serialised outside any data processing or rendering.           *)
(***************************************************************************)
Ids == Int
BackgroundMessages ==
  [type : {"firstScreen", "appReload", "event"}, id : Ids, swap : SUBSET (Ids \X Ids),
   hasSwap : BOOLEAN, version : Nat, settled : BOOLEAN]
MainMessages ==
  [type : {"syncReady", "patch"}, id : Ids, version : Nat,
   hydration : BOOLEAN, removal : BOOLEAN]

WithoutSwap(sw, hasSwap, settled) ==
  [type |-> "firstScreen", id |-> mRoot, hasSwap |-> hasSwap,
   version |-> mVersion, settled |-> settled]
FirstScreenMsg(sw, hasSwap, settled) ==
  [type |-> "firstScreen", id |-> mRoot, swap |-> sw, hasSwap |-> hasSwap,
   version |-> mVersion, settled |-> settled]
AppReloadMsg(version) ==
  [type |-> "appReload", id |-> 0, swap |-> {}, hasSwap |-> FALSE,
   version |-> version, settled |-> TRUE]
EventMsg ==
  [type |-> "event", id |-> mRoot, swap |-> {}, hasSwap |-> FALSE,
   version |-> mVersion, settled |-> TRUE]
SyncReadyMsg ==
  [type |-> "syncReady", id |-> 0, version |-> bVersion,
   hydration |-> FALSE, removal |-> FALSE]
PatchMsg(id, hydration, removal) ==
  [type |-> "patch", id |-> id, version |-> bVersion,
   hydration |-> hydration, removal |-> removal]

TypeOK ==
  /\ app \in [earlyReload : BOOLEAN, markInReload : BOOLEAN]
  /\ timing \in {"immediately", "jsReady", "manual"}
  /\ phase \in {"idle", "data", "render", "reload"}
  /\ mVersion \in Nat /\ mRoot \in Ids /\ mIds \in SUBSET Ids
  /\ shown \in BOOLEAN /\ synced \in BOOLEAN /\ marked \in BOOLEAN
  /\ treeReady \in BOOLEAN /\ hydrated \in BOOLEAN
  /\ swap \in SUBSET (Ids \X Ids)
  /\ bVersion \in Nat /\ bTree \in {"none", "empty", "rendered"}
  /\ bPatching \in BOOLEAN /\ direct \in BOOLEAN
  /\ bRoot \in Ids /\ bElement \in Ids /\ bIds \in SUBSET Ids
  /\ delayedEvents \in Seq(Ids)
  /\ delayedScreens \in Seq(BackgroundMessages)
  /\ toBackground \in Seq(BackgroundMessages)
  /\ toMain \in Seq(MainMessages)
  /\ handovers \in Nat /\ aborted \in Nat
  /\ missed \in SUBSET Ids
  /\ updates \in Nat /\ events \in Nat /\ commits \in Nat

Init ==
  /\ app \in Apps
  /\ timing \in Timings
  /\ phase = "idle" /\ mVersion = 0 /\ mRoot = 0 /\ mIds = {} /\ shown = FALSE
  /\ synced = FALSE /\ marked = FALSE /\ treeReady = FALSE
  /\ swap = {} /\ hydrated = FALSE
  /\ bVersion = 0 /\ bTree = "none" /\ bPatching = FALSE
  /\ bRoot = 0 /\ bElement = 0 /\ bIds = {} /\ direct = FALSE
  /\ delayedEvents = <<>> /\ delayedScreens = <<>>
  /\ toBackground = <<>> /\ toMain = <<>>
  /\ handovers = 0 /\ missed = {} /\ aborted = 0
  /\ updates = 0 /\ events = 0 /\ commits = 0

-----------------------------------------------------------------------------
(* Main thread: the first screen and its two latches (firstScreenSync.ts) *)

\* syncFirstScreen: send the serialised tree and the id swap, then clear the swap.
syncFirstScreen(sw, settled) ==
  /\ synced' = TRUE
  /\ toBackground' = Append(toBackground, FirstScreenMsg(sw, TRUE, settled))
  /\ swap' = {}
  /\ handovers' = handovers + 1

noSync(sw) == swap' = sw /\ UNCHANGED <<synced, toBackground, handovers>>

MaySyncTwice == treeReady /\ phase # "data"

\* A mark made by the default data processor is recorded, not acted upon.
MaySyncOnMark == treeReady /\ phase # "data" /\ ~synced

onFirstScreenSyncReady ==
  /\ marked' = TRUE
  /\ IF MaySyncOnMark THEN syncFirstScreen(swap, phase = "idle") ELSE noSync(swap)

\* The tree is built: honour a mark that came before.
onFirstScreenTreeReady(sw) ==
  /\ treeReady' = TRUE
  /\ IF marked /\ ~synced THEN syncFirstScreen(sw, TRUE) ELSE noSync(sw)

\* The native side runs the default data processor before a render of new data.
ProcessData ==
  /\ phase = "idle" /\ ~synced
  /\ mRoot = 0 \/ updates < MaxUpdates
  /\ phase' = "data"
  /\ UNCHANGED <<app, timing, mVersion, mRoot, mIds, shown, synced, marked, treeReady, swap,
                 hydrated, bgVars, toBackground, toMain, handovers, missed, aborted,
                 updates, events, commits>>

KeepTreeReady == treeReady

\* resetFirstScreenTreeReady, called by updatePage and not by renderPage.
TreeReadyWhileRendering ==
  IF mRoot # 0 /\ timing = "manual" THEN FALSE ELSE treeReady

\* renderPage, or updatePage before the first screen is synced: the new root is
\* installed before its tree is rendered.
BeginRender ==
  /\ phase = "data"
  /\ phase' = "render"
  /\ mRoot' = mRoot + 1
  /\ mIds' = mIds \cup {mRoot + 1}
  /\ shown' = TRUE
  /\ treeReady' = TreeReadyWhileRendering
  /\ updates' = IF mRoot = 0 THEN updates ELSE updates + 1
  /\ UNCHANGED <<app, timing, mVersion, synced, marked, swap, hydrated, bgVars,
                 toBackground, toMain, handovers, missed, aborted, events, commits>>

\* The main-thread hydrate(oldRoot, __root) of updatePage records old id -> new id.
SwapAfterHydrate == swap \cup {<<mRoot - 1, mRoot>>}

\* The rest of renderPage or of updatePage.
EndRender ==
  /\ phase = "render"
  /\ phase' = "idle"
  /\ IF mRoot = 1
     THEN IF timing = "immediately"
          THEN syncFirstScreen(swap, TRUE) /\ UNCHANGED treeReady
          ELSE onFirstScreenTreeReady(swap)
     ELSE IF timing = "manual"
          THEN onFirstScreenTreeReady(SwapAfterHydrate)
          ELSE noSync(SwapAfterHydrate) /\ UNCHANGED treeReady
  /\ UNCHANGED <<app, timing, mVersion, mRoot, mIds, shown, marked, hydrated, bgVars,
                 toMain, missed, aborted, updates, events, commits>>

\* markFirstScreenSyncReady called on the main thread: in a data processor, in a
\* render, or in a main-thread event handler.
MarkOnMain ==
  /\ timing = "manual"
  /\ phase = "reload" => app.markInReload
  /\ onFirstScreenSyncReady
  /\ UNCHANGED <<app, timing, phase, mVersion, mRoot, mIds, shown, treeReady, hydrated, bgVars,
                 toMain, missed, aborted, updates, events, commits>>

\* The user acts on the element: its event is dispatched with the current id.
FireEvent ==
  /\ phase = "idle" /\ shown /\ events < MaxEvents
  /\ toBackground' = Append(toBackground, EventMsg)
  /\ events' = events + 1
  /\ UNCHANGED <<app, timing, mainVars, bgVars, toMain, handovers, missed, aborted,
                 updates, commits>>

\* The native side reloads the page: onAppReload is posted to the background
\* thread, reloadMainThread starts on this one.
BeginReload ==
  /\ phase = "idle" \/ (app.markInReload /\ phase = "data")
  /\ mRoot # 0 /\ mVersion < MaxReloads
  /\ app.earlyReload \/ bTree # "none"
  /\ phase' = "reload"
  /\ mVersion' = mVersion + 1
  /\ mRoot' = mRoot + 1
  /\ mIds' = {mRoot + 1}
  /\ shown' = TRUE /\ hydrated' = FALSE
  /\ swap' = {}
  /\ handovers' = 0
  /\ toBackground' = Append(toBackground, AppReloadMsg(mVersion + 1))
  /\ UNCHANGED <<app, timing, synced, marked, treeReady, bgVars, toMain, missed, aborted,
                 updates, events, commits>>

\* The end of reloadMainThread: a tree already handed over is sent again, this
\* time without firstScreenEventIdSwap.
EndReload ==
  /\ phase = "reload"
  /\ phase' = "idle"
  /\ IF synced
     THEN /\ toBackground' = Append(toBackground, FirstScreenMsg({}, FALSE, TRUE))
          /\ handovers' = handovers + 1
     ELSE UNCHANGED <<toBackground, handovers>>
  /\ UNCHANGED <<app, timing, mVersion, mRoot, mIds, shown, synced, marked, treeReady, swap,
                 hydrated, bgVars, toMain, missed, aborted, updates, events, commits>>

ReceiveSyncReady ==
  /\ phase = "idle" /\ toMain # <<>> /\ Head(toMain).type = "syncReady"
  /\ toMain' = Tail(toMain)
  /\ onFirstScreenSyncReady
  /\ UNCHANGED <<app, timing, phase, mVersion, mRoot, mIds, shown, treeReady, hydrated, bgVars,
                 missed, aborted, updates, events, commits>>

AcceptEveryPatch(m) == FALSE
DropCurrentPatches(m) == m.version <= mVersion

\* updateMainThread drops the patches of an earlier life of the page.
StalePatch(m) == m.version < mVersion

updateMainThread ==
  /\ phase = "idle" /\ toMain # <<>> /\ Head(toMain).type = "patch"
  /\ toMain' = Tail(toMain)
  /\ LET m == Head(toMain)
     IN  IF StalePatch(m)
         THEN UNCHANGED <<hydrated, shown>>
         ELSE /\ hydrated' = (hydrated \/ m.hydration)
              /\ shown' = (shown /\ ~m.removal)
  /\ UNCHANGED <<app, timing, phase, mVersion, mRoot, mIds, synced, marked, treeReady, swap,
                 bgVars, toBackground, handovers, missed, aborted, updates, events, commits>>

-----------------------------------------------------------------------------
(* Background thread *)

ResolveOnce(sw, id) ==
  IF \E p \in sw : p[1] = id THEN (CHOOSE p \in sw : p[1] = id)[2] ELSE id

\* The while loop of onLifecycleEventImpl: follow the swap to the last id.
Resolve(sw, id) ==
  LET last[i \in {id} \cup {p[2] : p \in sw}] ==
        IF \E p \in sw : p[1] = i THEN last[(CHOOSE p \in sw : p[1] = i)[2]] ELSE i
  IN  last[id]

\* hydrate: the live element, if there is one, takes the main thread's id.
HydratedElement(m, tree) == IF tree = "rendered" THEN m.id ELSE bElement
HydratedIds(m, tree) == IF tree = "rendered" THEN bIds \cup {m.id} ELSE bIds

\* Reading firstScreenEventIdSwap[id] throws when the message has no swap.
ReplayThrows(m) == ~m.hasSwap /\ delayedEvents # <<>>

\* The firstScreen branch of onLifecycleEventImpl, given the background tree, with
\* queue what the caller has already sent to the main thread.
HydrateFirstScreen(m, tree, queue) ==
  /\ bPatching' = TRUE
  /\ bRoot' = m.id
  /\ bElement' = HydratedElement(m, tree)
  /\ bIds' = HydratedIds(m, tree)
  /\ IF ReplayThrows(m)
     THEN /\ aborted' = aborted + 1
          /\ toMain' = queue
          /\ UNCHANGED <<direct, delayedEvents, missed>>
     ELSE /\ direct' = TRUE
          /\ delayedEvents' = <<>>
          /\ missed' = missed \cup
               {delayedEvents[i] : i \in {j \in DOMAIN delayedEvents :
                   Resolve(m.swap, delayedEvents[j]) \notin HydratedIds(m, tree)}}
          /\ toMain' = Append(queue, PatchMsg(m.id, TRUE, tree = "empty"))
          /\ UNCHANGED aborted

\* root.render on the background thread; a tree emptied by an early reload is
\* hydrated already, so its content goes out as a patch.
RootRender ==
  /\ bTree # "rendered"
  /\ bTree' = "rendered"
  /\ LET sent == IF bPatching THEN Append(toMain, PatchMsg(bRoot, FALSE, FALSE)) ELSE toMain
     IN  IF timing = "jsReady" \/ delayedScreens = <<>>
         THEN /\ toMain' = IF timing = "jsReady" THEN Append(sent, SyncReadyMsg) ELSE sent
              /\ UNCHANGED <<bPatching, bRoot, bElement, bIds, direct, delayedEvents,
                             delayedScreens, missed, aborted>>
         ELSE /\ HydrateFirstScreen(Head(delayedScreens), "rendered", sent)
              /\ delayedScreens' = Tail(delayedScreens)
  /\ UNCHANGED <<app, timing, mainVars, bVersion, toBackground, handovers, updates, events, commits>>

\* onLifecycleEvent with a firstScreen message.
ReceiveFirstScreen ==
  /\ toBackground # <<>> /\ Head(toBackground).type = "firstScreen"
  /\ toBackground' = Tail(toBackground)
  /\ IF bTree = "none"
     THEN /\ delayedScreens' = Append(delayedScreens, Head(toBackground))
          /\ UNCHANGED <<bPatching, bRoot, bElement, bIds, direct, delayedEvents,
                         toMain, missed, aborted>>
     ELSE /\ HydrateFirstScreen(Head(toBackground), bTree, toMain)
          /\ UNCHANGED delayedScreens
  /\ UNCHANGED <<app, timing, mainVars, bVersion, bTree, handovers, updates, events, commits>>

KeepDelayedEvents == delayedEvents

\* destroyBackground drops the events that were waiting for hydration.
DelayedEventsAfterReload == <<>>

\* reloadBackground: stop patching, unmount the old tree and drop what was delayed,
\* render the page anew.  The old element stays registered until it is torn down.
ReceiveAppReload ==
  /\ toBackground # <<>> /\ Head(toBackground).type = "appReload"
  /\ toBackground' = Tail(toBackground)
  /\ bPatching' = FALSE
  /\ bVersion' = bVersion + 1
  /\ bTree' = IF bTree = "none" THEN "empty" ELSE bTree
  /\ bElement' = 0
  /\ delayedEvents' = DelayedEventsAfterReload
  /\ delayedScreens' = <<>>
  /\ UNCHANGED <<app, timing, mainVars, bRoot, bIds, direct, toMain, handovers, missed, aborted,
                 updates, events, commits>>

\* tt.publishEvent: delayed before the first hydration, a lookup by id after it.
ReceiveEvent ==
  /\ toBackground # <<>> /\ Head(toBackground).type = "event"
  /\ toBackground' = Tail(toBackground)
  /\ LET id == Head(toBackground).id
     IN  IF direct
         THEN /\ missed' = IF id \in bIds THEN missed ELSE missed \cup {id}
              /\ UNCHANGED delayedEvents
         ELSE /\ delayedEvents' = Append(delayedEvents, id)
              /\ UNCHANGED missed
  /\ UNCHANGED <<app, timing, mainVars, bVersion, bTree, bPatching, bRoot, bElement, bIds, direct,
                 delayedScreens, toMain, handovers, aborted, updates, events, commits>>

\* The commit hook after an update of the background tree.
Commit ==
  /\ bTree = "rendered" /\ bPatching /\ commits < MaxCommits
  /\ toMain' = Append(toMain, PatchMsg(bRoot, FALSE, FALSE))
  /\ commits' = commits + 1
  /\ UNCHANGED <<app, timing, mainVars, bgVars, toBackground, handovers, missed, aborted,
                 updates, events>>

\* The timer of a commit task tears an unmounted element down.
TearDown ==
  /\ \E id \in bIds \ {bElement} : bIds' = bIds \ {id}
  /\ UNCHANGED <<app, timing, mainVars, bVersion, bTree, bPatching, bRoot, bElement, direct,
                 delayedEvents, delayedScreens, toBackground, toMain, handovers, missed,
                 aborted, updates, events, commits>>

\* markFirstScreenSyncReady called on the background thread; at most one such call
\* is kept in flight, and none once the mark is set.
MarkOnBackground ==
  /\ timing = "manual" /\ ~marked
  /\ \A i \in DOMAIN toMain : toMain[i].type # "syncReady"
  /\ toMain' = Append(toMain, SyncReadyMsg)
  /\ UNCHANGED <<app, timing, mainVars, bgVars, toBackground, handovers, missed, aborted,
                 updates, events, commits>>

-----------------------------------------------------------------------------
Main ==
  \/ ProcessData \/ BeginRender \/ EndRender \/ MarkOnMain \/ FireEvent
  \/ BeginReload \/ EndReload \/ ReceiveSyncReady \/ updateMainThread

Background ==
  \/ RootRender \/ ReceiveFirstScreen \/ ReceiveAppReload \/ ReceiveEvent
  \/ Commit \/ TearDown \/ MarkOnBackground

Next == Main \/ Background

Spec == Init /\ [][Next]_vars

\* Each thread runs its queue, the native side renders the page, the script calls
\* root.render, and in "manual" mode the app marks the first screen ready once.
Fairness ==
  /\ WF_vars(ProcessData /\ mRoot = 0) /\ WF_vars(BeginRender) /\ WF_vars(EndRender)
  /\ WF_vars(EndReload) /\ WF_vars(ReceiveSyncReady) /\ WF_vars(updateMainThread)
  /\ WF_vars(RootRender) /\ WF_vars(ReceiveFirstScreen) /\ WF_vars(ReceiveAppReload)
  /\ WF_vars(ReceiveEvent) /\ WF_vars(MarkOnBackground)

FairSpec == Spec /\ Fairness

-----------------------------------------------------------------------------
(* Properties *)

\* The main thread hands a tree over at most once in each life of the page, for a second
\* firstScreen message would hydrate a tree that is already hydrated; and the tree it has
\* serialised is completely rendered: a mark made while data is processed or a tree is
\* rendered waits for the end of it.  (A mark made in a reload breaks both: reloads do not
\* reset the latch.)
HandedOverOnce ==
  ~app.markInReload =>
    /\ handovers <= 1
    /\ \A q \in {toBackground, delayedScreens} : \A i \in DOMAIN q :
         q[i].type = "firstScreen" => q[i].settled

\* A patch the main thread will accept addresses the root it shows now, whatever
\* reloads happened while the two threads were apart; so no node it names is gone
\* from snapshotInstanceManager.
AcceptedPatchesMatchRoot ==
  \A i \in DOMAIN toMain :
    toMain[i].type = "patch" /\ ~StalePatch(toMain[i]) =>
      toMain[i].id = mRoot /\ mRoot \in mIds

\* An event fired on the first screen, even with an id that updatePage replaced,
\* finds its handler, at once or when it is replayed after hydration.  (A reload before
\* root.render hydrates an empty page, in which there is no handler.)
EventsFindTheirHandler == ~app.earlyReload => missed = {}

\* Hydration never ends with an exception, which would lose the hydration patch.
HydrationCompletes == aborted = 0

\* The page ends up hydrated, whatever updates, marks and reloads came first.  (A mark
\* made in a data processor that a reload follows is honoured by nothing.)
EventuallyHydrated == ~app.markInReload => <>[](hydrated)
=============================================================================
