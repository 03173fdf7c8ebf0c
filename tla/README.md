# Formal models of the Lynx stack

This directory holds TLA+ models of the parts of this repository whose correctness depends on
the order in which two threads, a worker or a user act: the ReactLynx runtime (one page, two
threads) and the web platform that runs Lynx pages in a browser.  Every definition is translated
from the source; `PROJECT.json` maps it to its lines.  `*.tla` are the modules, `MC*.tla` and
`*.cfg` the small instances that TLC checks, `*_proofs.tla` the theorems that TLAPS checks for
every value of the constants.

Paths are relative to the root of the repository; `runtime/` stands for
`packages/react/runtime/src/`, `web-core/` for `packages/web-platform/web-core/ts/client/`.

## 1. Inventory

### ReactLynx runtime (`runtime/`)

A page runs twice.  The *main thread* renders the first screen alone (`renderPage`), serialises
its tree and sends it to the *background thread* in a `firstScreen` message.  The background
thread has rendered the same page with Preact; it *hydrates*: it walks the two trees, takes over
the main thread's ids, and answers with a patch.  From then on it owns the page, and every commit
of Preact goes to the main thread as a patch.  A native `reloadTemplate` tears both sides down
and does the hand-over again.

| part | state | operations | hard because |
|---|---|---|---|
| First-screen latches `snapshot/lifecycle/event/firstScreenSync.ts` | `isFirstScreenSynced`, `isMarkedFirstScreenSyncReady`, `isFirstScreenTreeReady`, `firstScreenEventIdSwap` | `syncFirstScreen`, `onFirstScreenSyncReady`, `onFirstScreenTreeReady`, `resetFirstScreenTreeReady` | a mark can come at any point: in a data processor, while a tree is rendered, from the other thread |
| Main-thread calls of the engine `snapshot/lynx/calledByNative.ts` | `__root`, `snapshotInstanceManager` | `renderPage`, `updatePage`, `processData` | an update before hydration builds a second tree while events already name the first |
| Lifecycle events of the background thread `snapshot/lynx/tt.ts` | `delayedLifecycleEvents`, `delayedEvents`, `tt.publishEvent` | `onLifecycleEvent`, `publishEvent`, `delayedPublishEvent` | messages that arrive before `root.render`; events replayed after hydration under another id |
| Reload `snapshot/lifecycle/reload.ts`, `destroy.ts` | `reloadVersion` on both threads | `reloadMainThread`, `reloadBackground` | patches of the earlier life are still in flight |
| Patches `snapshot/lifecycle/patch/*` | `__globalSnapshotPatch`, `globalCommitTaskMap`, `globalBackgroundSnapshotInstancesToRemove` | commit hook, `snapshotPatchApply`, `updateMainThread` | instances are freed by a timer after the acknowledgement, but Suspense may want them back |
| Background tree `snapshot/snapshot/backgroundSnapshot.ts` | `backgroundSnapshotInstanceManager`, the tree | `insertBefore`, `removeChild`, `setAttribute`, `tearDown`, `hydrate` | ids change under the renderer's feet when the page is hydrated |
| Main tree `snapshot/snapshot/snapshot.ts` | `snapshotInstanceManager`, the tree | `insertBefore`, `removeChild`, `setAttribute` | must contain every id that a patch names |
| Child diff `snapshot/renderToOpcodes/hydrate.ts` | - | `diffArrayLepus`, `diffArrayAction` | moves and insertions counted in one loop |
| Lists `snapshot/list/*`, list branches of `snapshot.ts` and `hydrate.ts`, `packages/react/components/src/DeferredListItem.tsx` | `gSignMap`, `gRecycleMap`, pending list updates, `__extraProps.isReady` | `componentAtIndex`, `enqueueComponent`, the record of a patch and its flush | the engine calls back in an uncertain order; elements are taken from one item for another while content is on its way; positions depend on all before them |
| Refs, worklet refs, gestures | ref maps of both threads | queue and apply at commit | attach and detach cross threads |
| Functions across threads `runtime/worklet-runtime`, `runtime/core/background-function`, `runtime/core/thread-function-call` | `execIdMap`, `execIdRefCount`, delayed calls and resolve maps of both threads | `runOnBackground`, `runOnMainThread`, answers, release | a garbage collector releases functions while calls are in flight; calls wait for a commit or for hydration |
| Element-template runtime `runtime/element-template` | its own copies of all of the above | as above | as above |

What makes them correct: one complete tree is handed over in each life of the page; every event
the user fires finds its handler; a patch that is accepted names nodes that exist; the main
thread shows what the background thread committed; what is removed is freed, and nothing else is;
an element of a list shows the item it was asked for; a function that can still be called is there.

### Web platform (`packages/web-platform`)

A `<lynx-view>` element owns a `LynxViewInstance`, which runs the main-thread script in an iframe
and the background script in a worker; workers may be shared between views by a group id.

| part | state | operations | hard because |
|---|---|---|---|
| Bundle loader `web-core/mainthread/TemplateManager.ts`, `web-core/decodeWorker` | bundles loading and loaded, promises by url | `fetchBundle`, section, done and error messages | several views ask for a url while a worker streams its sections |
| View life cycle `web-core/mainthread/LynxView.ts` | `#instance`, `#rendering`, `#disposePromise`, `#connected` | `url`, `reload`, connected and disconnected callbacks | asynchronous render and dispose overlap |
| Workers `web-core/mainthread/Background.ts` | `contextIdToBackgroundWorker`, `runningCards` | `startWebWorker`, `startBTS`, dispose | reference counting of a shared worker |
| RPC `web-worker-rpc/src/Rpc.ts` | queue, message cache, handlers | `invoke`, `registerHandler`, `setMessagePort` | calls before the port or the handler exists |
| Element APIs, exposure, i18n, SSR, web-elements | DOM state | - | mostly sequential, DOM bound |

What makes them correct: a url is fetched once, however many views ask, and what is served is the
whole bundle; a view shows the url it was last given, in a realm that is alive, and its pages do
not overlap; cards that share a worker keep it as long as one of them runs, and no longer; every
call is started once and in order, and answered.

### The rest

The bundler plugins (`packages/webpack`, `packages/rspeedy`), the SWC transform
(`packages/react/transform`, Rust), testing tools, GenUI and documentation are build tools,
compilers or applications.  Their logic is sequential and driven by files; `PROJECT.json` lists
each with the reason it is not modelled.

## 2. Plan

Modelled, in this order, because a mistake in the first shows on every page of every application:

1. `FirstScreen`: the hand-over between the two threads and the reload; `FirstScreen_proofs`.
2. `SnapshotPatch`: the two trees and the patches between them; its abstract specification
   `Mirror`, with `SnapshotPatch_proofs`; `DiffArray`, the algorithm that hydration relies on,
   with `Hydration_proofs` about it and about `Mirror`.
3. `ThreadFunctions`: functions of one thread called from the other; `ThreadFunctions_proofs`.
4. `ListUpdate` and `ListRecycling`: what the native list is told of its items, and the elements
   that it gets for them; `ListUpdate_proofs` and `ListRecycling_proofs`.
5. `TemplateManager`, `LynxView`, `BackgroundWorkers`, `Rpc`: the web platform, with proofs about
   each.

Next:

6. Refs and worklet refs: attach after detach, never in an older life.
7. A composition `WebPage` of `LynxView`, `TemplateManager` and `BackgroundWorkers` over `Rpc`
   (`BackgroundWorkers` abstracts a call to the three stages it goes through; that `Rpc`
   implements this is to be shown), with lazy and external bundles.
8. The element-template runtime, whose hand-over and patches are written anew.
9. Chunk loading, externals loading and cached events.

Every invariant that the runs check is proved; theorems of the next modules come with them.

## 3. The modules

### FirstScreen

The hand-over and the reload.  A page is one element with one event handler; what a tree is made
of is SnapshotPatch's subject.  Each main-thread render gives the root a new id.

* State: the variables named `mX` and `bX` are the two threads' copies of the same thing
  (`reloadVersion`, `__root`, the registries); the latches have their names in the code.
  `toBackground` and `toMain` are the engine's task queues.  `handovers`, `missed` and `aborted`
  are history: they record what the properties speak of.
* A task of a thread is one action, except for a main-thread render, which runs app code in its
  middle.  `phase` says what the main thread is in: a data processor (`ProcessData`), a render
  (`BeginRender` .. `EndRender`) or a reload (`BeginReload` .. `EndReload`); `MarkOnMain` may
  happen in each of them, which is what the latches are for.
* `HydrateFirstScreen` is the `firstScreen` branch of `onLifecycleEventImpl`: hydrate, switch
  `tt.publishEvent`, replay the delayed events through the id swap, send the patch.  In the code
  the replay throws when the message has no swap; `ReplayThrows` keeps that.
* `RootRender` processes the first delayed lifecycle event only, as `processDelayedLifecycleEvents`
  finds at most one in every state that is reachable.
* The engine is external: it delivers tasks in order, posts `onAppReload` to the background
  thread when it starts the reload of the main thread, and dispatches events with the id of the
  element on the page.
* Left out: SSR, `destroyLifetime`, `publishEvent` lifecycle messages, global props, worklet
  events, and the profile and alog branches.

### SnapshotPatch and Mirror

The tree after hydration (and while it is built before).  The background thread's tree, the patch
buffer, the commits in flight, the main thread's tree and the two registries are the state; the
actions are the operations Preact calls on a `BackgroundSnapshotInstance`, the commit hook, the
hydration, `rLynxChange` on the main thread, the acknowledgement and the timer that frees.

* An instance is named by its order of creation, `id[n]` is its `__id`: hydration renames it.
* A render is one synchronous task that ends in the commit hook.  `rendering` keeps hydration,
  acknowledgements and timers out of it, as the event loop does.
* `MayInsert` and the `keep` parameter of `removeChild` are external: what Preact does.  It
  inserts new nodes, moves siblings, and its Suspense detaches a subtree, keeps it and appends it
  again (the comment at `backgroundSnapshot.ts:224`).
* An instance has one attribute; slots, list holders, refs, worklets and portals are left out.
  The first screen is a list of leaf elements of one type, so that hydration matches by position;
  matching by type and key is DiffArray's subject.
* What Suspense keeps is still rendered when state inside it changes: `setAttribute`,
  `insertBefore` and `removeChild` apply to it as to everything that is not removed for good
  (`MayChange`), and send their operations, though the main thread has removed these instances.
  `changesAway` counts such operations.  When the subtree comes back it is sent whole
  (`reconstruct`), with what was changed.
* `main.errors` counts the patches that name an unknown node (`ctxNotFound`) or remove a node
  from a parent it is not in (an exception).  `MirrorsBackground` says that only the changes of
  what Suspense keeps are reported, each at most once, and that they do no harm to the tree.  They
  leave something behind, though: an instance created for a kept subtree stays in the main
  thread's table when it is removed again before the subtree comes back, which is why the second
  part of `InstancesInStep` holds only until there is such a change.

`Mirror` is the abstract specification: the main thread shows, one after the other and none left
out, the trees the background thread committed.  `SnapshotPatch!ImplementsMirror` maps the
pipeline of Mirror to the trees that the patches in flight will produce.  `SnapshotPatch_proofs`
proves the invariants and the refinement for every size of the page and of the first screen.

### DiffArray

`diffArrayLepus` and `diffArrayAction`, one step for each turn of their loops, over every pair of
small lists.  The caller's children are part of the state: `InsertedBefore` and `Delete` are what
`hydrate` does in `onInsert`, `onMove` and `onRemove`.  An element is named by its old position,
or by the negated new position it is built for.  `Remaining` and `NativeList` are what a native
list makes of the positions in `removeAction` and `insertAction`.  `Hydration_proofs` shows for
lists of any length what the run shows for small ones.

### ThreadFunctions

A main-thread function is sent as a *context*: as the value of an attribute, or as the argument of
`runOnMainThread`.  The background functions that it captures stay behind; the main thread gets
*handles*, and calls them with `runOnBackground`.  One attribute, one function of
`runOnMainThread` and one captured function each are modelled; a context is named by its exec id.

* Background thread: `execIdMap` with `register` (the id of `IndexMap.add`), the attribute
  (`rendered`, `update`), the delayed calls of `runOnMainThread`, which are written out with the
  exec id that their function has when they are sent (`DelayedCalls`).
* Main thread: `retained` and `refCount` are the `JsFunctionLifecycleManager`.  `Collect` is the
  garbage collector: it may take any set of retained objects that nothing reaches; `removeRef` of
  each and the `fire` of the micro task after them are one action, as nothing runs between them.
  `RunHandler` is an event that runs the attribute's function, `held` the handles that runs keep
  (a run may go on after an await), `EndRun` lets one go.
* `Hydrate` and `CommitHydration` are the beginning and the end of the `firstScreen` task.  Between
  them (`hydrating`) the events that waited are replayed, and the page counts as hydrated: a
  handler's `runOnMainThread` is sent at once, before the hydration patch with the calls that were
  delayed to it (`tt.ts:137-167`, `worklet/call/runOnMainThread.ts:11`).  `replayed` has these
  calls.  A function that such a call runs finds a page of which the main thread is not hydrated
  yet, and may call the background thread before the delayed calls of the first screen: these are
  `early`.  `CallsRunInOrder` names both as the only calls that overtake others.
* The first screen has a context of its own with a blank handle (`FirstHandle`); its calls are
  delayed until hydration has given them a handle (`HydratedFirst`, `DelayedRuns`).
* Each thread gets its messages in the order they were sent: patches, calls and answers for the
  main thread share one queue, calls, answers and releases for the background thread the other.
* `app` is a set of habits, fixed for a run of the system, of which every property leaves out
  those that break it: see section 4.
* One life of the page is modelled.  A reload after hydration makes the main thread drop the
  patches of the former life (`updateMainThread.ts:26-28`), and with them the calls and the contexts
  that they carry: such a call never returns, and its context is never released.  Nothing that is
  said of contexts and calls here holds for them.

### ListUpdate

What a patch does to the children of a list is recorded (`ListUpdateInfoRecording`) and, after the
patch, sent to the native list as positions to remove, insert and update.  `recording` is the
record, with the fields of the class; `PlaceOf` is the running `j` of `__toAttribute`;
`Applied` is the native list, as `createElementAPI.ts` of the web platform implements it:
`Kept` removes the old positions, `Inserting` puts what belongs `At` a position there.  A list
may have no element (it is in an item that is not shown): `attached`, `ensureElements`, `hydrate`
and `unRenderElements` are the ways in which it gets and loses one.  Which children Preact moves,
and before which, is external (`Untouched`).  `LateChanges` lets the items of a list without an
element change, which the finding `nested_list` is about.

### ListRecycling

The callbacks of the engine and the pools.  An instance is named by its item, the hydration that
made it and, when it is a clone of `takeElements`, the element it took.

* A clone has neither the type nor the platform info of its item (`snapshot.ts:295-317`), so
  `enqueueComponent` puts its element into a pool that is keyed "undefined" (`list.ts:313`), in
  which no item looks (`list.ts:115`): `ClonePool`.  The element of an item that is asked for before
  it was given back is lost in this way, for as long as the list is there, although the comment at
  `list.ts:125` says that it will enter the reuse pool; the model keeps it there, and `PoolsAreIdle`
  says that only such elements are lost.
* `Provide` is `componentAtChildCtx` for an item that is ready: the item gets back the element
  that it gave up (`ReuseItself`), the oldest one of its pool (`ReuseOther`) or a new one
  (`CreateElement`).  `AskForContent` is its first branch, for a deferred item.
* `screen` and `leaving` are the engine's: the cells, and the elements that are still to be given
  back.  `list.ts` says that the order of its two callbacks is uncertain when an item moves, so
  `Move` leaves it open.
* `Hydrate` gives every item a new instance and transfers elements, signs and the entries of the
  pools that it finds.  A hydration while an item waits for its content is left out.
* The background thread is `DeferredListItem`: its state is re-rendered when an event asks for
  content or, with `unmountRecycled`, takes it away; its patches come back in order.
* `reuseId` and `unmount` are choices of the app, fixed for a run of the system.

### TemplateManager

The maps of the class are the variables; the decode worker is a cursor for each url and one
channel.  A bundle is the set of the sections stored so far.

* A call of `fetchBundle` is a request that keeps what its promise waits for: the load it has
  started (`loads`), another's load (`loading`), the instance (`instance`).  `PostLoad` is the part
  of `#load` after its await.
* `#handleSection` is two actions because of its `Promise.all`: `ReceiveSection` when the message
  comes, `handleSection` when the instance and the wasm module are there.  `Idle` states that
  promise continuations run before the next message.
* The worker posts the sections in the order of `webEncoder.ts`, then `done`, or an error at any
  point before that.  Style information is decoded by the wasm module, so its section waits for
  it.  The init message of the worker follows the main thread's own wasm promise, which is why one
  variable `wasm` serves both.
* `prompt`, fixed for a run of the system, says that the instances and the wasm module are there
  before a bundle is asked for.  Otherwise the code publishes incomplete bundles (finding
  `partial_bundle`).

### BackgroundWorkers

A card is a `BackgroundThread` with its `LynxViewInstance`; a worker is named after the card that
created it.  `call` and `at` follow the one call of a card that is sequenced by promises
(`updateBTSChunk`, then `BackgroundThreadStart`, then `dispose`) through queue, channel and
answer, as `Rpc` describes it.

* `asyncDispose` is one action up to its first await; `resolveBtsReady` and `disposeReturns` are
  its continuations; `Release` is the rest of the method.
* A message port that is closed answers nothing: `Answer` and `Answered` require a card that is
  not disposed.
* `startWebWorker` follows the root script of the main thread, which cannot run once the realm of
  the card is gone; disposal of a card without a background script takes the realm away in the
  same task.
* A card of a group that is disposed before its worker is started is taken from the count of the
  group all the same, so that the worker may be terminated under the other cards.  The history
  variable `miscounted` remembers such a group; what is said of counts and workers is said of
  the other groups.

### LynxView

`render` is the synchronous part of `#render`, `step` says which await it has reached: the
disposal of the former page, the iframe, the chunk of `LynxViewInstance`.  `BeginDispose` is the
synchronous part of `#disposeInstance`; a disposal with nothing to wait for ends in a microtask,
which runs before any event (`NoMicrotask`).  An iframe loads only in a document, so a render
operation whose element has been taken out stays where it is.  After some changes the
code, with no statement in the repository against it, leaves the element without a page or with
one in a realm that is gone: `disturbed` remembers, until the next render operation begins, that
one of these changes was made during the last, and the properties about what the element shows are
stated for renders that were not.  What `BackgroundWorkers` has a name for as well is called
`ViewInit`, `ViewNext` and so on, as `CardLife_proofs` extends both modules.

### Rpc

Both sides of a port.  Names of messages are endpoints or the answers' ids, as in the code, where
both are strings in one table.  A handler starts with the message (`onMessage`) and ends later
(`HandlerEnds`), with a value or an error; a synchronous handler is the case where nothing happens
in between.  A call without return value whose handler throws answers nothing: the code invokes
an endpoint that is undefined, and the error stays in the promise of `#onMessage`.  The answers'
handlers are registered without looking at the cache, which is empty for them: that is
`AnswersFindTheirCall`, a theorem.

## 4. The runs

| run | module | instance | states | what it asks |
|---|---|---|---|---|
| `handover` | FirstScreen | all three timings, all four kinds of app, 2 updates, 2 reloads, 2 events, 1 commit; fair | 177,269 | one complete tree in each life; events find their handler; patches of another life are dropped; the page is hydrated |
| `mirror` | SnapshotPatch | 3 nodes after a first screen of 2, 6 operations, 3 commits; fair | 77,214 | the main thread follows, changes of what Suspense keeps included; implements Mirror; what is removed is freed |
| `diff` | DiffArray | all pairs of lists of at most 4 children of 3 types, and of at most 3 items with 2 keys and 2 types | 248,112 | the diff is right, for elements and for a native list |
| `bundles` | TemplateManager | 1 url, 3 requests, 2 loads, prompt or late; fair | 269,979 | each url loaded once, every fetch ends, bundles are complete when nothing is late |
| `partial_bundle` | TemplateManager | 1 url, 2 requests | - | finding |
| `workers` | BackgroundWorkers | two cards in a group, one in another, one alone; fair | 255,949 | the pool of workers; disposal returns |
| `view` | LynxView | 3 urls, everything at any time; fair | 572 | pages do not overlap; the element shows its url |
| `calls` | Rpc | four endpoints, 2 calls of each side, 1 removal; fair | 138,928 | once and in order; answers arrive; calls settle |
| `recycling` | ListRecycling | 2 items of a type, one of them deferred, with and without reuse-identifiers and unmountRecycled, 2 moves or hydrations; fair | 241,106 | elements follow their items; pools hold what is idle, and all of it but what clones take; promises are kept |
| `list_update` | ListUpdate | 4 items, 1 update of an item, 3 patches | 249,807 | the native list shows the children |
| `nested_list` | ListUpdate | 3 items that change while the list has no element | - | finding |
| `thread_functions` | ThreadFunctions | three kinds of app, 1 render, 3 calls, 3 contexts; fair | 544,434 | handles keep their function; no leaks; calls run in order, but for those of replayed events, and return |

**Bounds.**  A bound is a conjunct of the action it bounds.  Two reloads give a message of each of
three lives; two updates before the hand-over give a chain of two swaps, which is what a single
replacement gets wrong.  Three nodes give a move, a parent and a sibling; six operations fit a
subtree that is suspended, changed while it is away and brought back across two commits.  A list of four children
has moves of two children across a kept one.  Three requests are one that loads, one that waits
and one that comes after; two loads are a failure and a second try.  Two cards share a worker,
which is one that leaves and one that stays or comes.  Two calls of one side to an endpoint are
what order is about.  Two items that swap their elements are enough for an element to be in two
hands, and two moves for it to come back; three patches let a list lose its element, change, and
get it again.  Two functions sent and one hydration leave two contexts that share a release and
one that goes on.  Two urls that load at once share nothing but the worker's queue; with three
requests they are beyond the time of a run.  LynxView needs no bound: its state is finite.

**Deadlock** is not checked where a bound, or the end of the input, stops the system.

**Fairness.**  Weak fairness everywhere, of: the end of a render, the delivery of a message and the
tasks in the queue of a thread, the continuation of a promise that has settled (all by the event
loop); an answer of a worker that is alive; the decoding of a bundle that has begun (errors are not
fair: they may happen, they need not); the load of an iframe in a document; the port of a page
whose script runs, the registration of the handlers of an endpoint and the end of a handler.
Nothing is assumed of the user, of applications, of the garbage collector or of the engine beyond
delivery.  Symmetry is not used.

**Type invariants.**  They are proved for every value of the constants (`TypeCorrect`,
`ViewTypeCorrect`, `LoaderTypeCorrect`); four runs check theirs as well, on the small instance.

**Findings.**  `partial_bundle` and `nested_list` end in a violation that a statement of the
repository excludes; each is quoted in `PROJECT.json`.

**What the other exclusions stand for.**  Some behaviour of the code breaks a property, and no
statement of the repository is against it.  It is in the model; the property leaves out the apps or
the states that show it, by a condition of its own, and no other property does.  Dropping the
condition shows what happens:

* `app.markInReload` (FirstScreen): `reloadMainThread` does not reset the latch that `updatePage`
  resets (`calledByNative.ts:131`), so a mark made by a component that a reload renders sends the
  tree that is being built (`HandedOverOnce`); a mark in the data processor that runs before a
  reload is recorded and nothing honours it (`EventuallyHydrated`).
* `app.earlyReload` (FirstScreen): a reload before `root.render` renders an empty root, which
  counts as rendered; the first screen is hydrated against it and its events are answered with no
  handler (`EventsFindTheirHandler`).
* `prompt` (TemplateManager): when something is late a bundle is published without the sections
  that wait (`CompleteWhenPrompt`); this is also the finding.
* `miscounted` (BackgroundWorkers): a card that is disposed before its worker is started is taken
  from the count of a group that it never joined (`background.ts:349`), and the worker is
  terminated under the others.
* `disturbed` (LynxView): a render is disturbed when the element is disconnected meanwhile, when
  its url is removed, or when it changes after the bundle has been asked for: the element then
  never renders again, shows a page whose realm is gone, or never shows the new url.
* `PoolsFollow` (ListRecycling): the hydration of a list finds a pool by the type alone
  (`hydrate.ts:382`), so that the pool of items with a reuse-identifier keeps the instances from
  before; an element in it may then belong to two instances.
* `unmount` (ListRecycling): the content of an item is taken away when its element is reused,
  even if the item has been shown again in the meantime; it is then shown empty.
* `LateChanges` (ListUpdate), a constant because it is the finding's case: `list_update` sets it
  to FALSE.
* `changesAway` (SnapshotPatch): a change of what Suspense keeps is sent to a thread that no longer
  has the instance (`backgroundSnapshot.ts:341-427`); it is reported, and an instance created for it
  may stay in the main thread's table (`InstancesInStep`, `MirrorsBackground`).
* `IsClone` (ListRecycling): the elements that clones take are lost (`PoolsAreIdle`).
* `replayed` and `early` (ThreadFunctions): the calls of events that hydration replays come before
  those that are delayed to it (`CallsRunInOrder`).
* the habits `app` of ThreadFunctions.  `plain`: a function of `runOnMainThread` that captures
  none is registered (`main-thread.ts:72`) and, as no handle is ever counted for it, never
  released.  `repeats`: a function called twice before it is sent has the exec id of the last call
  in both; that of the first is never released.  If the second call is made by an event that
  hydration replays (`replayed`), it is sent at once, and its context may be released before the
  first call, delayed with the same exec id, arrives (`HandlesKeepTheirFunction`).  `longRunning`: the handle of a first-screen run
  that goes on after hydration is filled in without being counted (`hydrate.ts:131`) and may name
  a function that has been released; and one with delayed calls stays blank
  (`hydrate.ts:137-146`), so that later calls through it are never made.  `mismatch`: delayed calls
  for which hydration finds no function are dropped (`delayRunOnBackground.ts:44`).  `throws`: the
  call of a background function that throws is not answered (`run-on-background.ts:57`).

**Further hazards**, which the list in `PROJECT.json` leaves out because no property is near
them: the order of the two lists of delayed events (`tt.ts:136`); a suspended subtree whose
Suspense is unmounted (`suspense.ts:45`); a lazy bundle that failed and is never asked for again
(`LynxViewInstance.ts:291`), and custom sections that are read before they are there (`:245`); a
response that ends cleanly between two sections (`decode.worker.ts:289`); handlers of answers that
are never removed (`Rpc.ts:465`); `destroyCard` throwing in the worker; and the record of a list
that is lost when the patch it belongs to throws (`updateMainThread.ts:70`).

## 5. The proofs

For every value of the constants that satisfies the assumptions of the module; the bounds of the
runs are natural numbers there, so the theorems hold for any number of reloads, commits, cards or
calls.

| module | theorem | rests on |
|---|---|---|
| `FirstScreen_proofs` | `TypeCorrect`, `PatchesSafe` (`AcceptedPatchesMatchRoot`) | `ReloadInv`: types, `VersionsInStep` (no message in flight is newer than its receiver, and the background thread lags by the reload messages that are on their way), `BeforeHandover` (nothing is hydrated before a tree is handed over), `SameLifeSameRoot` (what carries the version of the main thread was made for its root) |
| | `HandoverOnce` (`HandedOverOnce`) | `HandoverInv`: types, `BeforeHandover`, `Latches` (how the three latches exclude each other in each phase), `ScreensSettled` (every tree in flight is complete); for apps without `markInReload`, as the property says |
| | `NoHydrationAborts` (`HydrationCompletes`) | `ReplayInv`: types, `QuietReloads` (wherever a first screen without a swap is in the queue, or will be, every event before it is followed by a reload, and no event is kept already unless a reload comes first), `DelayedHaveSwap` |
| | `EventsReachHandlers` (`EventsFindTheirHandler`) | `EventInv`: `ReloadInv`, `ReplayInv`, `PhaseInv` (phases, latches and versions), `CoverInv` (each swap leads from every event that it may replay to the root it is sent with) and `EventsHandled`, `RootHandled` (an event on its way, or fired next, names the element that is live by the time it arrives, or is kept for the hydration) |
| `Hydration_proofs` | `ConvergedAlways` | of `Mirror`: types and `LastIsSource`, the last tree in the pipeline is the committed one |
| | `DiffIsRight` (`BecomesAfter`) | `DiffInv`, in two parts. `MatchInv`: every position is matched once or left over (`MatchedOnce`), the matches that are not moved keep their order and each moved one would come behind one that stays (`KeptInOrder`). `ActInv`: what the walk has passed in one list it has passed in the other (`WalkInStep`), `remain` is the number of insertions and moves ahead (`RemainCounted`), what is returned is the new list so far, and the children are what is placed, what waits to be moved and what is ahead, in their orders (`ChildrenAre`, `ChildrenInOrder`) |
| | `NativeListIsRight` (`NativeListBecomesAfter`) | `MatchInv`, and `FilledTo`: when the first n positions are filled they hold the new items, and behind them are the old ones that are kept for later positions, in their order |
| | `FastPathIsRight` (`FastPathAgrees`) | `SameInv`: lists that match pairwise are matched pairwise, step by step |
| `SnapshotPatch_proofs` | `TypeCorrect` (`TypeOK`), `MirrorsAlways` (`MirrorsBackground`), `InStepAlways` (`InstancesInStep`) | `IInv`: the children of the background thread form a forest with the names of instances one to one (`Background`), what does not exist yet has no children (`Numbers`), what was removed has no parent (`Removals`), only what was removed for good waits to be freed or has been (`Tables`), everything is in the tree between renders and nothing is sent before hydration (`Phases`), and the main thread will have a set of instances, closed under children, that holds all that are not below a removed one, each with its children and value; it is exactly these as long as nothing that Suspense keeps was changed, and there have been no more errors than such changes (`InStep`, `Follows`) |
| | `MirrorImplemented` (`ImplementsMirror`) | `IInv`, and `Ahead`: the trees that the patches in flight make lose the first when it is applied (`AheadTail`) and gain the committed one when a patch is sent (`AheadAppend`, `SentTree`) |
| | `ThreadsConverge` (`Converged` of Mirror, taken over to the runtime) | `IInv`, and `Quiet`: the patch buffer is empty between renders |
| `CardLife_proofs` | of `BackgroundWorkers`: `TypeCorrect`, `LoadedCardsAreDestroyed` (`DestroyedFirst`) | `CallInv`: which call a card can have in which state |
| | `WorkersSafe` (`RunningCardsHaveWorkers`), `WorkersShared` (`WorkersFollowCards`) | `PoolInv`: the count of a group that is not miscounted is the number of its running cards, its entry names the worker they hold, a card of its own holds its own worker, a worker alive has a reason |
| | of `LynxView`: `ViewTypeCorrect`, `PagesDoNotOverlap` (`FreshStart`) | `Bookkeeping`: a render operation waits only while `#rendering` is set, a disposal of nothing has emptied the element |
| | `UrlShown` (`ShowsItsUrl`) | `Undisturbed`: while a render operation goes on undisturbed the element is connected, has a url and, once the bundle is asked for, it is that of the url and the realm is there |
| | of `TemplateManager`: `LoaderTypeCorrect` (`LoaderTypeOK`), `NeverFetchedTwice` (`FetchedOnce`) | `LoadInv`: types, `OneLoad` (a load waits for the worker, is being decoded or has its end in the inbox, never two of these, and its url is loading meanwhile), `MapsAgree` (the maps of what is loading have the same urls, none of them in the cache) |
| | `PromptIsComplete` (`CompleteWhenPrompt`) | `PromptInv`: what is decoded is stored, being handled or on its way (`DecodedIsCollected`), a section comes before the end of its load and finds nothing else being handled (`SectionsInTime`), and the view that loads has been given what is stored (`ViewsHaveTheirs`) |
| `Rpc_proofs` | `TypeCorrect`, `AnswersArrive` (`AnswersFindTheirCall`) | `InFlight`: every message on its way, queued, cached or being handled, names an answer that its receiver already has a handler for |
| | `CallsArePendingOnce` (`PendingCallsAreOnTheirWay`) | `TokenInv`: the pending answers of a side are the disjoint union of those owed by calls it has sent, that are cached or that are being handled, and of answers on their way back, each owed once |
| | `CallsStartInOrder` (`CallsInOrder`) | `OrderInv`: with a port the queue is empty, and a name with a handler has nothing cached, so that no call overtakes one that waits |
| `ThreadFunctions_proofs` | `TypeCorrect` | the types of all messages in flight, and that delayed calls have a function and a filled handle an exec id |
| | `FunctionsKept` (`HandlesKeepTheirFunction`) | `ContextInv`: a context that waits or is on its way is sent once and unknown to the main thread until then, what the main thread can reach it retains, what it retains is kept and not being released, and its counts are the numbers of the objects it retains |
| | `ContextsReleased` (`NoContextLeaks`) | `ContextInv` and `AllAccounted`: a context that is kept and not being released is retained, on its way or waiting |
| | `CallsStartInOrder` (`CallsRunInOrder`) | `LineInv`: the calls form a line, started before in flight before delayed, for each direction; in each phase around the hydration, with those of replayed events ahead of what is delayed to it (`MainLine`, `BackgroundLine`) |
| `ListRecycling_proofs` | `TypeCorrect` (`TypeOK`) | `TypeInv` and `RemovalInv`: the patches are about items still in the list, and none about an item follows its removal |
| | `ContentIsShown` (`KeptContentIsShown`) | `ShownInv`: no item that waits for its content is on the screen |
| | `ElementsAreOwned` (`ElementsFollowItems`), `PoolsHoldIdleElements` (`PoolsAreIdle`) | `RecyclingInv`: every sign names the instance that has its element, an item in the list with an element is the one named, a cell shows the element of its item, an entry is in the pool of the instance its sign names, and each sign is on the screen, leaving or in that pool |
| `ListUpdate_proofs` | `TypeCorrect` (`TypeOK`) | `TypeInv`: the record's lists hold items that were created, the old list has none twice, and no item is in the list twice |
| | `NativeShowsAlways` (`NativeShowsItems`), `UpdatesReachAlways` (`UpdatesReachTheirItem`) | `RecordInv`: while changes are recorded every child is at the place that the record says (`Shows`): what is inserted before an old item, then the item unless it is removed, and behind all of them what is appended; and the native list has the old items |

Why they need more than the property: an invariant such as `AcceptedPatchesMatchRoot` speaks of
the next message to arrive, and is kept by what is known of all messages behind it; a count of
cards is kept only if it is known to be the size of a set of cards.  The last two theorems
about `ListUpdate` have the hypothesis `LateChanges = FALSE`, items change only while the list has
its element: the run `list_update` sets it so, and `nested_list` shows that they do not hold
without it.  The other theorems have no hypothesis beyond the assumptions of the modules: what a
property leaves out is said in the property.

How the native list comes to show the children.  An operation on the children records itself, and
the lemmas `ShowsInserted`, `ShowsRemoved`, `ShowsAppended` and `ShowsUpdated` say that `Shows`
holds of the new children and the new record: the places behind an insertion or a removal shift by
one (`PlacesShift`), the others stay.  When the record is sent, what is left of the old items are
those that stay, in the order of their new places (`KeptInOrder`), and filling position n leaves a
list whose first n items are those of the children, followed by the old items that belong further
back (`Filled`, `FillPlace`).  At the last position nothing is left over (`AppliedShows`).

How the main thread comes to have the tree.  A patch is replayed operation by operation
(`ApplyConcat`, `ApplyFlattened`), and `Shows(m, f, k, w, D)` says that the state m of the main
thread holds exactly the instances D, closed under children, under the names f.  D is what is
not removed and, once something was changed that Suspense keeps, what the patches of these changes
left on the main thread: an operation on an instance outside D is an error and changes nothing.  One lemma for
each operation says what it makes of that: `ShowsCreate`, `ShowsSet`, `ShowsPlace`, `ShowsRemove`,
and `ShowsGrow` for a subtree that comes back after Suspense and is built anew.  That
`reconstruct` builds a subtree (`ReconstructBuilds`) and that hydration ends with the tree of the
background thread, the first elements under the ids of the first screen and those left over
removed (`HydrateShows`), are inductions: the first down the tree, the second along the children
of the root.

Inductions over trees are proved from the lowest instance of a set (`Acyclic`), or the highest
(`Rooted`): that every set has one is part of the invariant, as insertion never puts an instance
below itself.  Inductions over numbers (positions in a queue or a list, recursive functions such as
`Remaining`, `NativeList` and `PlaceOf`, the numbers of calls) are proved from the least number with a property
(`LeastNumber` in `FirstScreen_proofs`, `Hydration_proofs`, `ListUpdate_proofs` and
`SnapshotPatch_proofs`), as the provers cannot instantiate
the induction theorems of the library.

Only model-checked: the liveness properties, as liveness under fairness is out of reach of the
proof system.  Every invariant of the passing runs and the refinement of `Mirror` are proved.

## 6. Not modelled

Section 2 names what is still to come.  Of the parts that are modelled:

* Lists: the destruction of a list (`snapshotDestroyList`), the second flush that
  `componentAtIndexes` does for items that become ready later, and a hydration while an item waits
  for its content.
* Functions across threads: worklet refs and gestures; an update or a reload of the main thread
  before hydration, which makes new first-screen contexts; the worklet events of old dynamic
  components.
* The hand-over: SSR, the end of the page's life time, global props.
* The web platform: lazy and external bundles, the batching of timing entries, the JSON and
  markup forms of a bundle beyond the messages they share with the binary one.

Left out for good: the Lynx engine, which is not in the repository and appears as the actions that
deliver its calls; Preact, which appears as the operations it may apply to a tree; the browser,
which appears as the order of its event loop; the build tools, transforms and wrappers listed in
`PROJECT.json`, which are sequential and have no state that survives a call; style, layout, timing
marks, profiling and error reports.
