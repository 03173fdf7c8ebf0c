---------------------------- MODULE TemplateManager ----------------------------
(***************************************************************************)
(* The bundle loader of the web platform.  Views ask for the bundle of a   *)
(* url with fetchBundle and hand in a promise of their LynxViewInstance.   *)
(* A worker fetches and decodes the bundle and posts its sections one      *)
(* after the other; each is stored and passed on to the instance of the    *)
(* view that asked first.  Views that ask while the bundle is loading wait *)
(* for the end, views that ask later get it from the cache.                *)
(*                                                                         *)
(* The code is packages/web-platform/web-core/ts/client, mainthread/       *)
(* TemplateManager.ts and decodeWorker/decode.worker.ts.  A bundle is the  *)
(* set of its sections that have been stored.                              *)
(***************************************************************************)
EXTENDS Integers, Sequences, FiniteSets, SequencesExt

CONSTANTS
  BundleUrls,
  Requests,  \* calls of fetchBundle
  Sections,  \* labels in the order in which the worker posts them
  MaxLoads   \* bound on the loads of a url

ASSUME LoaderAssumption ==
  /\ Sections \in Seq(STRING) /\ MaxLoads \in Nat

VARIABLES
  \* main thread; bundles, loadingBundles and lynxViewInstancesMap are maps by url
  prompt,                \* fixed: the instances and the wasm module are there from the start
  ready,                 \* the decode worker has started
  wasm,                  \* the wasm module is loaded
  instances,             \* requests whose lynxViewInstancePromise is resolved
  wants,                 \* the url of every request made
  promise,               \* what the promise of fetchBundle waits for, or its result
  bundles,
  loadingBundles,
  loadingPromises,       \* urls with a promise
  lynxViewInstancesMap,
  awaitingWorker,        \* urls whose #load waits for the worker
  handlers,              \* calls of #handleSection that wait for their Promise.all
  \* decode worker
  position,              \* the next section to post of every url (0: not decoding)
  inbox,                 \* messages to the main thread
  \* history and bounds
  given,                 \* sections passed on to the instance of every request
  loads

mapVars == <<bundles, loadingBundles, loadingPromises, lynxViewInstancesMap>>
requestVars == <<instances, wants, promise, given>>
workerVars == <<position, inbox, loads>>
loaderVars == <<prompt, ready, wasm, mapVars, requestVars, awaitingWorker, handlers, workerVars>>

Labels == ToSet(Sections)
Passed == Labels \ {"CustomSections"}  \* the sections passed on to the instance
Asked == DOMAIN wants

Put(f, x, v) == [y \in DOMAIN f \cup {x} |-> IF y = x THEN v ELSE f[y]]
Drop(f, x) == [y \in DOMAIN f \ {x} |-> f[y]]
Empty == [x \in {} |-> {}]

LoaderInit ==
  /\ prompt \in BOOLEAN
  /\ ready = FALSE /\ wasm = prompt
  /\ instances = (IF prompt THEN Requests ELSE {})
  /\ wants = Empty /\ promise = [r \in Requests |-> "none"]
  /\ bundles = Empty /\ loadingBundles = Empty
  /\ loadingPromises = {} /\ lynxViewInstancesMap = Empty
  /\ awaitingWorker = {} /\ handlers = <<>>
  /\ position = [u \in BundleUrls |-> 0] /\ inbox = <<>>
  /\ given = [r \in Requests |-> {}] /\ loads = [u \in BundleUrls |-> 0]

-----------------------------------------------------------------------------
(* Promises that the loader waits for *)

WorkerReady ==
  /\ ~ready /\ ready' = TRUE
  /\ UNCHANGED <<prompt, wasm, mapVars, requestVars, awaitingWorker, handlers, workerVars>>

WasmLoaded ==
  /\ ~wasm /\ wasm' = TRUE
  /\ UNCHANGED <<prompt, ready, mapVars, requestVars, awaitingWorker, handlers, workerVars>>

InstanceReady(r) ==
  /\ r \in Asked \ instances /\ instances' = instances \cup {r}
  /\ UNCHANGED <<prompt, ready, wasm, mapVars, wants, promise, given,
                 awaitingWorker, handlers, workerVars>>

-----------------------------------------------------------------------------
(* fetchBundle *)

LoadingIgnored(u) == FALSE
IsLoading(u) == u \in loadingPromises

fetchBundle(r, u) ==
  /\ r \notin Asked /\ wants' = Put(wants, r, u)
  /\ \/ /\ u \in DOMAIN bundles
        /\ promise' = [promise EXCEPT ![r] = "instance"]
        /\ UNCHANGED <<mapVars, awaitingWorker>>
     \/ /\ u \notin DOMAIN bundles /\ IsLoading(u)
        /\ promise' = [promise EXCEPT ![r] = "loading"]
        /\ UNCHANGED <<mapVars, awaitingWorker>>
     \/ /\ u \notin DOMAIN bundles /\ ~IsLoading(u) /\ loads[u] < MaxLoads
        /\ promise' = [promise EXCEPT ![r] = "loads"]
        /\ loadingBundles' = Put(loadingBundles, u, {})
        /\ loadingPromises' = loadingPromises \cup {u}
        /\ lynxViewInstancesMap' = Put(lynxViewInstancesMap, u, r)
        /\ awaitingWorker' = awaitingWorker \cup {u}
        /\ UNCHANGED bundles
  /\ UNCHANGED <<prompt, ready, wasm, instances, given, handlers, workerVars>>

\* The rest of #load, once the worker is ready.
PostLoad(u) ==
  /\ u \in awaitingWorker /\ ready
  /\ awaitingWorker' = awaitingWorker \ {u}
  /\ position' = [position EXCEPT ![u] = 1]
  /\ loads' = [loads EXCEPT ![u] = @ + 1]
  /\ UNCHANGED <<prompt, ready, wasm, mapVars, requestVars, handlers, inbox>>

-----------------------------------------------------------------------------
(* The decode worker *)

Post(u, type, label) == inbox' = Append(inbox, [url |-> u, type |-> type, label |-> label])

PostSection(u) ==
  /\ position[u] \in DOMAIN Sections
  /\ Sections[position[u]] = "StyleInfo" => wasm
  /\ Post(u, "section", Sections[position[u]])
  /\ position' = [position EXCEPT ![u] = @ + 1]
  /\ UNCHANGED <<prompt, ready, wasm, mapVars, requestVars, awaitingWorker, handlers, loads>>

CursorMovesOn(u) == [position EXCEPT ![u] = @ + 1]
Finished(u) == [position EXCEPT ![u] = 0]

PostDone(u) ==
  /\ position[u] = Len(Sections) + 1
  /\ Post(u, "done", "none") /\ position' = Finished(u)
  /\ UNCHANGED <<prompt, ready, wasm, mapVars, requestVars, awaitingWorker, handlers, loads>>

\* The fetch fails, the stream breaks off or the bundle is malformed.
PostError(u) ==
  /\ position[u] > 0
  /\ Post(u, "error", "none") /\ position' = Finished(u)
  /\ UNCHANGED <<prompt, ready, wasm, mapVars, requestVars, awaitingWorker, handlers, loads>>

-----------------------------------------------------------------------------
(* Messages on the main thread.  Continuations run before the next message. *)

CanRun(h) == h.request \in instances /\ wasm
Cached(r) == promise[r] = "instance" /\ r \in instances
Idle == (\A i \in DOMAIN handlers : ~CanRun(handlers[i])) /\ (\A r \in Requests : ~Cached(r))

Message(type) == Idle /\ inbox # <<>> /\ Head(inbox).type = type /\ inbox' = Tail(inbox)

\* A message for a url that no request loads is dropped.
IsAwaited(u) == u \in DOMAIN lynxViewInstancesMap

ReceiveSection ==
  /\ Message("section")
  /\ LET m == Head(inbox)
     IN  handlers' = IF IsAwaited(m.url)
                     THEN Append(handlers, [url |-> m.url, label |-> m.label,
                                            request |-> lynxViewInstancesMap[m.url]])
                     ELSE handlers
  /\ UNCHANGED <<prompt, ready, wasm, mapVars, requestVars, awaitingWorker, position, loads>>

\* The promise of the request that loads u, and of those that wait for it.
Settled(u, loader, waiter) ==
  [r \in Requests |-> IF r \notin Asked \/ wants[r] # u THEN promise[r]
                      ELSE CASE promise[r] = "loads" -> loader
                             [] promise[r] = "loading" -> waiter
                             [] OTHER -> promise[r]]

AfterDone(u) == Settled(u, "resolved", "instance")
NeverRejected(u) == Settled(u, "rejected", "loading")
AfterError(u) == Settled(u, "rejected", "rejected")

NoLongerLoading(u) ==
  /\ lynxViewInstancesMap' = Drop(lynxViewInstancesMap, u)
  /\ loadingBundles' = Drop(loadingBundles, u)
  /\ loadingPromises' = loadingPromises \ {u}

ReceiveDone ==
  /\ Message("done")
  /\ LET u == Head(inbox).url
     IN  IF IsAwaited(u)
         THEN /\ NoLongerLoading(u) /\ promise' = AfterDone(u)
              /\ bundles' = IF u \in DOMAIN loadingBundles
                            THEN Put(bundles, u, loadingBundles[u]) ELSE bundles
         ELSE UNCHANGED <<mapVars, promise>>
  /\ UNCHANGED <<prompt, ready, wasm, instances, wants, given, awaitingWorker, handlers, position, loads>>

ReceiveError ==
  /\ Message("error")
  /\ LET u == Head(inbox).url
     IN  IF IsAwaited(u)
         THEN NoLongerLoading(u) /\ promise' = AfterError(u) /\ bundles' = Drop(bundles, u)
         ELSE UNCHANGED <<mapVars, promise>>
  /\ UNCHANGED <<prompt, ready, wasm, instances, wants, given, awaitingWorker, handlers, position, loads>>

getBundle(u, cached, loading) ==
  IF u \in DOMAIN cached THEN cached[u]
  ELSE IF u \in DOMAIN loading THEN loading[u] ELSE {}

StoredUnlessLepus(h) ==
  IF h.url \in DOMAIN loadingBundles /\ h.label # "LepusCode"
  THEN Put(loadingBundles, h.url, loadingBundles[h.url] \cup {h.label}) ELSE loadingBundles

\* A section is stored in the bundle that is loading, if there still is one.
Stored(h) ==
  IF h.url \in DOMAIN loadingBundles
  THEN Put(loadingBundles, h.url, loadingBundles[h.url] \cup {h.label}) ELSE loadingBundles

\* #handleSection after its await.  The instance is given the configuration itself and
\* looks the other sections up in the bundle.
handleSection ==
  \E i \in DOMAIN handlers :
    LET h == handlers[i]
        visible == h.label \in Passed /\
          (h.label = "Configurations" \/ h.label \in getBundle(h.url, bundles, Stored(h)))
    IN  /\ CanRun(h) /\ \A j \in 1..i - 1 : ~CanRun(handlers[j])
        /\ handlers' = RemoveAt(handlers, i)
        /\ loadingBundles' = Stored(h)
        /\ given' = IF visible THEN [given EXCEPT ![h.request] = @ \cup {h.label}] ELSE given
        /\ UNCHANGED <<prompt, ready, wasm, bundles, loadingPromises, lynxViewInstancesMap, instances,
                       wants, promise, awaitingWorker, workerVars>>

\* The rest of fetchBundle for a bundle that was in the cache or has just been loaded.
serveCached(r) ==
  /\ Cached(r)
  /\ LET bundle == getBundle(wants[r], bundles, loadingBundles)
     IN  /\ given' = [given EXCEPT ![r] = @ \cup (bundle \cap Passed)]
  /\ promise' = [promise EXCEPT ![r] = "resolved"]
  /\ UNCHANGED <<prompt, ready, wasm, mapVars, instances, wants, awaitingWorker, handlers,
                 workerVars>>

-----------------------------------------------------------------------------
LoaderNext ==
  \/ WorkerReady \/ WasmLoaded \/ ReceiveSection \/ ReceiveDone \/ ReceiveError \/ handleSection
  \/ \E r \in Requests : InstanceReady(r) \/ serveCached(r)
  \/ \E u \in BundleUrls : PostLoad(u) \/ PostSection(u) \/ PostDone(u) \/ PostError(u)
  \/ \E r \in Requests, u \in BundleUrls : fetchBundle(r, u)

LoaderSpec == LoaderInit /\ [][LoaderNext]_loaderVars

\* The promises settle, the worker goes on decoding, the main thread runs its queue.
LoaderFairness ==
  /\ WF_loaderVars(WorkerReady) /\ WF_loaderVars(WasmLoaded)
  /\ WF_loaderVars(ReceiveSection) /\ WF_loaderVars(ReceiveDone) /\ WF_loaderVars(ReceiveError)
  /\ WF_loaderVars(handleSection)
  /\ \A r \in Requests : WF_loaderVars(InstanceReady(r)) /\ WF_loaderVars(serveCached(r))
  /\ \A u \in BundleUrls :
       WF_loaderVars(PostLoad(u)) /\ WF_loaderVars(PostSection(u)) /\ WF_loaderVars(PostDone(u))

LoaderFairSpec == LoaderSpec /\ LoaderFairness

-----------------------------------------------------------------------------
(* Properties *)

\* The maps of the loader hold urls, sections and requests; the worker's cursor stays in the bundle.
LoaderTypeOK ==
  /\ prompt \in BOOLEAN /\ ready \in BOOLEAN /\ wasm \in BOOLEAN
  /\ instances \subseteq Requests /\ Asked \subseteq Requests
  /\ \A r \in Asked : wants[r] \in BundleUrls
  /\ promise \in [Requests -> {"none", "loads", "loading", "instance", "resolved", "rejected"}]
  /\ \A f \in {bundles, loadingBundles} :
       DOMAIN f \subseteq BundleUrls /\ \A u \in DOMAIN f : f[u] \subseteq Labels
  /\ DOMAIN lynxViewInstancesMap \subseteq BundleUrls
  /\ \A u \in DOMAIN lynxViewInstancesMap : lynxViewInstancesMap[u] \in Requests
  /\ loadingPromises \subseteq BundleUrls /\ awaitingWorker \subseteq BundleUrls
  /\ position \in [BundleUrls -> 0..Len(Sections) + 1]
  /\ handlers \in Seq([url : BundleUrls, label : Labels, request : Requests])
  /\ inbox \in Seq([url : BundleUrls, type : {"section", "done", "error"}, label : Labels \cup {"none"}])
  /\ \A n \in DOMAIN inbox : inbox[n].type = "section" => inbox[n].label \in Labels
  /\ given \in [Requests -> SUBSET Labels] /\ loads \in [BundleUrls -> Nat]

\* The load messages of a url that are on their way, being decoded or being answered.
UnderWay(u) ==
  (IF u \in awaitingWorker THEN 1 ELSE 0) + (IF position[u] > 0 THEN 1 ELSE 0)
  + Cardinality({n \in DOMAIN inbox : inbox[n].url = u /\ inbox[n].type # "section"})

\* A url is fetched by one request at a time, however many views ask for it at once, and
\* never again once its bundle is in the cache.
FetchedOnce ==
  \A u \in BundleUrls : UnderWay(u) <= IF u \in DOMAIN bundles THEN 0 ELSE 1

\* A bundle in the cache is complete: no view is served a part of one.
NoPartialBundle == \A u \in DOMAIN bundles : bundles[u] = Labels

\* When nothing has to be waited for, no view is served a part of a bundle: the cache holds
\* whole ones, and when fetchBundle resolves the view that asked has been given every
\* section, whether its request loaded the bundle, waited for it or found it.
CompleteWhenPrompt ==
  prompt => /\ NoPartialBundle
            /\ \A r \in Requests : promise[r] = "resolved" => Passed \subseteq given[r]

\* Every call of fetchBundle, of the view that loads the bundle, of one that waits and of one
\* that finds it, ends in a bundle or in an error.
EveryFetchEnds ==
  \A r \in Requests : (r \in Asked) ~> (promise[r] \in {"resolved", "rejected"})
=============================================================================
