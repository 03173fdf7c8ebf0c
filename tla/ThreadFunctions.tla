---------------------------- MODULE ThreadFunctions ----------------------------
(***************************************************************************)
(* Functions of one thread called from the other.  A main-thread function  *)
(* is sent to the main thread as a context: the value of an event          *)
(* attribute, or the argument of runOnMainThread.  The background          *)
(* functions that it captures stay behind; the main thread has handles     *)
(* <exec id, function id> to call them with runOnBackground.  The          *)
(* background thread keeps a context in execIdMap until it is told that    *)
(* the handles are garbage on the main thread.  On the first screen the    *)
(* handles are blank: calls are delayed until hydration has filled them.   *)
(*                                                                         *)
(* The code is packages/react/runtime/src/core/background-function and     *)
(* thread-function-call, worklet-runtime (jsFunctionLifecycle,             *)
(* delayRunOnBackground, hydrate, workletRuntime) and, for what is sent,   *)
(* backgroundSnapshot.ts, commit.ts, tt.ts and updateMainThread.ts.  One   *)
(* attribute is modelled, and functions that capture one function each.    *)
(***************************************************************************)
EXTENDS Integers, Sequences, FiniteSets

CONSTANTS
  Apps,        \* the kinds of app to consider: sets of habits
  MaxExecIds,  \* bound on exec ids: one for hydration, each render and each call do
  MaxRenders,  \* bound on renders of the background thread
  MaxMainCalls, MaxBackgroundCalls,  \* bounds on the calls of each direction
  MaxCalls     \* bound on both together

Habits == {
  "plain",         \* runOnMainThread is given a function that captures none
  "repeats",       \* every call is of one function, though it may still wait to be sent
  "longRunning",   \* a first-screen run of a function goes on after hydration
  "mismatch",      \* the first renders of both threads differ
  "throws"}        \* background functions throw

ASSUME ConstantsAssumption ==
  /\ Apps \subseteq SUBSET Habits /\ MaxExecIds \in Nat /\ MaxRenders \in Nat
  /\ MaxMainCalls \in Nat /\ MaxBackgroundCalls \in Nat /\ MaxCalls \in Nat

VARIABLES
  app,         \* the habits of the app, fixed
  \* background thread
  patching,    \* __globalSnapshotPatch is defined: the page is hydrated
  rendering,   \* isRendering
  hydrating,   \* events are replayed between hydrate() and the hydration patch
  rendered,    \* does the attribute have a function?
  update,      \* the change of the attribute in the patch being made
  execIdMap,   \* exec ids of the contexts that are kept
  lastIndex,   \* the last exec id
  fnExecId,    \* the _execId of the function last given to runOnMainThread
  delayedData, \* delayedRunOnMainThreadData
  bResolve,    \* resolveMap of this thread
  bStarted,    \* resolve ids of the runOnBackground calls started here
  missed,      \* those that did not find their function
  \* main thread
  ctx,         \* the context of the attribute
  first,       \* the handle of the first-screen context
  delayedFns,  \* delayedBackgroundFunctionArray: calls of the first-screen handle
  held,        \* handles in the hands of runs that go on
  retained,    \* retainedObjects: contexts and handles that are not collected
  refCount,    \* execIdRefCount
  mResolve, mStarted,
  \* channels
  toMain, toBackground,
  \* bounds
  renders, mCalls, bCalls,
  \* history
  replayed,    \* the calls of runOnMainThread that replayed events made
  early        \* those of runOnBackground sent before the main thread is hydrated

bgVars == <<patching, rendering, hydrating, rendered, update, execIdMap, lastIndex, fnExecId,
            delayedData, bResolve, bStarted, missed, renders, mCalls, replayed>>
mainVars == <<ctx, first, delayedFns, held, retained, refCount, mResolve, mStarted, bCalls,
              early>>
vars == <<app, bgVars, mainVars, toMain, toBackground>>

ExecIds == 1..MaxExecIds
MainCalls == 1..MaxMainCalls          \* resolve ids of runOnMainThread
BackgroundCalls == 1..MaxBackgroundCalls  \* ... of runOnBackground

\* The values of the attribute: a context is named by its exec id.
FirstScreen == 0
Nothing == -1
Unchanged == -2

\* What the main thread holds of a context: itself, and its handle.  The attribute's has
\* call 0, that of a call the resolve id.
Ctx(e) == [kind |-> "ctx", execId |-> e, call |-> 0]
Handle(e, n) == [kind |-> "handle", execId |-> e, call |-> n]
FirstHandle == Handle(0, 0)
Objects == [kind : {"ctx", "handle"}, execId : ExecIds, call : 0..MaxMainCalls]

\* Messages
FirstScreenMsg == [type |-> "firstScreen", execIds |-> {}, id |-> 0]
RunOnBackground(e, n) == [type |-> "runOnBackground", execIds |-> {e}, id |-> n]
Release(S) == [type |-> "releaseBackgroundWorkletCtx", execIds |-> S, id |-> 0]
Return(n) == [type |-> "FunctionCallRet", execIds |-> {}, id |-> n]

Call(e, n) == [execId |-> e, id |-> n]
Patch(hydration, value, calls) ==
  [type |-> "patch", hydration |-> hydration, value |-> value, calls |-> calls]
RunWorkletCtx(e, n) ==
  [type |-> "runWorkletCtx", hydration |-> FALSE, value |-> Unchanged, calls |-> <<Call(e, n)>>]
ReturnToMain(n) ==
  [type |-> "FunctionCallRet", hydration |-> FALSE, value |-> Unchanged,
   calls |-> <<Call(0, n)>>]

Init ==
  /\ app \in Apps
  /\ patching = FALSE /\ rendering = FALSE /\ hydrating = FALSE
  /\ rendered = TRUE /\ update = Unchanged
  /\ execIdMap = {} /\ lastIndex = 0 /\ fnExecId = 0 /\ delayedData = <<>>
  /\ bResolve = {} /\ bStarted = <<>> /\ missed = {}
  /\ ctx = FirstScreen
  /\ first = [isFirstScreen |-> TRUE, execId |-> 0]
  /\ delayedFns = <<>> /\ held = {} /\ retained = {} /\ refCount = [e \in ExecIds |-> 0]
  /\ mResolve = {} /\ mStarted = <<>>
  /\ toMain = <<>> /\ toBackground = <<FirstScreenMsg>>
  /\ renders = 0 /\ mCalls = 0 /\ bCalls = 0
  /\ replayed = {} /\ early = {}

-----------------------------------------------------------------------------
(* Background thread.  A render and its commit are one task. *)

\* registerBackgroundFunctionCtx of a context.
register ==
  /\ lastIndex < MaxExecIds /\ lastIndex' = lastIndex + 1
  /\ execIdMap' = execIdMap \cup {lastIndex + 1}

BeginRender ==
  /\ ~rendering /\ ~hydrating /\ renders < MaxRenders
  /\ rendering' = TRUE /\ renders' = renders + 1
  /\ UNCHANGED <<app, patching, hydrating, rendered, update, execIdMap, lastIndex, fnExecId,
                 delayedData, bResolve, bStarted, missed, mCalls, replayed, mainVars, toMain,
                 toBackground>>

\* The attribute is given another function, or none: setAttribute.
SetAttribute(function) ==
  /\ rendering /\ update = Unchanged
  /\ patching \/ "mismatch" \in app
  /\ rendered' = function
  /\ IF ~patching THEN UNCHANGED <<update, execIdMap, lastIndex>>
     ELSE IF function THEN register /\ update' = lastIndex + 1
     ELSE update' = Nothing /\ UNCHANGED <<execIdMap, lastIndex>>
  /\ UNCHANGED <<app, patching, rendering, hydrating, fnExecId, delayedData, bResolve, bStarted,
                 missed, renders, mCalls, replayed, mainVars, toMain, toBackground>>

\* The delayed calls are written out when they are sent, with the exec id that their
\* function has then: when all are of one function, the last that it was given.
DelayedCalls ==
  [n \in DOMAIN delayedData |->
     IF "repeats" \in app THEN Call(fnExecId, delayedData[n].id) ELSE delayedData[n]]

Commit ==
  /\ rendering /\ rendering' = FALSE
  /\ IF patching
     THEN /\ toMain' = Append(toMain, Patch(FALSE, update, DelayedCalls))
          /\ update' = Unchanged /\ delayedData' = <<>>
     ELSE UNCHANGED <<toMain, update, delayedData>>
  /\ UNCHANGED <<app, patching, hydrating, rendered, execIdMap, lastIndex, fnExecId, bResolve,
                 bStarted, missed, renders, mCalls, replayed, mainVars, toBackground>>

DirectlyUnlessRendering == ~rendering
shouldDispatchDirectly == patching /\ ~rendering

\* Every call gives its function a new exec id.  The app calls whenever its code runs: in a
\* render, in a handler, in a handler that is replayed.
runOnMainThread ==
  /\ mCalls < MaxMainCalls /\ mCalls + bCalls < MaxCalls
  /\ mCalls' = mCalls + 1
  /\ replayed' = IF hydrating THEN replayed \cup {mCalls'} ELSE replayed
  /\ register /\ fnExecId' = lastIndex + 1
  /\ bResolve' = bResolve \cup {mCalls'}
  /\ IF shouldDispatchDirectly
     THEN toMain' = Append(toMain, RunWorkletCtx(fnExecId', mCalls')) /\ UNCHANGED delayedData
     ELSE delayedData' = Append(delayedData, Call(fnExecId', mCalls')) /\ UNCHANGED toMain
  /\ UNCHANGED <<app, patching, rendering, hydrating, rendered, update, bStarted, missed, renders,
                 mainVars, toBackground>>

Next2Background(type) ==
  /\ ~rendering /\ ~hydrating /\ toBackground # <<>> /\ Head(toBackground).type = type
  /\ toBackground' = Tail(toBackground)

\* The firstScreen message: hydrate() defines the patch buffer and makes a patch that has the
\* attribute's function.  The events that waited are replayed before this patch is sent.
Hydrate ==
  /\ Next2Background("firstScreen")
  /\ patching' = TRUE /\ hydrating' = TRUE
  /\ IF rendered THEN register /\ update' = lastIndex + 1
     ELSE update' = Nothing /\ UNCHANGED <<execIdMap, lastIndex>>
  /\ UNCHANGED <<app, rendering, rendered, fnExecId, delayedData, bResolve, bStarted, missed,
                 renders, mCalls, replayed, mainVars, toMain>>

\* The hydration patch is sent, with the calls that were delayed to it.
CommitHydration ==
  /\ hydrating /\ hydrating' = FALSE
  /\ toMain' = Append(toMain, Patch(TRUE, update, DelayedCalls))
  /\ update' = Unchanged /\ delayedData' = <<>>
  /\ UNCHANGED <<app, patching, rendering, rendered, execIdMap, lastIndex, fnExecId, bResolve,
                 bStarted, missed, renders, mCalls, replayed, mainVars, toBackground>>

runBackgroundFunction ==
  /\ Next2Background("runOnBackground")
  /\ LET m == Head(toBackground)
     IN  IF m.execIds \subseteq execIdMap
         THEN /\ bStarted' = Append(bStarted, m.id)
              /\ toMain' = IF "throws" \in app THEN toMain
                            ELSE Append(toMain, ReturnToMain(m.id))
              /\ UNCHANGED missed
         ELSE missed' = missed \cup {m.id} /\ UNCHANGED <<bStarted, toMain>>
  /\ UNCHANGED <<app, patching, rendering, hydrating, rendered, update, execIdMap, lastIndex,
                 fnExecId, delayedData, bResolve, renders, mCalls, replayed, mainVars>>

releaseBackgroundFunctionCtx ==
  /\ Next2Background("releaseBackgroundWorkletCtx")
  /\ execIdMap' = execIdMap \ Head(toBackground).execIds
  /\ UNCHANGED <<app, patching, rendering, hydrating, rendered, update, lastIndex, fnExecId,
                 delayedData, bResolve, bStarted, missed, renders, mCalls, replayed, mainVars,
                 toMain>>

\* onFunctionCallRet
MainCallReturns ==
  /\ Next2Background("FunctionCallRet")
  /\ bResolve' = bResolve \ {Head(toBackground).id}
  /\ UNCHANGED <<app, patching, rendering, hydrating, rendered, update, execIdMap, lastIndex,
                 fnExecId, delayedData, bStarted, missed, renders, mCalls, replayed, mainVars,
                 toMain>>

-----------------------------------------------------------------------------
(* Main thread: JsFunctionLifecycleManager *)

\* addRef of the objects S.
CountedAgain(S) == S
NewlyRetained(S) == S \ retained
addRefs(S) ==
  /\ retained' = retained \cup S
  /\ refCount' = [e \in ExecIds |->
                    refCount[e] + Cardinality({o \in NewlyRetained(S) : o.execId = e})]

\* A context is reachable from the element; a handle from the context, and from a run.
IsReachable(o) == (o.call = 0 /\ ctx = o.execId) \/ o \in held

\* The garbage collector finds objects that were retained: removeRef of each, and in the
\* micro task after that the contexts without references are released together.
Counted(e, S) == refCount[e] - Cardinality({o \in S : o.execId = e})
ReleasedAtOnce(e, S) == TRUE
IsUnreferenced(e, S) == Counted(e, S) = 0

Collect(S) ==
  /\ S # {} /\ S \subseteq retained /\ \A o \in S : ~IsReachable(o)
  /\ retained' = retained \ S
  /\ refCount' = [e \in ExecIds |-> Counted(e, S)]
  /\ LET toFire == {e \in {o.execId : o \in S} : IsUnreferenced(e, S)}
     IN  toBackground' =
           IF toFire = {} THEN toBackground ELSE Append(toBackground, Release(toFire))
  /\ UNCHANGED <<app, bgVars, ctx, first, delayedFns, held, mResolve, mStarted, bCalls, early,
                 toMain>>

-----------------------------------------------------------------------------
(* Main thread: runs *)

\* An event of the element runs the function; a context is transformed when it first runs.
RunHandler ==
  /\ ctx # Nothing
  /\ LET h == Handle(ctx, 0)
     IN  /\ held' = held \cup {h}
         /\ IF ctx = FirstScreen THEN UNCHANGED <<retained, refCount>> ELSE addRefs({h})
  /\ UNCHANGED <<app, bgVars, ctx, first, delayedFns, mResolve, mStarted, bCalls, early, toMain,
                 toBackground>>

\* A run ends; what it held is free.
EndRun(h) ==
  /\ h \in held /\ held' = held \ {h}
  /\ UNCHANGED <<app, bgVars, ctx, first, delayedFns, retained, refCount, mResolve, mStarted,
                 bCalls, early, toMain, toBackground>>

ExecIdOf(h) == IF h = FirstHandle THEN first.execId ELSE h.execId
IsDelayed(h) == h = FirstHandle /\ first.isFirstScreen

runOnBackground(h) ==
  /\ h \in held /\ bCalls < MaxBackgroundCalls /\ mCalls + bCalls < MaxCalls
  /\ h = FirstHandle /\ ctx # FirstScreen => "longRunning" \in app
  /\ bCalls' = bCalls + 1 /\ mResolve' = mResolve \cup {bCalls'}
  /\ IF IsDelayed(h)
     THEN delayedFns' = Append(delayedFns, bCalls') /\ UNCHANGED <<toBackground, early>>
     ELSE /\ toBackground' = Append(toBackground, RunOnBackground(ExecIdOf(h), bCalls'))
          /\ early' = IF ctx = FirstScreen THEN early \cup {bCalls'} ELSE early
          /\ UNCHANGED delayedFns
  /\ UNCHANGED <<app, bgVars, ctx, first, held, retained, refCount, mStarted, toMain>>

-----------------------------------------------------------------------------
(* Main thread: messages *)

\* hydrateCtx: a handle with delayed calls stays blank, its calls get the new one; one
\* without is filled in.
HydratedFirst(e) ==
  IF delayedFns = <<>> THEN [isFirstScreen |-> FALSE, execId |-> e] ELSE first

\* runDelayedBackgroundFunctions, of the calls that hydration has given a handle.
NoneDelayed(e) == <<>>
DelayedRuns(e) ==
  IF e = Nothing THEN <<>> ELSE [n \in DOMAIN delayedFns |-> RunOnBackground(e, delayedFns[n])]

\* The handles of the contexts that calls run.
HandlesOf(calls) ==
  IF "plain" \in app THEN {} ELSE {Handle(calls[n].execId, calls[n].id) : n \in DOMAIN calls}
Returns(calls) == [n \in DOMAIN calls |-> Return(calls[n].id)]

\* The attribute, if it changes, then the calls; every run may go on.
updateMainThread ==
  /\ toMain # <<>> /\ Head(toMain).type \in {"patch", "runWorkletCtx"} /\ toMain' = Tail(toMain)
  /\ LET m == Head(toMain)
         taken == m.hydration /\ ctx = FirstScreen
     IN  /\ ctx' = IF m.value = Unchanged THEN ctx ELSE m.value
         /\ first' = IF taken /\ m.value # Nothing THEN HydratedFirst(m.value) ELSE first
         /\ delayedFns' = IF m.hydration THEN <<>> ELSE delayedFns
         /\ \E kept \in SUBSET HandlesOf(m.calls) : held' = held \cup kept
         /\ addRefs({Ctx(e) : e \in {m.value} \cap ExecIds} \cup HandlesOf(m.calls))
         /\ mStarted' = mStarted \o [n \in DOMAIN m.calls |-> m.calls[n].id]
         /\ toBackground' = toBackground \o (IF m.hydration THEN DelayedRuns(m.value) ELSE <<>>)
                                         \o Returns(m.calls)
  /\ UNCHANGED <<app, bgVars, mResolve, bCalls, early>>

BackgroundCallReturns ==
  /\ toMain # <<>> /\ Head(toMain).type = "FunctionCallRet" /\ toMain' = Tail(toMain)
  /\ mResolve' = mResolve \ {Head(toMain).calls[1].id}
  /\ UNCHANGED <<app, bgVars, ctx, first, delayedFns, held, retained, refCount, mStarted,
                 bCalls, early, toBackground>>

-----------------------------------------------------------------------------
Receive ==
  \/ Hydrate \/ runBackgroundFunction \/ releaseBackgroundFunctionCtx \/ MainCallReturns
  \/ updateMainThread \/ BackgroundCallReturns

Next ==
  \/ BeginRender \/ Commit \/ CommitHydration \/ runOnMainThread
  \/ \E f \in BOOLEAN : SetAttribute(f)
  \/ RunHandler \/ \E h \in held : runOnBackground(h) \/ EndRun(h)
  \/ \E S \in SUBSET retained : Collect(S)
  \/ Receive

Spec == Init /\ [][Next]_vars

\* A render and a hydration are finished, and both threads run their queues.  Nothing is
\* assumed of the garbage collector.
Fairness ==
  /\ WF_vars(Commit) /\ WF_vars(CommitHydration)
  /\ WF_vars(Hydrate) /\ WF_vars(runBackgroundFunction) /\ WF_vars(releaseBackgroundFunctionCtx)
  /\ WF_vars(MainCallReturns) /\ WF_vars(updateMainThread) /\ WF_vars(BackgroundCallReturns)

FairSpec == Spec /\ Fairness

-----------------------------------------------------------------------------
(* Properties *)

Calls == [execId : ExecIds, id : MainCalls]
MainMessages ==
  [type : {"patch"}, hydration : {TRUE}, value : ExecIds \cup {Nothing}, calls : Seq(Calls)]
  \cup [type : {"patch", "runWorkletCtx"}, hydration : {FALSE},
        value : ExecIds \cup {Nothing, Unchanged}, calls : Seq(Calls)]
  \cup [type : {"FunctionCallRet"}, hydration : {FALSE}, value : {Unchanged},
        calls : Seq([execId : {0}, id : BackgroundCalls])]
BackgroundMessages ==
  {FirstScreenMsg}
  \cup [type : {"runOnBackground"}, execIds : SUBSET ExecIds, id : BackgroundCalls]
  \cup [type : {"releaseBackgroundWorkletCtx"}, execIds : SUBSET ExecIds, id : {0}]
  \cup [type : {"FunctionCallRet"}, execIds : {{}}, id : MainCalls]

\* The types.  Calls that wait to be sent have a function to run, a handle is blank only
\* before hydration, and the hydration patch in the making says what the attribute is.
TypeOK ==
  /\ app \in Apps
  /\ patching \in BOOLEAN /\ rendering \in BOOLEAN /\ hydrating \in BOOLEAN
  /\ rendered \in BOOLEAN
  /\ hydrating => patching /\ ~rendering /\ update # Unchanged
  /\ update \in ExecIds \cup {Nothing, Unchanged}
  /\ execIdMap \subseteq ExecIds /\ lastIndex \in 0..MaxExecIds
  /\ fnExecId \in ExecIds \cup {0} /\ (delayedData # <<>> => fnExecId # 0)
  /\ delayedData \in Seq(Calls) /\ replayed \subseteq MainCalls /\ bResolve \subseteq MainCalls
  /\ mStarted \in Seq(MainCalls) /\ early \subseteq BackgroundCalls
  /\ mResolve \subseteq BackgroundCalls /\ delayedFns \in Seq(BackgroundCalls)
  /\ bStarted \in Seq(BackgroundCalls) /\ missed \subseteq BackgroundCalls
  /\ ctx \in ExecIds \cup {FirstScreen, Nothing}
  /\ first \in [isFirstScreen : BOOLEAN, execId : ExecIds \cup {0}]
  /\ first.isFirstScreen \/ first.execId \in ExecIds
  /\ held \subseteq Objects \cup {FirstHandle} /\ retained \subseteq Objects
  /\ refCount \in [ExecIds -> Int]
  /\ toMain \in Seq(MainMessages) /\ toBackground \in Seq(BackgroundMessages)
  /\ renders \in 0..MaxRenders /\ mCalls \in 0..MaxMainCalls
  /\ bCalls \in 0..MaxBackgroundCalls

Releases(n) == toBackground[n].type = "releaseBackgroundWorkletCtx"
Released ==
  UNION {toBackground[n].execIds : n \in {k \in DOMAIN toBackground : Releases(k)}}

\* The background thread keeps a context as long as a run of the main thread has a handle
\* of it, and so every call finds its function, whatever is collected, sent and replaced
\* meanwhile: a context is not released while a handle is left, and a call is not overtaken
\* by the release of what it names.  The handle of a first-screen run that goes on after
\* hydration is not counted, so such an app is left out; and so is one that calls, from a
\* replayed event, a function whose delayed calls go with the hydration patch: these are sent
\* with the exec id of the call that overtakes them, which may be released before they come.
HandlesKeepTheirFunction ==
  "longRunning" \notin app /\ (replayed = {} \/ "repeats" \notin app) =>
    /\ \A h \in held \ {FirstHandle} : h.execId \in execIdMap \ Released
    /\ \A n \in DOMAIN toBackground : toBackground[n].type = "runOnBackground" =>
         toBackground[n].execIds \subseteq execIdMap \ UNION {toBackground[k].execIds :
                                                     k \in {k \in 1..(n - 1) : Releases(k)}}
    /\ missed = {}

\* What names a context that is on its way.
SentToMain(e) ==
  \E n \in DOMAIN toMain :
    toMain[n].value = e \/ \E k \in DOMAIN toMain[n].calls : toMain[n].calls[k].execId = e
ToBeSent(e) == update = e \/ \E n \in DOMAIN DelayedCalls : DelayedCalls[n].execId = e

\* No context is kept for nothing: one that the main thread neither has nor will get is
\* being released.  This is not so for the functions of runOnMainThread that capture
\* nothing to count, and those called again before they are sent.
NoContextLeaks ==
  app \cap {"plain", "repeats"} = {} =>
    /\ execIdMap \subseteq Released \cup {o.execId : o \in retained}
                          \cup {e \in ExecIds : SentToMain(e) \/ ToBeSent(e)}
    /\ \A e \in ExecIds : refCount[e] = Cardinality({o \in retained : o.execId = e})

\* The calls of s are in the order in which they were made, but those of ahead come before
\* the others that were made before them.
MayPrecede(c, d, ahead) == c < d \/ (d < c /\ c \in ahead /\ d \notin ahead)
InOrder(s, ahead) == \A m, n \in DOMAIN s : m < n => MayPrecede(s[m], s[n], ahead)

\* The calls of one thread run on the other once each and in the order in which they were
\* made, whether they are delayed to a commit, to hydration or not at all.  Only the calls
\* that events replayed at hydration make overtake those that are delayed to it, and so do
\* the calls of the functions that run then.
CallsRunInOrder == InOrder(mStarted, replayed) /\ InOrder(bStarted, early)

\* Every call returns: its promise is resolved, whenever it was made.  This is not so for a
\* run of the first screen that goes on, calls delayed to a hydration that finds no function,
\* and background functions that throw.
CallsReturn ==
  /\ \A n \in BackgroundCalls :
       app \cap {"longRunning", "mismatch", "throws"} = {} /\ n \in mResolve
         ~> n \notin mResolve
  /\ \A n \in MainCalls : n \in bResolve ~> n \notin bResolve
=============================================================================
