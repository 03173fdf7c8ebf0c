------------------------- MODULE ThreadFunctions_proofs -------------------------
(***************************************************************************)
(* Theorems about ThreadFunctions, for all apps and any number of renders, *)
(* contexts and calls.                                                     *)
(***************************************************************************)
EXTENDS ThreadFunctions, FiniteSetTheorems, SequenceTheorems, TLAPS

-----------------------------------------------------------------------------
(* Types *)

LEMMA TypeInitial == Init => TypeOK
<1> SUFFICES ASSUME Init PROVE TypeOK
  OBVIOUS
<1>1. /\ delayedData \in Seq(Calls) /\ mStarted \in Seq(MainCalls)
      /\ delayedFns \in Seq(BackgroundCalls) /\ bStarted \in Seq(BackgroundCalls)
      /\ toMain \in Seq(MainMessages)
  BY EmptySeq DEF Init
<1>2. toBackground \in Seq(BackgroundMessages)
  <2>1. FirstScreenMsg \in BackgroundMessages
    BY DEF BackgroundMessages
  <2>. QED
    BY <2>1 DEF Init
<1>3. /\ first \in [isFirstScreen : BOOLEAN, execId : ExecIds \cup {0}]
      /\ first.isFirstScreen \/ first.execId \in ExecIds
  BY DEF Init
<1>4. refCount \in [ExecIds -> Int]
  BY DEF Init
<1>5. /\ lastIndex \in 0..MaxExecIds /\ renders \in 0..MaxRenders /\ mCalls \in 0..MaxMainCalls
      /\ bCalls \in 0..MaxBackgroundCalls
  BY ConstantsAssumption DEF Init
<1>6. /\ execIdMap \subseteq ExecIds /\ bResolve \subseteq MainCalls
      /\ mResolve \subseteq BackgroundCalls /\ missed \subseteq BackgroundCalls
      /\ held \subseteq Objects \cup {FirstHandle} /\ retained \subseteq Objects
  BY DEF Init
<1>7. /\ app \in Apps /\ patching \in BOOLEAN /\ rendering \in BOOLEAN /\ rendered \in BOOLEAN
      /\ hydrating = FALSE /\ replayed \subseteq MainCalls /\ early \subseteq BackgroundCalls
      /\ update \in ExecIds \cup {Nothing, Unchanged} /\ fnExecId \in ExecIds \cup {0}
      /\ (delayedData # <<>> => fnExecId # 0) /\ ctx \in ExecIds \cup {FirstScreen, Nothing}
  BY DEF Init
<1>. QED
  BY <1>1, <1>2, <1>3, <1>4, <1>5, <1>6, <1>7 DEF TypeOK

\* A context that is registered has an exec id that is new.
LEMMA RegisterType ==
  ASSUME TypeOK, register
  PROVE  /\ lastIndex + 1 \in ExecIds /\ execIdMap' \subseteq ExecIds
         /\ lastIndex' \in 0..MaxExecIds
  BY ConstantsAssumption DEF register, TypeOK, ExecIds

\* The types of messages.
LEMMA MainMessageTypes ==
  /\ \A v \in ExecIds \cup {Nothing}, c \in Seq(Calls) : Patch(TRUE, v, c) \in MainMessages
  /\ \A v \in ExecIds \cup {Nothing, Unchanged}, c \in Seq(Calls) :
       Patch(FALSE, v, c) \in MainMessages
  /\ \A e \in ExecIds, n \in MainCalls : RunWorkletCtx(e, n) \in MainMessages
  /\ \A n \in BackgroundCalls : ReturnToMain(n) \in MainMessages
<1>1. \A e \in ExecIds, n \in MainCalls : <<Call(e, n)>> \in Seq(Calls)
  BY DEF Call, Calls
<1>2. \A n \in BackgroundCalls : <<Call(0, n)>> \in Seq([execId : {0}, id : BackgroundCalls])
  BY DEF Call
<1>3. \A v \in ExecIds \cup {Nothing}, c \in Seq(Calls) : Patch(TRUE, v, c) \in MainMessages
  BY DEF Patch, MainMessages
<1>4. \A v \in ExecIds \cup {Nothing, Unchanged}, c \in Seq(Calls) :
        Patch(FALSE, v, c) \in MainMessages
  BY DEF Patch, MainMessages
<1>5. \A e \in ExecIds, n \in MainCalls : RunWorkletCtx(e, n) \in MainMessages
  BY <1>1 DEF RunWorkletCtx, MainMessages
<1>6. \A n \in BackgroundCalls : ReturnToMain(n) \in MainMessages
  BY <1>2 DEF ReturnToMain, MainMessages
<1>. QED
  BY <1>3, <1>4, <1>5, <1>6

LEMMA BackgroundMessageTypes ==
  /\ \A e \in ExecIds, n \in BackgroundCalls : RunOnBackground(e, n) \in BackgroundMessages
  /\ \A S \in SUBSET ExecIds : Release(S) \in BackgroundMessages
  /\ \A n \in MainCalls : Return(n) \in BackgroundMessages
  BY DEF RunOnBackground, Release, Return, BackgroundMessages

LEMMA DelayedCallsType ==
  ASSUME TypeOK
  PROVE  DelayedCalls \in Seq(Calls)
<1>1. /\ delayedData \in Seq(Calls) /\ DOMAIN delayedData = 1..Len(delayedData)
      /\ Len(delayedData) \in Nat
  BY DEF TypeOK
<1> DEFINE call(n) == IF "repeats" \in app THEN Call(fnExecId, delayedData[n].id) ELSE delayedData[n]
<1>2. ASSUME NEW n \in 1..Len(delayedData)
      PROVE  call(n) \in Calls
  <2>1. delayedData[n] \in Calls /\ delayedData # <<>>
    BY <1>1, ElementOfSeq
  <2>. QED
    BY <2>1 DEF TypeOK, Call, Calls
<1>3. DelayedCalls \in [1..Len(delayedData) -> Calls]
  BY <1>1, <1>2 DEF DelayedCalls
<1>. QED
  BY <1>1, <1>3, SeqDef

\* The message at the head of a queue has its type, and so has what is left.
LEMMA NextType ==
  ASSUME TypeOK, NEW t, Next2Background(t)
  PROVE  /\ Head(toBackground) \in BackgroundMessages /\ Head(toBackground).type = t
         /\ toBackground' \in Seq(BackgroundMessages)
  BY HeadTailProperties DEF Next2Background, TypeOK

LEMMA BackgroundTypeInductive ==
  ASSUME TypeOK,
         \/ BeginRender \/ Commit \/ CommitHydration \/ runOnMainThread
         \/ \E f \in BOOLEAN : SetAttribute(f)
         \/ Hydrate \/ runBackgroundFunction \/ releaseBackgroundFunctionCtx \/ MainCallReturns
  PROVE  TypeOK'
<1>1. CASE BeginRender
  BY <1>1, ConstantsAssumption DEF BeginRender, TypeOK, mainVars
<1>2. CASE Commit
  <2>1. update \in ExecIds \cup {Nothing, Unchanged} /\ toMain \in Seq(MainMessages)
    BY DEF TypeOK
  <2>2. Patch(FALSE, update, DelayedCalls) \in MainMessages
    BY <2>1, MainMessageTypes, DelayedCallsType
  <2>3. toMain' \in Seq(MainMessages)
    <3>1. Append(toMain, Patch(FALSE, update, DelayedCalls)) \in Seq(MainMessages)
      BY <2>1, <2>2, AppendProperties
    <3>2. CASE patching
      BY <1>2, <3>1, <3>2 DEF Commit
    <3>3. CASE ~patching
      BY <1>2, <2>1, <3>3 DEF Commit
    <3>. QED
      BY <3>2, <3>3 DEF TypeOK
  <2>4. delayedData' \in Seq(Calls) /\ (delayedData' # <<>> => fnExecId # 0)
    BY <1>2, EmptySeq DEF Commit, TypeOK
  <2>. QED
    BY <1>2, <2>3, <2>4 DEF Commit, TypeOK, mainVars
<1>3. CASE runOnMainThread
  <2>1. register /\ mCalls' = mCalls + 1 /\ fnExecId' = lastIndex + 1
    BY <1>3 DEF runOnMainThread
  <2>2. mCalls' \in MainCalls /\ mCalls' \in 0..MaxMainCalls
    BY <1>3, ConstantsAssumption DEF runOnMainThread, TypeOK, MainCalls
  <2>3. /\ fnExecId' \in ExecIds /\ fnExecId' # 0 /\ execIdMap' \subseteq ExecIds
        /\ lastIndex' \in 0..MaxExecIds
    BY <2>1, RegisterType DEF ExecIds
  <2>4. RunWorkletCtx(fnExecId', mCalls') \in MainMessages
    BY <2>2, <2>3, MainMessageTypes
  <2>5. /\ delayedData \in Seq(Calls) /\ toMain \in Seq(MainMessages)
        /\ Call(fnExecId', mCalls') \in Calls
    BY <2>2, <2>3 DEF TypeOK, Call, Calls
  <2>6. toMain' \in Seq(MainMessages) /\ delayedData' \in Seq(Calls)
    <3>1. CASE shouldDispatchDirectly
      BY <1>3, <2>4, <2>5, <3>1, AppendProperties DEF runOnMainThread
    <3>2. CASE ~shouldDispatchDirectly
      BY <1>3, <2>2, <2>5, <3>2, AppendProperties DEF runOnMainThread
    <3>. QED
      BY <3>1, <3>2
  <2>7. bResolve' \subseteq MainCalls /\ replayed' \subseteq MainCalls
    BY <1>3, <2>2 DEF runOnMainThread, TypeOK
  <2>. QED
    BY <1>3, <2>2, <2>3, <2>6, <2>7 DEF runOnMainThread, TypeOK, mainVars
<1>4. ASSUME NEW f \in BOOLEAN, SetAttribute(f) PROVE TypeOK'
  <2>1. /\ execIdMap' \subseteq ExecIds /\ lastIndex' \in 0..MaxExecIds
        /\ update' \in ExecIds \cup {Nothing, Unchanged}
    BY <1>4, RegisterType DEF SetAttribute, TypeOK
  <2>. QED
    BY <1>4, <2>1 DEF SetAttribute, TypeOK, mainVars
<1>5. CASE Hydrate
  <2>1. toBackground' \in Seq(BackgroundMessages)
    BY <1>5, NextType DEF Hydrate
  <2>2. /\ execIdMap' \subseteq ExecIds /\ lastIndex' \in 0..MaxExecIds
        /\ rendered => lastIndex + 1 \in ExecIds
    BY <1>5, RegisterType DEF Hydrate, TypeOK
  <2>3. update' \in ExecIds \cup {Nothing} /\ Unchanged \notin ExecIds \cup {Nothing}
    BY <1>5, <2>2, ConstantsAssumption DEF Hydrate, Unchanged, Nothing, ExecIds
  <2>4. patching' /\ patching' \in BOOLEAN /\ hydrating' \in BOOLEAN /\ ~rendering'
    BY <1>5 DEF Hydrate, Next2Background
  <2>. QED
    BY <1>5, <2>1, <2>2, <2>3, <2>4 DEF Hydrate, TypeOK, mainVars
<1>5a. CASE CommitHydration
  <2>1. update \in ExecIds \cup {Nothing} /\ toMain \in Seq(MainMessages)
    BY <1>5a DEF CommitHydration, TypeOK
  <2>2. Patch(TRUE, update, DelayedCalls) \in MainMessages
    BY <2>1, MainMessageTypes, DelayedCallsType
  <2>3. toMain' \in Seq(MainMessages)
    BY <1>5a, <2>1, <2>2, AppendProperties DEF CommitHydration
  <2>4. delayedData' \in Seq(Calls) /\ delayedData' = <<>>
    BY <1>5a, EmptySeq DEF CommitHydration
  <2>. QED
    BY <1>5a, <2>3, <2>4 DEF CommitHydration, TypeOK, mainVars
<1>6. CASE runBackgroundFunction
  <2> DEFINE m == Head(toBackground)
  <2>1. /\ toBackground' \in Seq(BackgroundMessages) /\ m \in BackgroundMessages
        /\ m.type = "runOnBackground"
    BY <1>6, NextType DEF runBackgroundFunction
  <2>2. m.id \in BackgroundCalls
    BY <2>1 DEF BackgroundMessages, FirstScreenMsg
  <2>3. ReturnToMain(m.id) \in MainMessages
    BY <2>2, MainMessageTypes
  <2>4. /\ toMain' \in Seq(MainMessages) /\ bStarted' \in Seq(BackgroundCalls)
        /\ missed' \subseteq BackgroundCalls
    <3>1. CASE m.execIds \subseteq execIdMap
      <4>1. bStarted' = Append(bStarted, m.id) /\ missed' = missed
        BY <1>6, <3>1 DEF runBackgroundFunction
      <4>2. toMain' = toMain \/ toMain' = Append(toMain, ReturnToMain(m.id))
        BY <1>6, <3>1 DEF runBackgroundFunction
      <4>3. toMain \in Seq(MainMessages) /\ bStarted \in Seq(BackgroundCalls)
        BY DEF TypeOK
      <4>4. toMain' \in Seq(MainMessages)
        BY <2>3, <4>2, <4>3, AppendProperties
      <4>5. bStarted' \in Seq(BackgroundCalls)
        BY <2>2, <4>1, <4>3, AppendProperties
      <4>. QED
        BY <4>1, <4>4, <4>5 DEF TypeOK
    <3>2. CASE ~(m.execIds \subseteq execIdMap)
      BY <1>6, <2>2, <3>2 DEF runBackgroundFunction, TypeOK
    <3>. QED
      BY <3>1, <3>2
  <2>. QED
    BY <1>6, <2>1, <2>4 DEF runBackgroundFunction, TypeOK, mainVars
<1>7. CASE releaseBackgroundFunctionCtx
  <2>1. toBackground' \in Seq(BackgroundMessages)
    BY <1>7, NextType DEF releaseBackgroundFunctionCtx
  <2>. QED
    BY <1>7, <2>1 DEF releaseBackgroundFunctionCtx, TypeOK, mainVars
<1>8. CASE MainCallReturns
  <2>1. toBackground' \in Seq(BackgroundMessages)
    BY <1>8, NextType DEF MainCallReturns
  <2>. QED
    BY <1>8, <2>1 DEF MainCallReturns, TypeOK, mainVars
<1>. QED
  BY <1>1, <1>2, <1>3, <1>4, <1>5, <1>5a, <1>6, <1>7, <1>8

LEMMA ObjectsFinite == IsFiniteSet(Objects)
<1> DEFINE T == {"ctx", "handle"} \X (ExecIds \X (0..MaxMainCalls))
           f == [t \in T |-> [kind |-> t[1], execId |-> t[2][1], call |-> t[2][2]]]
<1>1. IsFiniteSet(ExecIds) /\ IsFiniteSet(0..MaxMainCalls)
  BY ConstantsAssumption, FS_Interval DEF ExecIds
<1>2. IsFiniteSet({"ctx"} \cup {"handle"})
  BY FS_Singleton, FS_Union
<1>3. IsFiniteSet(T)
  <2>1. {"ctx", "handle"} = {"ctx"} \cup {"handle"}
    OBVIOUS
  <2>2. IsFiniteSet(ExecIds \X (0..MaxMainCalls))
    BY <1>1, FS_Product
  <2>. QED
    BY <1>2, <2>1, <2>2, FS_Product
<1>4. f \in Surjection(T, Objects)
  <2>1. f \in [T -> Objects]
    BY DEF Objects
  <2>2. ASSUME NEW o \in Objects PROVE \E t \in T : f[t] = o
    <3>1. <<o.kind, <<o.execId, o.call>>>> \in T
      BY DEF Objects
    <3>2. f[<<o.kind, <<o.execId, o.call>>>>] = o
      BY <3>1 DEF Objects
    <3>. QED
      BY <3>1, <3>2
  <2>. QED
    BY <2>1, <2>2 DEF Surjection
<1>. QED
  BY <1>3, <1>4, FS_Surjection

\* A message that updateMainThread takes.
LEMMA PatchTypes ==
  ASSUME NEW m \in MainMessages, m.type \in {"patch", "runWorkletCtx"}
  PROVE  /\ m.calls \in Seq(Calls) /\ m.hydration \in BOOLEAN
         /\ m.value \in ExecIds \cup {Nothing, Unchanged}
         /\ m.hydration => m.value # Unchanged
<1>1. CASE m \in [type : {"patch"}, hydration : {TRUE}, value : ExecIds \cup {Nothing},
                  calls : Seq(Calls)]
  <2>1. m.calls \in Seq(Calls) /\ m.hydration \in {TRUE} /\ m.value \in ExecIds \cup {Nothing}
    BY <1>1
  <2>2. m.value # Unchanged
    BY <2>1, ConstantsAssumption DEF Nothing, Unchanged, ExecIds
  <2>3. m.hydration \in BOOLEAN
    BY <2>1
  <2>. QED
    BY <2>1, <2>2, <2>3
<1>2. CASE m \in [type : {"patch", "runWorkletCtx"}, hydration : {FALSE},
                  value : ExecIds \cup {Nothing, Unchanged}, calls : Seq(Calls)]
  BY <1>2
<1>. QED
  BY <1>1, <1>2 DEF MainMessages

LEMMA IdsType ==
  ASSUME NEW c \in Seq(Calls)
  PROVE  [n \in DOMAIN c |-> c[n].id] \in Seq(MainCalls)
<1>1. DOMAIN c = 1..Len(c) /\ Len(c) \in Nat
  OBVIOUS
<1>2. ASSUME NEW n \in 1..Len(c) PROVE c[n].id \in MainCalls
  <2>1. c[n] \in Calls
    BY ElementOfSeq
  <2>. QED
    BY <2>1 DEF Calls
<1>3. [n \in DOMAIN c |-> c[n].id] \in [1..Len(c) -> MainCalls]
  BY <1>1, <1>2
<1>. QED
  BY <1>1, <1>3, SeqDef

LEMMA ReturnsType ==
  ASSUME NEW c \in Seq(Calls)
  PROVE  Returns(c) \in Seq(BackgroundMessages)
<1>1. DOMAIN c = 1..Len(c) /\ Len(c) \in Nat
  OBVIOUS
<1>2. ASSUME NEW n \in 1..Len(c) PROVE c[n].id \in MainCalls
  <2>1. c[n] \in Calls
    BY ElementOfSeq
  <2>. QED
    BY <2>1 DEF Calls
<1>3. Returns(c) \in [1..Len(c) -> BackgroundMessages]
  BY <1>1, <1>2, BackgroundMessageTypes DEF Returns
<1>. QED
  BY <1>1, <1>3, SeqDef

LEMMA DelayedRunsType ==
  ASSUME TypeOK, NEW e \in ExecIds \cup {Nothing}
  PROVE  DelayedRuns(e) \in Seq(BackgroundMessages)
<1>1. CASE e = Nothing
  BY <1>1, EmptySeq DEF DelayedRuns
<1>2. CASE e # Nothing
  <2>1. /\ delayedFns \in Seq(BackgroundCalls) /\ DOMAIN delayedFns = 1..Len(delayedFns)
        /\ Len(delayedFns) \in Nat
    BY DEF TypeOK
  <2>2. \A n \in 1..Len(delayedFns) : delayedFns[n] \in BackgroundCalls
    BY <2>1, ElementOfSeq
  <2>3. DelayedRuns(e) \in [1..Len(delayedFns) -> BackgroundMessages]
    BY <1>2, <2>1, <2>2, BackgroundMessageTypes DEF DelayedRuns
  <2>. QED
    BY <2>1, <2>3, SeqDef
<1>. QED
  BY <1>1, <1>2

\* The objects of a message's calls.
LEMMA HandlesOfType ==
  ASSUME NEW c \in Seq(Calls)
  PROVE  HandlesOf(c) \subseteq Objects
<1>1. ASSUME NEW n \in DOMAIN c
      PROVE  Handle(c[n].execId, c[n].id) \in Objects
  <2>1. c[n] \in Calls
    OBVIOUS
  <2>2. c[n].execId \in ExecIds /\ c[n].id \in 0..MaxMainCalls
    BY <2>1, ConstantsAssumption DEF Calls, MainCalls
  <2>. QED
    BY <2>2 DEF Handle, Objects
<1>. QED
  BY <1>1 DEF HandlesOf

LEMMA AddRefsType ==
  ASSUME TypeOK, NEW S \in SUBSET Objects, addRefs(S)
  PROVE  retained' \subseteq Objects /\ refCount' \in [ExecIds -> Int]
<1>1. ASSUME NEW e \in ExecIds
      PROVE  Cardinality({o \in NewlyRetained(S) : o.execId = e}) \in Int
  <2>1. IsFiniteSet({o \in NewlyRetained(S) : o.execId = e})
    BY ObjectsFinite, FS_Subset DEF NewlyRetained
  <2>. QED
    BY <2>1, FS_CardinalityType
<1> DEFINE new(e) == Cardinality({o \in NewlyRetained(S) : o.execId = e})
<1>2. refCount' = [e \in ExecIds |-> refCount[e] + new(e)]
  BY DEF addRefs
<1>3. \A e \in ExecIds : new(e) \in Int /\ refCount[e] \in Int
  BY <1>1 DEF TypeOK
<1>4. retained' \subseteq Objects
  BY DEF addRefs, TypeOK
<1> HIDE DEF new
<1>. QED
  BY <1>2, <1>3, <1>4

LEMMA MainTypeInductive ==
  ASSUME TypeOK,
         \/ RunHandler \/ \E h \in held : runOnBackground(h) \/ EndRun(h)
         \/ \E S \in SUBSET retained : Collect(S)
         \/ updateMainThread \/ BackgroundCallReturns
  PROVE  TypeOK'
<1>1. CASE RunHandler
  <2>1. CASE ctx = FirstScreen
    <3>1. held' = held \cup {FirstHandle} /\ UNCHANGED <<retained, refCount>>
      BY <1>1, <2>1 DEF RunHandler, FirstHandle, FirstScreen
    <3>. QED
      BY <1>1, <3>1 DEF RunHandler, TypeOK, bgVars
  <2>2. CASE ctx # FirstScreen
    <3>1. ctx \in ExecIds
      BY <1>1, <2>2 DEF RunHandler, TypeOK
    <3>2. Handle(ctx, 0) \in Objects
      BY <3>1, ConstantsAssumption DEF Handle, Objects
    <3>3. held' = held \cup {Handle(ctx, 0)} /\ addRefs({Handle(ctx, 0)})
      BY <1>1, <2>2 DEF RunHandler
    <3>4. retained' \subseteq Objects /\ refCount' \in [ExecIds -> Int]
      BY <3>2, <3>3, AddRefsType
    <3>. QED
      BY <1>1, <3>2, <3>3, <3>4 DEF RunHandler, TypeOK, bgVars
  <2>. QED
    BY <2>1, <2>2
<1>2. ASSUME NEW h \in held, EndRun(h) PROVE TypeOK'
  BY <1>2 DEF EndRun, TypeOK, bgVars
<1>3. ASSUME NEW h \in held, runOnBackground(h) PROVE TypeOK'
  <2>1. bCalls' = bCalls + 1 /\ bCalls' \in BackgroundCalls /\ bCalls' \in 0..MaxBackgroundCalls
    BY <1>3, ConstantsAssumption DEF runOnBackground, TypeOK, BackgroundCalls
  <2>2. mResolve' \subseteq BackgroundCalls /\ early' \subseteq BackgroundCalls
    BY <1>3, <2>1 DEF runOnBackground, TypeOK
  <2>3. CASE IsDelayed(h)
    <3>1. delayedFns' = Append(delayedFns, bCalls') /\ delayedFns \in Seq(BackgroundCalls)
      BY <1>3, <2>3 DEF runOnBackground, TypeOK
    <3>2. delayedFns' \in Seq(BackgroundCalls)
      BY <2>1, <3>1, AppendProperties
    <3>. QED
      BY <1>3, <2>1, <2>2, <2>3, <3>2 DEF runOnBackground, TypeOK, bgVars
  <2>4. CASE ~IsDelayed(h)
    <3>1. RunOnBackground(ExecIdOf(h), bCalls') \in BackgroundMessages
      <4>1. ExecIdOf(h) \in ExecIds
        <5>1. CASE h = FirstHandle
          BY <1>3, <2>4, <5>1 DEF TypeOK, ExecIdOf, IsDelayed
        <5>2. CASE h # FirstHandle
          BY <1>3, <5>2 DEF TypeOK, Objects, ExecIdOf
        <5>. QED
          BY <5>1, <5>2
      <4>. QED
        BY <2>1, <4>1, BackgroundMessageTypes
    <3>2. toBackground' \in Seq(BackgroundMessages)
      <4>1. /\ toBackground' = Append(toBackground, RunOnBackground(ExecIdOf(h), bCalls'))
            /\ toBackground \in Seq(BackgroundMessages)
        BY <1>3, <2>4 DEF runOnBackground, TypeOK
      <4>. QED
        BY <3>1, <4>1, AppendProperties
    <3>. QED
      BY <1>3, <2>1, <2>2, <2>4, <3>2 DEF runOnBackground, TypeOK, bgVars
  <2>. QED
    BY <2>3, <2>4
<1>4. ASSUME NEW S \in SUBSET retained, Collect(S) PROVE TypeOK'
  <2> DEFINE toFire == {e \in {o.execId : o \in S} : IsUnreferenced(e, S)}
  <2>1. S \subseteq Objects /\ toFire \subseteq ExecIds
    BY DEF TypeOK, Objects
  <2>2. ASSUME NEW e \in ExecIds PROVE Counted(e, S) \in Int
    <3>1. IsFiniteSet({o \in S : o.execId = e})
      BY <2>1, ObjectsFinite, FS_Subset
    <3>2. Cardinality({o \in S : o.execId = e}) \in Nat
      BY <3>1, FS_CardinalityType
    <3>3. refCount[e] \in Int
      BY DEF TypeOK
    <3>. QED
      BY <3>2, <3>3 DEF Counted
  <2>3. refCount' \in [ExecIds -> Int]
    BY <1>4, <2>2 DEF Collect
  <2>4. toBackground' \in Seq(BackgroundMessages)
    <3>1. toBackground' = toBackground \/ toBackground' = Append(toBackground, Release(toFire))
      BY <1>4 DEF Collect
    <3>2. Release(toFire) \in BackgroundMessages
      BY <2>1, BackgroundMessageTypes
    <3>3. toBackground \in Seq(BackgroundMessages)
      BY DEF TypeOK
    <3>. QED
      BY <3>1, <3>2, <3>3, AppendProperties
  <2>. QED
    BY <1>4, <2>3, <2>4 DEF Collect, TypeOK, bgVars
<1>5. CASE updateMainThread
  <2> DEFINE m == Head(toMain)
             S == {Ctx(e) : e \in {m.value} \cap ExecIds} \cup HandlesOf(m.calls)
  <2>1. /\ m \in MainMessages /\ toMain' \in Seq(MainMessages)
        /\ m.type \in {"patch", "runWorkletCtx"}
    BY <1>5, HeadTailProperties DEF updateMainThread, TypeOK
  <2>2. /\ m.calls \in Seq(Calls) /\ m.hydration \in BOOLEAN
        /\ m.value \in ExecIds \cup {Nothing, Unchanged}
        /\ m.hydration => m.value # Unchanged
    BY <2>1, PatchTypes
  <2>3. ctx' \in ExecIds \cup {FirstScreen, Nothing}
    BY <1>5, <2>2 DEF updateMainThread, TypeOK
  <2>4. /\ first' \in [isFirstScreen : BOOLEAN, execId : ExecIds \cup {0}]
        /\ ~first'.isFirstScreen => first'.execId \in ExecIds
    <3>1. CASE m.hydration /\ ctx = FirstScreen /\ m.value # Nothing
      <4>1. m.value \in ExecIds /\ first' = HydratedFirst(m.value)
        BY <1>5, <2>2, <3>1 DEF updateMainThread
      <4>. QED
        BY <4>1 DEF HydratedFirst, TypeOK
    <3>2. CASE ~(m.hydration /\ ctx = FirstScreen /\ m.value # Nothing)
      BY <1>5, <3>2 DEF updateMainThread, TypeOK
    <3>. QED
      BY <3>1, <3>2
  <2>5. delayedFns' \in Seq(BackgroundCalls)
    BY <1>5, EmptySeq DEF updateMainThread, TypeOK
  <2>6. HandlesOf(m.calls) \subseteq Objects
    BY <2>2, HandlesOfType
  <2>7. held' \subseteq Objects \cup {FirstHandle}
    BY <1>5, <2>6 DEF updateMainThread, TypeOK
  <2>8. retained' \subseteq Objects /\ refCount' \in [ExecIds -> Int]
    <3>1. \A e \in ExecIds : Ctx(e) \in Objects
      BY ConstantsAssumption DEF Ctx, Objects
    <3>2. S \subseteq Objects /\ addRefs(S)
      BY <1>5, <2>6, <3>1 DEF updateMainThread
    <3>. QED
      BY <3>2, AddRefsType
  <2>9. mStarted' \in Seq(MainCalls)
    <3>1. [n \in DOMAIN m.calls |-> m.calls[n].id] \in Seq(MainCalls)
      BY <2>2, IdsType
    <3>2. mStarted' = mStarted \o [n \in DOMAIN m.calls |-> m.calls[n].id]
      BY <1>5 DEF updateMainThread
    <3>. QED
      BY <3>1, <3>2, ConcatProperties DEF TypeOK
  <2>10. toBackground' \in Seq(BackgroundMessages)
    <3>1. Returns(m.calls) \in Seq(BackgroundMessages)
      BY <2>2, ReturnsType
    <3>2. m.hydration => DelayedRuns(m.value) \in Seq(BackgroundMessages)
      BY <2>2, DelayedRunsType
    <3>3. PICK d \in Seq(BackgroundMessages) :
            toBackground' = toBackground \o d \o Returns(m.calls)
      BY <1>5, <3>2, EmptySeq DEF updateMainThread
    <3>4. toBackground \o d \in Seq(BackgroundMessages)
      BY <3>3, ConcatProperties DEF TypeOK
    <3>. QED
      BY <3>1, <3>3, <3>4, ConcatProperties
  <2>11. UNCHANGED <<app, bgVars, mResolve, bCalls, early>>
    BY <1>5 DEF updateMainThread
  <2>. QED
    BY <2>1, <2>3, <2>4, <2>5, <2>7, <2>8, <2>9, <2>10, <2>11 DEF TypeOK, bgVars
<1>6. CASE BackgroundCallReturns
  <2>1. toMain' \in Seq(MainMessages)
    BY <1>6, HeadTailProperties DEF BackgroundCallReturns, TypeOK
  <2>. QED
    BY <1>6, <2>1 DEF BackgroundCallReturns, TypeOK, bgVars
<1>. QED
  BY <1>1, <1>2, <1>3, <1>4, <1>5, <1>6

LEMMA TypeInductive == TypeOK /\ [Next]_vars => TypeOK'
<1> SUFFICES ASSUME TypeOK, [Next]_vars PROVE TypeOK'
  OBVIOUS
<1>1. CASE UNCHANGED vars
  BY <1>1 DEF TypeOK, vars, bgVars, mainVars
<1>2. CASE Next
  BY <1>2, BackgroundTypeInductive, MainTypeInductive DEF Next, Receive
<1>. QED
  BY <1>1, <1>2

\* The channels hold messages of their kinds, and a call that waits to be sent, or a handle
\* that is filled in, names a context, for all apps and bounds.
THEOREM TypeCorrect == Spec => []TypeOK
  BY TypeInitial, TypeInductive, PTL DEF Spec

-----------------------------------------------------------------------------
(* The inductive invariant behind HandlesKeepTheirFunction.                 *)

\* Context e is kept by the background thread, and no release of it is on its way.
Live(e) ==
  e \in execIdMap /\ \A n \in 1..Len(toBackground) :
                       Releases(n) => e \notin toBackground[n].execIds

\* ... none before the k-th message.
LiveUntil(e, k) ==
  e \in execIdMap /\ \A n \in 1..Len(toBackground) :
                       n < k /\ Releases(n) => e \notin toBackground[n].execIds

\* The contexts of a message to the main thread, and those that are to be sent.
Ids(m) == ({m.value} \cup {m.calls[k].execId : k \in DOMAIN m.calls}) \cap ExecIds
Waiting == {DelayedCalls[k].execId : k \in DOMAIN DelayedCalls}
Pending == ({update} \cup Waiting) \cap ExecIds
Sent(e) == \E n \in 1..Len(toMain) : e \in Ids(toMain[n])

\* Context e is live, and the main thread has nothing of it yet.
Fresh(e) == Live(e) /\ \A o \in retained : o.execId # e

\* Exec ids are given out once.
IdsKnown ==
  /\ \A e \in execIdMap : e <= lastIndex
  /\ \A n \in 1..Len(toBackground) :
       Releases(n) => \A e \in toBackground[n].execIds : e <= lastIndex

SentFresh == \A e \in ExecIds : Sent(e) => Fresh(e)
SentOnce ==
  \A n, k \in 1..Len(toMain) : n # k => Ids(toMain[n]) \cap Ids(toMain[k]) = {}
PendingFresh == \A e \in Pending : Fresh(e) /\ ~Sent(e)

RetainedLive == \A o \in retained : Live(o.execId)
ReachableRetained ==
  /\ held \ {FirstHandle} \subseteq retained
  /\ ctx \in ExecIds => Ctx(ctx) \in retained
  /\ ctx = FirstScreen => first.isFirstScreen
Objs(e) == {o \in retained : o.execId = e}
RefsCounted == \A e \in ExecIds : refCount[e] = Cardinality(Objs(e))

\* Calls wait for the end of a render or for hydration; the attribute changes then.
DelayedUntilSent == delayedData # <<>> => (~patching \/ rendering \/ hydrating)
UpdateInRender == update # Unchanged => patching /\ (rendering \/ hydrating)
PhaseInv == DelayedUntilSent /\ UpdateInRender

\* No call of a function that waits to be sent has overtaken it.
Orderly == replayed = {} \/ "repeats" \notin app

CallsLive ==
  \A n \in 1..Len(toBackground) :
    toBackground[n].type = "runOnBackground" =>
      \A e \in toBackground[n].execIds : LiveUntil(e, n)
NoneMissed == "longRunning" \notin app => CallsLive /\ missed = {}

ContextInv ==
  /\ IdsKnown /\ SentFresh /\ SentOnce /\ PendingFresh
  /\ RetainedLive /\ ReachableRetained /\ RefsCounted
  /\ NoneMissed

LEMMA PhaseInitial == Init => PhaseInv
  BY DEF Init, PhaseInv, DelayedUntilSent, UpdateInRender

LEMMA PhaseInductive == TypeOK /\ PhaseInv /\ [Next]_vars => PhaseInv'
<1> SUFFICES ASSUME TypeOK, PhaseInv, [Next]_vars PROVE PhaseInv'
  OBVIOUS
<1>p. /\ delayedData # <<>> => (~patching \/ rendering \/ hydrating)
      /\ update # Unchanged => patching /\ (rendering \/ hydrating)
      /\ hydrating => patching /\ ~rendering
  BY DEF PhaseInv, DelayedUntilSent, UpdateInRender, TypeOK
<1>0. ASSUME UNCHANGED <<patching, rendering, hydrating, update, delayedData>> PROVE PhaseInv'
  BY <1>p, <1>0 DEF PhaseInv, DelayedUntilSent, UpdateInRender
<1>1. CASE BeginRender
  BY <1>p, <1>1 DEF BeginRender, PhaseInv, DelayedUntilSent, UpdateInRender
<1>2. CASE Commit
  BY <1>p, <1>2 DEF Commit, PhaseInv, DelayedUntilSent, UpdateInRender
<1>3. CASE CommitHydration
  BY <1>3 DEF CommitHydration, PhaseInv, DelayedUntilSent, UpdateInRender
<1>4. CASE runOnMainThread
  <2>1. CASE shouldDispatchDirectly
    BY <1>0, <1>4, <2>1 DEF runOnMainThread
  <2>2. CASE ~shouldDispatchDirectly
    BY <1>p, <1>4, <2>2
    DEF runOnMainThread, shouldDispatchDirectly, PhaseInv, DelayedUntilSent, UpdateInRender
  <2>. QED
    BY <2>1, <2>2
<1>5. ASSUME NEW f \in BOOLEAN, SetAttribute(f) PROVE PhaseInv'
  BY <1>p, <1>5 DEF SetAttribute, PhaseInv, DelayedUntilSent, UpdateInRender
<1>6. CASE Hydrate
  BY <1>6 DEF Hydrate, PhaseInv, DelayedUntilSent, UpdateInRender
<1>7. CASE runBackgroundFunction \/ releaseBackgroundFunctionCtx \/ MainCallReturns
  BY <1>0, <1>7 DEF runBackgroundFunction, releaseBackgroundFunctionCtx, MainCallReturns
<1>8. CASE \/ RunHandler \/ \E h \in held : runOnBackground(h) \/ EndRun(h)
           \/ \E S \in SUBSET retained : Collect(S)
           \/ updateMainThread \/ BackgroundCallReturns
  BY <1>0, <1>8 DEF RunHandler, runOnBackground, EndRun, Collect, updateMainThread,
                    BackgroundCallReturns, bgVars
<1>9. CASE UNCHANGED vars
  BY <1>0, <1>9 DEF vars, bgVars
<1>. QED
  BY <1>1, <1>2, <1>3, <1>4, <1>5, <1>6, <1>7, <1>8, <1>9 DEF Next, Receive

\* The calls that wait, after a step that adds none to them.
LEMMA NoneAdded ==
  ASSUME TypeOK, UNCHANGED <<app, delayedData>>, fnExecId' = fnExecId \/ "repeats" \notin app
  PROVE  Waiting' = Waiting
<1>1. DelayedCalls' = DelayedCalls
  BY DEF DelayedCalls
<1>. QED
  BY <1>1 DEF Waiting

LEMMA NoneWaiting ==
  ASSUME delayedData = <<>>
  PROVE  Waiting = {}
  BY DEF Waiting, DelayedCalls

\* ... and after one more call.
LEMMA OneAdded ==
  ASSUME TypeOK, UNCHANGED app, NEW n, delayedData' = Append(delayedData, Call(fnExecId', n)),
         Call(fnExecId', n) \in Calls
  PROVE  Waiting' \subseteq Waiting \cup {fnExecId'} /\ fnExecId' \in Waiting'
         /\ ("repeats" \notin app => Waiting \subseteq Waiting')
<1>1. /\ DOMAIN delayedData' = DOMAIN delayedData \cup {Len(delayedData) + 1}
      /\ \A k \in DOMAIN delayedData : delayedData'[k] = delayedData[k]
      /\ delayedData'[Len(delayedData) + 1] = Call(fnExecId', n)
  BY DEF TypeOK
<1>2. DOMAIN DelayedCalls = DOMAIN delayedData /\ DOMAIN DelayedCalls' = DOMAIN delayedData'
  BY DEF DelayedCalls
<1>3. \A e : Call(e, n).execId = e /\ \A x : Call(e, x).execId = e
  BY DEF Call
<1>4. Len(delayedData) + 1 \in DOMAIN DelayedCalls'
      /\ DelayedCalls'[Len(delayedData) + 1].execId = fnExecId'
  BY <1>1, <1>2, <1>3 DEF DelayedCalls
<1>5. \A k \in DOMAIN DelayedCalls :
        /\ k \in DOMAIN DelayedCalls'
        /\ IF "repeats" \in app THEN DelayedCalls'[k].execId = fnExecId'
           ELSE DelayedCalls'[k].execId = DelayedCalls[k].execId
  BY <1>1, <1>2, <1>3 DEF DelayedCalls
<1>6. \A k \in DOMAIN DelayedCalls' : k \in DOMAIN DelayedCalls \/ k = Len(delayedData) + 1
  BY <1>1, <1>2
<1>. QED
  BY <1>4, <1>5, <1>6 DEF Waiting

LEMMA ContextInitial == Init => ContextInv
<1> SUFFICES ASSUME Init PROVE ContextInv
  OBVIOUS
<1>1. /\ Len(toBackground) = 1 /\ toBackground[1] = FirstScreenMsg /\ Len(toMain) = 0
      /\ execIdMap = {} /\ retained = {} /\ held = {} /\ ctx = FirstScreen
      /\ first.isFirstScreen /\ delayedData = <<>> /\ update = Unchanged /\ missed = {}
  BY DEF Init
<1>w. Waiting = {}
  BY <1>1, NoneWaiting
<1>2. refCount = [e \in ExecIds |-> 0]
  BY DEF Init
<1>3. \A e : Objs(e) = {}
  BY <1>1 DEF Objs
<1>4. RefsCounted
  BY <1>2, <1>3, FS_EmptySet DEF RefsCounted
<1>5. IdsKnown /\ CallsLive
  BY <1>1 DEF IdsKnown, CallsLive, Releases, FirstScreenMsg
<1>6. SentFresh /\ SentOnce
  BY <1>1 DEF SentFresh, SentOnce, Sent
<1>7. PendingFresh
  BY <1>1, <1>w, ConstantsAssumption DEF PendingFresh, Pending, Unchanged, ExecIds
<1>8. RetainedLive /\ ReachableRetained
  BY <1>1 DEF RetainedLive, ReachableRetained, ExecIds, FirstScreen
<1>9. NoneMissed
  BY <1>1, <1>5 DEF NoneMissed
<1>. QED
  BY <1>4, <1>5, <1>6, <1>7, <1>8, <1>9 DEF ContextInv

\* A step of the background thread that takes no message and forgets no context.
LEMMA NothingTaken ==
  ASSUME TypeOK, IdsKnown, UNCHANGED toBackground,
         lastIndex <= lastIndex', lastIndex' \in Nat,
         execIdMap \subseteq execIdMap', execIdMap' \subseteq execIdMap \cup {lastIndex'}
  PROVE  /\ IdsKnown' /\ (CallsLive => CallsLive')
         /\ \A e : Live(e) => Live(e)'
<1>1. lastIndex \in Nat /\ execIdMap \subseteq Nat
  BY ConstantsAssumption DEF TypeOK, ExecIds
<1>2. \A n \in 1..Len(toBackground) : Releases(n) => toBackground[n].execIds \subseteq Nat
  <2>1. ASSUME NEW n \in 1..Len(toBackground), Releases(n)
        PROVE  toBackground[n].execIds \subseteq Nat
    <3>1. toBackground[n] \in BackgroundMessages
      BY ElementOfSeq DEF TypeOK
    <3>. QED
      BY <2>1, <3>1 DEF BackgroundMessages, FirstScreenMsg, Releases, ExecIds
  <2>. QED
    BY <2>1
<1>3. IdsKnown'
  BY <1>1, <1>2 DEF IdsKnown, Releases
<1>4. \A e : Live(e) => Live(e)'
  BY DEF Live, Releases
<1>5. CallsLive => CallsLive'
  BY DEF CallsLive, LiveUntil, Releases
<1>. QED
  BY <1>3, <1>4, <1>5

\* A step that takes a message: contexts are forgotten only if it is their release.
LEMMA MessageTaken ==
  ASSUME TypeOK, IdsKnown, toBackground # <<>>, toBackground' = Tail(toBackground),
         lastIndex <= lastIndex', lastIndex' \in Nat,
         \A e \in execIdMap :
           (Head(toBackground).type = "releaseBackgroundWorkletCtx"
              => e \notin Head(toBackground).execIds) => e \in execIdMap',
         execIdMap' \subseteq execIdMap \cup {lastIndex'}
  PROVE  /\ IdsKnown' /\ (CallsLive => CallsLive')
         /\ \A e : Live(e) => Live(e)'
<1>1. lastIndex \in Nat /\ execIdMap \subseteq Nat
  BY ConstantsAssumption DEF TypeOK, ExecIds
<1>2. \A n \in 1..Len(toBackground) : Releases(n) => toBackground[n].execIds \subseteq Nat
  <2>1. ASSUME NEW n \in 1..Len(toBackground), Releases(n)
        PROVE  toBackground[n].execIds \subseteq Nat
    <3>1. toBackground[n] \in BackgroundMessages
      BY ElementOfSeq DEF TypeOK
    <3>. QED
      BY <2>1, <3>1 DEF BackgroundMessages, FirstScreenMsg, Releases, ExecIds
  <2>. QED
    BY <2>1
<1>3. /\ Len(toBackground) \in Nat \ {0} /\ Len(toBackground') = Len(toBackground) - 1
      /\ \A n \in 1..Len(toBackground') :
           n + 1 \in 1..Len(toBackground) /\ toBackground'[n] = toBackground[n + 1]
  <2>1. toBackground \in Seq(BackgroundMessages)
    BY DEF TypeOK
  <2>2. Len(toBackground) \in Nat \ {0}
    BY <2>1, EmptySeq
  <2>3. Len(toBackground') = Len(toBackground) - 1
    BY <2>1, <2>2, HeadTailProperties
  <2>4. \A n \in 1..Len(Tail(toBackground)) : Tail(toBackground)[n] = toBackground[n + 1]
    BY <2>1, <2>2, HeadTailProperties
  <2>. QED
    BY <2>2, <2>3, <2>4
<1>4. Head(toBackground) = toBackground[1] /\ 1 \in 1..Len(toBackground)
  BY <1>3 DEF TypeOK
<1>5. ASSUME NEW n \in 1..Len(toBackground')
      PROVE  Releases(n)' <=> Releases(n + 1)
  <2>1. toBackground'[n] = toBackground[n + 1]
    BY <1>3
  <2>. QED
    BY <2>1 DEF Releases
<1>6. IdsKnown'
  <2>1. ASSUME NEW e \in execIdMap' PROVE e <= lastIndex'
    <3>1. CASE e \in execIdMap
      <4>1. e \in Nat /\ e <= lastIndex
        BY <1>1, <3>1 DEF IdsKnown
      <4>. QED
        BY <1>1, <4>1
    <3>2. CASE e = lastIndex'
      BY <3>2
    <3>. QED
      BY <3>1, <3>2
  <2>2. ASSUME NEW n \in 1..Len(toBackground'), Releases(n)', NEW e \in toBackground'[n].execIds
        PROVE  e <= lastIndex'
    <3>1. n + 1 \in 1..Len(toBackground) /\ Releases(n + 1) /\ e \in toBackground[n + 1].execIds
      BY <1>3, <1>5, <2>2
    <3>2. e \in Nat /\ e <= lastIndex
      BY <1>2, <3>1 DEF IdsKnown
    <3>. QED
      BY <1>1, <3>2
  <2>. QED
    BY <2>1, <2>2 DEF IdsKnown
<1>7. ASSUME NEW e, Live(e) PROVE Live(e)'
  <2>1. e \in execIdMap /\ (Releases(1) => e \notin toBackground[1].execIds)
    BY <1>4, <1>7 DEF Live
  <2>2. e \in execIdMap'
    BY <1>4, <2>1 DEF Releases
  <2>3. ASSUME NEW n \in 1..Len(toBackground'), Releases(n)'
        PROVE  e \notin toBackground'[n].execIds
    BY <1>3, <1>5, <1>7, <2>3 DEF Live
  <2>. QED
    BY <2>2, <2>3 DEF Live
<1>8. ASSUME CallsLive PROVE CallsLive'
  <2> SUFFICES ASSUME NEW n \in 1..Len(toBackground'), toBackground'[n].type = "runOnBackground",
                      NEW e \in toBackground'[n].execIds
               PROVE  LiveUntil(e, n)'
    BY DEF CallsLive
  <2>1. n \in Nat /\ n + 1 \in 1..Len(toBackground) /\ LiveUntil(e, n + 1)
    BY <1>3, <1>8 DEF CallsLive
  <2>2. e \in execIdMap
    BY <2>1 DEF LiveUntil
  <2>3. Releases(1) => e \notin toBackground[1].execIds
    <3>1. 1 < n + 1
      BY <1>3
    <3>. QED
      BY <1>4, <2>1, <3>1 DEF LiveUntil
  <2>4. e \in execIdMap'
    BY <1>4, <2>2, <2>3 DEF Releases
  <2>5. ASSUME NEW k \in 1..Len(toBackground'), k < n, Releases(k)'
        PROVE  e \notin toBackground'[k].execIds
    <3>1. k + 1 \in 1..Len(toBackground) /\ Releases(k + 1) /\ k + 1 < n + 1
      BY <1>3, <1>5, <2>5
    <3>2. e \notin toBackground[k + 1].execIds
      BY <2>1, <3>1 DEF LiveUntil
    <3>. QED
      BY <1>3, <3>2
  <2>. QED
    BY <2>4, <2>5 DEF LiveUntil
<1>. QED
  BY <1>6, <1>7, <1>8

\* A step that sends messages, none of them a release.
LEMMA MessagesAdded ==
  ASSUME TypeOK, IdsKnown, UNCHANGED <<execIdMap, lastIndex>>,
         NEW d \in Seq(BackgroundMessages), toBackground' = toBackground \o d,
         \A n \in 1..Len(d) : d[n].type # "releaseBackgroundWorkletCtx"
  PROVE  /\ IdsKnown'
         /\ \A e : Live(e) => Live(e)'
         /\ CallsLive /\ (\A n \in 1..Len(d) : d[n].type = "runOnBackground" =>
                            \A e \in d[n].execIds : Live(e))
              => CallsLive'
<1>1. /\ Len(toBackground) \in Nat /\ Len(d) \in Nat
      /\ Len(toBackground') = Len(toBackground) + Len(d)
      /\ \A n \in 1..Len(toBackground') :
           IF n <= Len(toBackground)
           THEN n \in 1..Len(toBackground) /\ toBackground'[n] = toBackground[n]
           ELSE n - Len(toBackground) \in 1..Len(d)
                /\ toBackground'[n] = d[n - Len(toBackground)]
  <2>1. toBackground \in Seq(BackgroundMessages)
    BY DEF TypeOK
  <2>2. Len(toBackground) \in Nat /\ Len(d) \in Nat
    BY <2>1
  <2>3. Len(toBackground \o d) = Len(toBackground) + Len(d)
    BY <2>1, ConcatProperties
  <2>4. \A n \in 1..(Len(toBackground) + Len(d)) :
          (toBackground \o d)[n] =
            IF n <= Len(toBackground) THEN toBackground[n] ELSE d[n - Len(toBackground)]
    BY <2>1, ConcatProperties
  <2>. QED
    BY <2>2, <2>3, <2>4
<1>2. ASSUME NEW n \in 1..Len(toBackground'), Releases(n)'
      PROVE  n \in 1..Len(toBackground) /\ Releases(n) /\ toBackground'[n] = toBackground[n]
  <2>1. CASE n <= Len(toBackground)
    BY <1>1, <1>2, <2>1 DEF Releases
  <2>2. CASE ~(n <= Len(toBackground))
    BY <1>1, <1>2, <2>2 DEF Releases
  <2>. QED
    BY <2>1, <2>2
<1>3. IdsKnown'
  BY <1>2 DEF IdsKnown
<1>4. ASSUME NEW e, Live(e) PROVE Live(e)'
  BY <1>2, <1>4 DEF Live
<1>5. ASSUME CallsLive, \A n \in 1..Len(d) : d[n].type = "runOnBackground" =>
                           \A e \in d[n].execIds : Live(e)
      PROVE  CallsLive'
  <2> SUFFICES ASSUME NEW n \in 1..Len(toBackground'), toBackground'[n].type = "runOnBackground",
                      NEW e \in toBackground'[n].execIds
               PROVE  LiveUntil(e, n)'
    BY DEF CallsLive
  <2>1. CASE n <= Len(toBackground)
    <3>1. LiveUntil(e, n)
      BY <1>1, <1>5, <2>1 DEF CallsLive
    <3>. QED
      BY <1>2, <3>1 DEF LiveUntil
  <2>2. CASE ~(n <= Len(toBackground))
    <3>1. Live(e)'
      BY <1>1, <1>4, <1>5, <2>2
    <3>. QED
      BY <3>1 DEF Live, LiveUntil
  <2>. QED
    BY <2>1, <2>2
<1>. QED
  BY <1>3, <1>4, <1>5

\* A message is sent to the main thread.
LEMMA SentAdded ==
  ASSUME TypeOK, SentOnce, NEW m \in MainMessages, toMain' = Append(toMain, m),
         \A e \in Ids(m) : ~Sent(e)
  PROVE  SentOnce' /\ \A e : Sent(e)' => Sent(e) \/ e \in Ids(m)
<1>1. /\ Len(toMain) \in Nat /\ Len(toMain') = Len(toMain) + 1
      /\ toMain'[Len(toMain) + 1] = m
      /\ \A n \in 1..Len(toMain) : toMain'[n] = toMain[n]
  <2>1. toMain \in Seq(MainMessages)
    BY DEF TypeOK
  <2>2. Len(toMain) \in Nat
    BY <2>1
  <2>. QED
    BY <2>1, <2>2, AppendProperties
<1>2. ASSUME NEW n \in 1..Len(toMain')
      PROVE  \/ n \in 1..Len(toMain) /\ Ids(toMain'[n]) = Ids(toMain[n])
             \/ n = Len(toMain) + 1 /\ Ids(toMain'[n]) = Ids(m)
  BY <1>1
<1>3. \A e : Sent(e)' => Sent(e) \/ e \in Ids(m)
  BY <1>2 DEF Sent
<1>4. ASSUME NEW n \in 1..Len(toMain'), NEW k \in 1..Len(toMain'), n # k
      PROVE  Ids(toMain'[n]) \cap Ids(toMain'[k]) = {}
  <2>1. CASE n \in 1..Len(toMain) /\ k \in 1..Len(toMain)
    BY <1>1, <1>4, <2>1 DEF SentOnce
  <2>2. CASE n = Len(toMain) + 1 /\ k \in 1..Len(toMain)
    BY <1>1, <2>2 DEF Sent
  <2>3. CASE k = Len(toMain) + 1 /\ n \in 1..Len(toMain)
    BY <1>1, <2>3 DEF Sent
  <2>. QED
    BY <1>2, <1>4, <2>1, <2>2, <2>3
<1>. QED
  BY <1>3, <1>4 DEF SentOnce

\* The main thread takes a message.
LEMMA SentTaken ==
  ASSUME TypeOK, SentOnce, toMain # <<>>, toMain' = Tail(toMain)
  PROVE  /\ SentOnce' /\ \A e \in Ids(Head(toMain)) : Sent(e)
         /\ \A e : Sent(e)' => Sent(e) /\ e \notin Ids(Head(toMain))
<1>1. /\ Len(toMain) \in Nat \ {0} /\ Len(toMain') = Len(toMain) - 1
      /\ Head(toMain) = toMain[1] /\ 1 \in 1..Len(toMain)
      /\ \A n \in 1..Len(toMain') :
           n + 1 \in 1..Len(toMain) /\ toMain'[n] = toMain[n + 1]
  <2>1. toMain \in Seq(MainMessages)
    BY DEF TypeOK
  <2>2. Len(toMain) \in Nat \ {0}
    BY <2>1, EmptySeq
  <2>3. Len(toMain') = Len(toMain) - 1
    BY <2>1, HeadTailProperties
  <2>4. \A n \in 1..Len(Tail(toMain)) : Tail(toMain)[n] = toMain[n + 1]
    BY <2>1, HeadTailProperties
  <2>5. Head(toMain) = toMain[1]
    BY <2>1, <2>2
  <2>. QED
    BY <2>2, <2>3, <2>4, <2>5
<1>2. \A e \in Ids(Head(toMain)) : Sent(e)
  BY <1>1 DEF Sent
<1>3. ASSUME NEW e, Sent(e)' PROVE Sent(e) /\ e \notin Ids(Head(toMain))
  <2>1. PICK n \in 1..Len(toMain') : e \in Ids(toMain'[n])
    BY <1>3 DEF Sent
  <2>2. n + 1 \in 1..Len(toMain) /\ e \in Ids(toMain[n + 1]) /\ n + 1 # 1
    BY <1>1, <2>1
  <2>3. Sent(e)
    BY <2>2 DEF Sent
  <2>4. Ids(toMain[n + 1]) \cap Ids(toMain[1]) = {}
    BY <1>1, <2>2 DEF SentOnce
  <2>. QED
    BY <1>1, <2>2, <2>3, <2>4
<1>4. SentOnce'
  <2>1. ASSUME NEW n \in 1..Len(toMain'), NEW k \in 1..Len(toMain'), n # k
        PROVE  Ids(toMain'[n]) \cap Ids(toMain'[k]) = {}
    <3>1. /\ n + 1 \in 1..Len(toMain) /\ k + 1 \in 1..Len(toMain) /\ n + 1 # k + 1
          /\ toMain'[n] = toMain[n + 1] /\ toMain'[k] = toMain[k + 1]
      BY <1>1, <2>1
    <3>. QED
      BY <3>1 DEF SentOnce
  <2>. QED
    BY <2>1 DEF SentOnce
<1>. QED
  BY <1>2, <1>3, <1>4

\* A new context.
LEMMA NewContext ==
  ASSUME TypeOK, ContextInv, register, NEW new, new = lastIndex + 1,
         \/ UNCHANGED toBackground
         \/ toBackground # <<>> /\ toBackground' = Tail(toBackground)
  PROVE  /\ new \in ExecIds /\ new \notin execIdMap
         /\ ~Sent(new) /\ new \notin Pending
         /\ \A o \in retained : o.execId # new
         /\ Live(new)'
<1>1. /\ lastIndex \in Nat /\ new \in ExecIds
      /\ execIdMap' = execIdMap \cup {new}
  BY ConstantsAssumption, RegisterType DEF TypeOK, register
<1>2. new \notin execIdMap
  BY <1>1 DEF ContextInv, IdsKnown
<1>3. ~Live(new)
  BY <1>2 DEF Live
<1>4. ~Sent(new) /\ new \notin Pending
  BY <1>1, <1>3 DEF ContextInv, SentFresh, PendingFresh, Fresh
<1>5. \A o \in retained : o.execId # new
  BY <1>3 DEF ContextInv, RetainedLive
<1>6. \A n \in 1..Len(toBackground) : Releases(n) => new \notin toBackground[n].execIds
  BY <1>1 DEF ContextInv, IdsKnown
<1>7. Live(new)'
  <2>1. new \in execIdMap'
    BY <1>1
  <2>2. CASE UNCHANGED toBackground
    <3>1. ASSUME NEW n \in 1..Len(toBackground'), Releases(n)'
          PROVE  new \notin toBackground'[n].execIds
      BY <1>6, <2>2, <3>1 DEF Releases
    <3>. QED
      BY <2>1, <3>1 DEF Live
  <2>3. CASE toBackground # <<>> /\ toBackground' = Tail(toBackground)
    <3>1. toBackground \in Seq(BackgroundMessages) /\ Len(toBackground) \in Nat \ {0}
      BY <2>3, EmptySeq DEF TypeOK
    <3>2. /\ Len(toBackground') = Len(toBackground) - 1
          /\ \A n \in 1..Len(toBackground') : toBackground'[n] = toBackground[n + 1]
      BY <2>3, <3>1, HeadTailProperties
    <3>3. ASSUME NEW n \in 1..Len(toBackground'), Releases(n)'
          PROVE  new \notin toBackground'[n].execIds
      <4>1. n + 1 \in 1..Len(toBackground) /\ toBackground'[n] = toBackground[n + 1]
        BY <3>1, <3>2
      <4>2. Releases(n + 1)
        BY <3>3, <4>1 DEF Releases
      <4>. QED
        BY <1>6, <4>1, <4>2
    <3>. QED
      BY <2>1, <3>3 DEF Live
  <2>. QED
    BY <2>2, <2>3
<1>. QED
  BY <1>1, <1>2, <1>4, <1>5, <1>7

\* What no step of the background thread disturbs.
LEMMA BackgroundKeeps ==
  ASSUME TypeOK, TypeOK', ContextInv,
         \/ BeginRender \/ Commit \/ CommitHydration \/ runOnMainThread
         \/ \E f \in BOOLEAN : SetAttribute(f)
         \/ Hydrate \/ runBackgroundFunction \/ releaseBackgroundFunctionCtx \/ MainCallReturns
  PROVE  /\ IdsKnown' /\ RetainedLive' /\ ReachableRetained' /\ RefsCounted' /\ NoneMissed'
         /\ UNCHANGED retained /\ \A e : Fresh(e) => Fresh(e)'
<1>1. UNCHANGED <<app, mainVars>>
  BY DEF BeginRender, Commit, CommitHydration, runOnMainThread, SetAttribute, Hydrate,
         runBackgroundFunction, releaseBackgroundFunctionCtx, MainCallReturns
<1>2. UNCHANGED <<app, ctx, first, held, retained, refCount>>
  BY <1>1 DEF mainVars
<1>3. lastIndex \in Nat /\ lastIndex' \in Nat
  BY ConstantsAssumption DEF TypeOK
<1>4. CASE \/ BeginRender \/ Commit \/ CommitHydration \/ runOnMainThread
           \/ \E f \in BOOLEAN : SetAttribute(f)
  <2>1. UNCHANGED <<toBackground, missed>>
    BY <1>4 DEF BeginRender, Commit, CommitHydration, runOnMainThread, SetAttribute
  <2>2. register \/ UNCHANGED <<execIdMap, lastIndex>>
    BY <1>4 DEF BeginRender, Commit, CommitHydration, runOnMainThread, SetAttribute
  <2>3. /\ lastIndex <= lastIndex' /\ execIdMap \subseteq execIdMap'
        /\ execIdMap' \subseteq execIdMap \cup {lastIndex'}
    BY <1>3, <2>2 DEF register
  <2>4. IdsKnown' /\ (CallsLive => CallsLive') /\ \A e : Live(e) => Live(e)'
    BY <1>3, <2>1, <2>3, NothingTaken DEF ContextInv
  <2>. QED
    BY <1>2, <2>1, <2>4 DEF ContextInv, RetainedLive, ReachableRetained, RefsCounted, Objs,
                            NoneMissed, Fresh
<1>5. CASE Hydrate \/ runBackgroundFunction \/ releaseBackgroundFunctionCtx \/ MainCallReturns
  <2>1. toBackground # <<>> /\ toBackground' = Tail(toBackground)
    BY <1>5 DEF Hydrate, runBackgroundFunction, releaseBackgroundFunctionCtx, MainCallReturns,
                Next2Background
  <2>2. \/ register
        \/ UNCHANGED <<execIdMap, lastIndex>>
        \/ /\ Head(toBackground).type = "releaseBackgroundWorkletCtx"
           /\ execIdMap' = execIdMap \ Head(toBackground).execIds /\ UNCHANGED lastIndex
    BY <1>5 DEF Hydrate, runBackgroundFunction, releaseBackgroundFunctionCtx, MainCallReturns,
                Next2Background
  <2>3. /\ lastIndex <= lastIndex' /\ execIdMap' \subseteq execIdMap \cup {lastIndex'}
        /\ \A e \in execIdMap :
             (Head(toBackground).type = "releaseBackgroundWorkletCtx"
                => e \notin Head(toBackground).execIds) => e \in execIdMap'
    <3>1. CASE register
      BY <1>3, <3>1 DEF register
    <3>2. CASE UNCHANGED <<execIdMap, lastIndex>>
      BY <1>3, <3>2
    <3>3. CASE /\ Head(toBackground).type = "releaseBackgroundWorkletCtx"
               /\ execIdMap' = execIdMap \ Head(toBackground).execIds /\ UNCHANGED lastIndex
      BY <1>3, <3>3
    <3>. QED
      BY <2>2, <3>1, <3>2, <3>3
  <2>4. IdsKnown' /\ (CallsLive => CallsLive') /\ \A e : Live(e) => Live(e)'
    BY <1>3, <2>1, <2>3, MessageTaken DEF ContextInv
  <2>5. ASSUME CallsLive, missed = {} PROVE missed' = {}
    <3>1. CASE runBackgroundFunction
      <4>1. Head(toBackground) = toBackground[1] /\ 1 \in 1..Len(toBackground)
        BY <2>1, EmptySeq DEF TypeOK
      <4>2. toBackground[1].type = "runOnBackground"
        BY <3>1, <4>1 DEF runBackgroundFunction, Next2Background
      <4>3. \A e \in toBackground[1].execIds : e \in execIdMap
        BY <2>5, <4>1, <4>2 DEF CallsLive, LiveUntil
      <4>. QED
        BY <2>5, <3>1, <4>1, <4>3 DEF runBackgroundFunction
    <3>2. CASE ~runBackgroundFunction
      BY <1>5, <2>5, <3>2 DEF Hydrate, releaseBackgroundFunctionCtx, MainCallReturns
    <3>. QED
      BY <3>1, <3>2
  <2>6. NoneMissed'
    BY <1>2, <2>4, <2>5 DEF ContextInv, NoneMissed
  <2>. QED
    BY <1>2, <2>4, <2>6 DEF ContextInv, RetainedLive, ReachableRetained, RefsCounted, Objs, Fresh
<1>. QED
  BY <1>4, <1>5

\* What a message with delayed calls names.
LEMMA IdsOfDelayed ==
  ASSUME NEW h \in BOOLEAN, NEW v
  PROVE  Ids(Patch(h, v, DelayedCalls)) = ({v} \cup Waiting) \cap ExecIds
  BY DEF Ids, Patch, Waiting

\* The numbers that stand for no context are no exec ids.
LEMMA NoContext == {Unchanged, Nothing, FirstScreen} \cap ExecIds = {}
  BY ConstantsAssumption DEF Unchanged, Nothing, FirstScreen, ExecIds

LEMMA IdsOfCall ==
  ASSUME NEW e \in ExecIds, NEW n
  PROVE  Ids(RunWorkletCtx(e, n)) = {e}
<1>1. /\ DOMAIN RunWorkletCtx(e, n).calls = {1} /\ RunWorkletCtx(e, n).calls[1].execId = e
      /\ RunWorkletCtx(e, n).value = Unchanged
  BY DEF RunWorkletCtx, Call
<1>. QED
  BY <1>1, NoContext DEF Ids

LEMMA IdsOfReturn ==
  ASSUME NEW n
  PROVE  Ids(ReturnToMain(n)) = {}
<1>1. /\ DOMAIN ReturnToMain(n).calls = {1} /\ ReturnToMain(n).calls[1].execId = 0
      /\ ReturnToMain(n).value = Unchanged
  BY DEF ReturnToMain, Call
<1>2. 0 \notin ExecIds
  BY ConstantsAssumption DEF ExecIds
<1>. QED
  BY <1>1, <1>2, NoContext DEF Ids

\* Steps after which every context that was fresh is, and nothing new is sent or waits.
LEMMA NothingNew ==
  ASSUME ContextInv, \A e : Fresh(e) => Fresh(e)', SentOnce',
         \A e : Sent(e)' => Sent(e), Pending' \subseteq Pending
  PROVE  SentFresh' /\ SentOnce' /\ PendingFresh'
  BY DEF ContextInv, SentFresh, PendingFresh

LEMMA BackgroundContextInductive ==
  ASSUME TypeOK, TypeOK', PhaseInv, Orderly', ContextInv,
         \/ BeginRender \/ Commit \/ CommitHydration \/ runOnMainThread
         \/ \E f \in BOOLEAN : SetAttribute(f)
         \/ Hydrate \/ runBackgroundFunction \/ releaseBackgroundFunctionCtx \/ MainCallReturns
  PROVE  ContextInv'
<1>1. /\ IdsKnown' /\ RetainedLive' /\ ReachableRetained' /\ RefsCounted' /\ NoneMissed'
      /\ UNCHANGED retained /\ \A e : Fresh(e) => Fresh(e)'
  BY BackgroundKeeps
<1>2. SUFFICES SentFresh' /\ SentOnce' /\ PendingFresh'
  BY <1>1 DEF ContextInv
<1>3. ASSUME UNCHANGED toMain PROVE SentOnce' /\ \A e : Sent(e)' => Sent(e)
  BY <1>3 DEF ContextInv, SentOnce, Sent
<1>4. CASE BeginRender
  <2>1. UNCHANGED <<app, toMain, update, delayedData, fnExecId>>
    BY <1>4 DEF BeginRender
  <2>2. UNCHANGED Pending
    BY <2>1, NoneAdded DEF Pending
  <2>. QED
    BY <1>1, <1>3, <2>1, <2>2, NothingNew
<1>s. ASSUME NEW h \in BOOLEAN, Patch(h, update, DelayedCalls) \in MainMessages,
             toMain' = Append(toMain, Patch(h, update, DelayedCalls)), update' = Unchanged,
             delayedData' = <<>>
      PROVE  SentFresh' /\ SentOnce' /\ PendingFresh'
  <2> DEFINE m == Patch(h, update, DelayedCalls)
  <2>1. m \in MainMessages /\ Ids(m) = Pending
    BY <1>s, IdsOfDelayed DEF Pending
  <2>2. Pending' = {}
    BY <1>s, NoneWaiting, NoContext DEF Pending, Waiting, DelayedCalls
  <2>3. SentOnce' /\ \A e : Sent(e)' => Sent(e) \/ e \in Pending
    <3>1. \A e \in Ids(m) : ~Sent(e)
      BY <2>1 DEF ContextInv, PendingFresh
    <3>2. toMain' = Append(toMain, m)
      BY <1>s
    <3> HIDE DEF m
    <3>. QED
      BY <2>1, <3>1, <3>2, SentAdded DEF ContextInv
  <2>4. SentFresh'
    BY <1>1, <2>3 DEF ContextInv, SentFresh, PendingFresh
  <2>5. PendingFresh'
    BY <2>2 DEF PendingFresh
  <2>. QED
    BY <2>3, <2>4, <2>5
<1>5a. CASE CommitHydration
  <2>1. Patch(TRUE, update, DelayedCalls) \in MainMessages
    BY <1>5a, MainMessageTypes, DelayedCallsType DEF CommitHydration, TypeOK
  <2>. QED
    BY <1>5a, <1>s, <2>1 DEF CommitHydration
<1>5. CASE Commit
  <2>1. CASE ~patching
    <3>1. UNCHANGED <<app, toMain, update, delayedData, fnExecId>>
      BY <1>5, <2>1 DEF Commit
    <3>2. UNCHANGED Pending
      BY <3>1, NoneAdded DEF Pending
    <3>. QED
      BY <1>1, <1>3, <2>1, <3>1, <3>2, NothingNew
  <2>2. CASE patching
    <3>1. Patch(FALSE, update, DelayedCalls) \in MainMessages
      BY MainMessageTypes, DelayedCallsType DEF TypeOK
    <3>. QED
      BY <1>5, <1>s, <2>2, <3>1 DEF Commit
  <2>. QED
    BY <2>1, <2>2
<1>6. CASE runOnMainThread
  <2>1. PICK new : new = lastIndex + 1
    OBVIOUS
  <2>2. register /\ fnExecId' = new /\ UNCHANGED <<app, toBackground, update>>
    BY <1>6, <2>1 DEF runOnMainThread
  <2>3. /\ new \in ExecIds /\ ~Sent(new) /\ new \notin Pending /\ Live(new)'
        /\ \A o \in retained : o.execId # new
    BY <2>1, <2>2, NewContext
  <2>4. Fresh(new)'
    BY <1>1, <2>3 DEF Fresh
  <2>n. mCalls' \in MainCalls
    BY <1>6, ConstantsAssumption DEF runOnMainThread, TypeOK, MainCalls
  <2>5. CASE shouldDispatchDirectly
    <3>1. UNCHANGED delayedData /\ patching /\ ~rendering
      BY <1>6, <2>5 DEF runOnMainThread, shouldDispatchDirectly
    <3>2. PICK n \in MainCalls : toMain' = Append(toMain, RunWorkletCtx(new, n))
      BY <1>6, <2>2, <2>5, <2>n DEF runOnMainThread
    <3>3. RunWorkletCtx(new, n) \in MainMessages /\ Ids(RunWorkletCtx(new, n)) = {new}
      BY <2>3, <3>2, MainMessageTypes, IdsOfCall
    <3>4. SentOnce' /\ \A e : Sent(e)' => Sent(e) \/ e = new
      BY <2>3, <3>2, <3>3, SentAdded DEF ContextInv
    <3>5. Waiting' \subseteq Waiting
      <4>1. CASE "repeats" \notin app
        BY <2>2, <3>1, <4>1, NoneAdded
      <4>2. CASE "repeats" \in app
        <5>1. replayed' = {}
          BY <2>2, <4>2 DEF Orderly
        <5>2. ~hydrating
          BY <1>6, <5>1 DEF runOnMainThread
        <5>3. delayedData' = <<>>
          BY <3>1, <5>2 DEF PhaseInv, DelayedUntilSent
        <5>. QED
          BY <5>3 DEF Waiting, DelayedCalls
      <4>. QED
        BY <4>1, <4>2
    <3>6. Pending' \subseteq Pending
      BY <2>2, <3>5 DEF Pending
    <3>7. SentFresh' /\ PendingFresh'
      BY <1>1, <2>3, <2>4, <3>4, <3>6 DEF ContextInv, SentFresh, PendingFresh
    <3>. QED
      BY <3>4, <3>7
  <2>6. CASE ~shouldDispatchDirectly
    <3>1. UNCHANGED toMain /\ delayedData' = Append(delayedData, Call(fnExecId', mCalls'))
      BY <1>6, <2>6 DEF runOnMainThread
    <3>2. SentOnce' /\ \A e : Sent(e)' => Sent(e)
      BY <1>3, <3>1
    <3>3. Pending' \subseteq Pending \cup {new}
      <4>1. Call(fnExecId', mCalls') \in Calls
        BY <2>2, <2>3, <2>n DEF Call, Calls
      <4>2. Waiting' \subseteq Waiting \cup {fnExecId'}
        BY <2>2, <3>1, <4>1, OneAdded
      <4>. QED
        BY <2>2, <4>2 DEF Pending
    <3>4. SentFresh' /\ PendingFresh'
      BY <1>1, <2>3, <2>4, <3>2, <3>3 DEF ContextInv, SentFresh, PendingFresh
    <3>. QED
      BY <3>2, <3>4
  <2>. QED
    BY <2>5, <2>6
<1>7. ASSUME NEW f \in BOOLEAN, SetAttribute(f)
      PROVE  SentFresh' /\ SentOnce' /\ PendingFresh'
  <2>1. /\ update = Unchanged /\ UNCHANGED <<app, toMain, toBackground, delayedData, fnExecId>>
    BY <1>7 DEF SetAttribute
  <2>2. SentOnce' /\ \A e : Sent(e)' => Sent(e)
    BY <1>3, <2>1
  <2>3. Waiting' = Waiting
    BY <2>1, NoneAdded
  <2>4. CASE patching /\ f
    <3>1. PICK new : new = lastIndex + 1
      OBVIOUS
    <3>2. register /\ update' = new
      BY <1>7, <2>4, <3>1 DEF SetAttribute
    <3>3. /\ new \in ExecIds /\ ~Sent(new) /\ new \notin Pending /\ Live(new)'
          /\ \A o \in retained : o.execId # new
      BY <2>1, <3>1, <3>2, NewContext
    <3>4. Fresh(new)'
      BY <1>1, <3>3 DEF Fresh
    <3>5. Pending' \subseteq Pending \cup {new}
      BY <2>3, <3>2 DEF Pending
    <3>6. SentFresh' /\ PendingFresh'
      BY <1>1, <2>2, <3>3, <3>4, <3>5 DEF ContextInv, SentFresh, PendingFresh
    <3>. QED
      BY <2>2, <3>6
  <2>5. CASE ~(patching /\ f)
    <3>1. update' \in {Nothing, Unchanged}
      BY <1>7, <2>1, <2>5 DEF SetAttribute
    <3>2. Pending' \subseteq Pending
      BY <2>3, <3>1, NoContext DEF Pending
    <3>. QED
      BY <1>1, <2>2, <3>2, NothingNew
  <2>. QED
    BY <2>4, <2>5
<1>8. CASE Hydrate
  <2>1. /\ UNCHANGED <<app, toMain, delayedData, fnExecId>>
        /\ toBackground # <<>> /\ toBackground' = Tail(toBackground)
    BY <1>8 DEF Hydrate, Next2Background
  <2>2. Waiting' = Waiting
    BY <2>1, NoneAdded
  <2>3. SentOnce' /\ \A e : Sent(e)' => Sent(e)
    BY <1>3, <2>1
  <2>4. CASE rendered
    <3>1. PICK new : new = lastIndex + 1
      OBVIOUS
    <3>2. register /\ update' = new
      BY <1>8, <2>4, <3>1 DEF Hydrate
    <3>3. /\ new \in ExecIds /\ ~Sent(new) /\ new \notin Pending /\ Live(new)'
          /\ \A o \in retained : o.execId # new
      BY <2>1, <3>1, <3>2, NewContext
    <3>4. Fresh(new)'
      BY <1>1, <3>3 DEF Fresh
    <3>5. Pending' \subseteq Pending \cup {new}
      BY <2>2, <3>2 DEF Pending
    <3>6. SentFresh' /\ PendingFresh'
      BY <1>1, <2>3, <3>3, <3>4, <3>5 DEF ContextInv, SentFresh, PendingFresh
    <3>. QED
      BY <2>3, <3>6
  <2>5. CASE ~rendered
    <3>1. update' = Nothing
      BY <1>8, <2>5 DEF Hydrate
    <3>2. Pending' \subseteq Pending
      BY <2>2, <3>1, NoContext DEF Pending
    <3>. QED
      BY <1>1, <2>3, <3>2, NothingNew
  <2>. QED
    BY <2>4, <2>5
<1>9. CASE runBackgroundFunction \/ releaseBackgroundFunctionCtx \/ MainCallReturns
  <2>1. UNCHANGED <<app, update, fnExecId, delayedData>>
    BY <1>9 DEF runBackgroundFunction, releaseBackgroundFunctionCtx, MainCallReturns
  <2>2. UNCHANGED Pending
    BY <2>1, NoneAdded DEF Pending
  <2>3. SentOnce' /\ \A e : Sent(e)' => Sent(e)
    <3>1. CASE UNCHANGED toMain
      BY <1>3, <3>1
    <3>2. CASE toMain' # toMain
      <4>1. runBackgroundFunction
        BY <1>9, <3>2 DEF releaseBackgroundFunctionCtx, MainCallReturns
      <4> DEFINE n == Head(toBackground).id
      <4>2. toMain' = Append(toMain, ReturnToMain(n))
        BY <3>2, <4>1 DEF runBackgroundFunction
      <4>3. n \in BackgroundCalls
        <5>1. Head(toBackground) \in BackgroundMessages /\ Head(toBackground).type = "runOnBackground"
          BY <4>1, NextType DEF runBackgroundFunction
        <5>. QED
          BY <5>1 DEF BackgroundMessages, FirstScreenMsg
      <4>4. ReturnToMain(n) \in MainMessages
        BY <4>3, MainMessageTypes
      <4>5. Ids(ReturnToMain(n)) = {}
        BY NoContext, IdsOfReturn
      <4>. QED
        BY <4>2, <4>4, <4>5, SentAdded DEF ContextInv
    <3>. QED
      BY <3>1, <3>2
  <2>. QED
    BY <1>1, <2>2, <2>3, NothingNew
<1>. QED
  BY <1>4, <1>5, <1>5a, <1>6, <1>7, <1>8, <1>9

\* References are added to live contexts.
LEMMA RefsAdded ==
  ASSUME TypeOK, RefsCounted, RetainedLive, NEW S \in SUBSET Objects, addRefs(S),
         \A o \in S : Live(o.execId), \A e : Live(e) => Live(e)'
  PROVE  /\ RefsCounted' /\ RetainedLive' /\ retained' = retained \cup S
         /\ \A e : Fresh(e) /\ (\A o \in S : o.execId # e) => Fresh(e)'
<1> DEFINE New(e) == {o \in NewlyRetained(S) : o.execId = e}
<1>1. retained' = retained \cup S /\ refCount' = [e \in ExecIds |-> refCount[e] + Cardinality(New(e))]
  BY DEF addRefs
<1>2. ASSUME NEW e \in ExecIds PROVE refCount'[e] = Cardinality(Objs(e)')
  <2>1. Objs(e)' = Objs(e) \cup New(e) /\ Objs(e) \cap New(e) = {}
    BY <1>1 DEF Objs, NewlyRetained
  <2>2. IsFiniteSet(Objs(e)) /\ IsFiniteSet(New(e))
    BY ObjectsFinite, FS_Subset DEF Objs, NewlyRetained, TypeOK
  <2>3. Cardinality(Objs(e)) \in Nat /\ Cardinality(New(e)) \in Nat
    BY <2>2, FS_CardinalityType
  <2> HIDE DEF New
  <2>4. Cardinality(Objs(e) \cup New(e)) =
          Cardinality(Objs(e)) + Cardinality(New(e)) - Cardinality(Objs(e) \cap New(e))
    BY <2>2, FS_Union
  <2>5. Cardinality(Objs(e)') = Cardinality(Objs(e)) + Cardinality(New(e))
    <3>1. Cardinality(Objs(e) \cap New(e)) = 0
      BY <2>1, FS_EmptySet
    <3>2. Cardinality(Objs(e)') = Cardinality(Objs(e) \cup New(e))
      BY <2>1
    <3>. QED
      BY <2>3, <2>4, <3>1, <3>2
  <2>6. refCount'[e] = refCount[e] + Cardinality(New(e)) /\ refCount[e] = Cardinality(Objs(e))
    BY <1>1 DEF RefsCounted
  <2>. QED
    BY <2>5, <2>6
<1>3. RefsCounted'
  BY <1>2 DEF RefsCounted
<1>4. RetainedLive'
  <2>1. ASSUME NEW o \in retained' PROVE Live(o.execId)'
    <3>1. PICK e : e = o.execId
      OBVIOUS
    <3>2. Live(e)
      BY <1>1, <3>1 DEF RetainedLive
    <3>3. Live(e)'
      BY <3>2
    <3>. QED
      BY <3>1, <3>3
  <2>. QED
    BY <2>1 DEF RetainedLive
<1>5. \A e : Fresh(e) /\ (\A o \in S : o.execId # e) => Fresh(e)'
  BY <1>1 DEF Fresh
<1>. QED
  BY <1>1, <1>3, <1>4, <1>5

LEMMA CollectKeeps ==
  ASSUME TypeOK, ContextInv, NEW S \in SUBSET retained, Collect(S)
  PROVE  /\ IdsKnown' /\ RetainedLive' /\ RefsCounted' /\ NoneMissed'
         /\ \A e : Fresh(e) => Fresh(e)'
<1> DEFINE toFire == {e \in {o.execId : o \in S} : IsUnreferenced(e, S)}
           Gone(e) == {o \in S : o.execId = e}
<1>1. /\ retained' = retained \ S /\ UNCHANGED <<app, execIdMap, lastIndex, missed>>
      /\ refCount' = [e \in ExecIds |-> Counted(e, S)]
      /\ toBackground' = toBackground \/ toBackground' = Append(toBackground, Release(toFire))
  BY DEF Collect, bgVars
<1>2. S \subseteq Objects /\ toFire \subseteq ExecIds
  BY DEF TypeOK, Objects
<1>3. ASSUME NEW e \in ExecIds PROVE Counted(e, S) = Cardinality(Objs(e)')
  <2>1. Objs(e)' = Objs(e) \ Gone(e) /\ Objs(e) \cap Gone(e) = Gone(e)
    BY <1>1 DEF Objs
  <2>2. IsFiniteSet(Objs(e))
    BY ObjectsFinite, FS_Subset DEF Objs, TypeOK
  <2>3. Counted(e, S) = refCount[e] - Cardinality(Gone(e)) /\ refCount[e] = Cardinality(Objs(e))
    BY DEF Counted, ContextInv, RefsCounted
  <2> HIDE DEF Gone
  <2>4. Cardinality(Objs(e) \ Gone(e)) = Cardinality(Objs(e)) - Cardinality(Objs(e) \cap Gone(e))
    BY <2>2, FS_Difference
  <2>. QED
    BY <2>1, <2>3, <2>4
<1>4. RefsCounted'
  BY <1>1, <1>3 DEF RefsCounted
<1>5. ASSUME NEW o \in retained' PROVE o.execId \notin toFire
  <2>1. o.execId \in ExecIds /\ o \in Objs(o.execId)'
    BY <1>1 DEF TypeOK, Objects, Objs
  <2>2. PICK e \in ExecIds : e = o.execId
    BY <2>1
  <2>3. IsFiniteSet(Objs(e)') /\ Objs(e)' # {}
    <3>1. Objs(e)' \subseteq Objects
      BY <1>1 DEF Objs, TypeOK
    <3>2. o \in Objs(e)'
      BY <2>2 DEF Objs
    <3>. QED
      BY <3>1, <3>2, ObjectsFinite, FS_Subset
  <2>4. Cardinality(Objs(e)') # 0
    BY <2>3, FS_EmptySet
  <2>5. Counted(e, S) # 0
    BY <1>3, <2>4
  <2>. QED
    BY <2>2, <2>5 DEF IsUnreferenced
<1> HIDE DEF toFire
<1>6. CASE UNCHANGED toBackground
  <2>1. \A e : Live(e) => Live(e)'
    BY <1>1, <1>6 DEF Live, Releases
  <2>2. IdsKnown'
    BY <1>1, <1>6 DEF ContextInv, IdsKnown, Releases
  <2>3. NoneMissed'
    BY <1>1, <1>6 DEF ContextInv, NoneMissed, CallsLive, LiveUntil, Releases
  <2>4. RetainedLive'
    <3>1. ASSUME NEW o \in retained' PROVE Live(o.execId)'
      <4>1. PICK e : e = o.execId
        OBVIOUS
      <4>2. Live(e)
        BY <1>1, <4>1 DEF ContextInv, RetainedLive
      <4>3. Live(e)'
        BY <2>1, <4>2
      <4>. QED
        BY <4>1, <4>3
    <3>. QED
      BY <3>1 DEF RetainedLive
  <2>5. \A e : Fresh(e) => Fresh(e)'
    BY <1>1, <2>1 DEF Fresh
  <2>. QED
    BY <1>4, <2>2, <2>3, <2>4, <2>5
<1>7. CASE toBackground' = Append(toBackground, Release(toFire))
  <2>1. /\ Len(toBackground) \in Nat /\ Len(toBackground') = Len(toBackground) + 1
        /\ toBackground'[Len(toBackground) + 1] = Release(toFire)
        /\ \A n \in 1..Len(toBackground) : toBackground'[n] = toBackground[n]
    <3>1. toBackground \in Seq(BackgroundMessages) /\ Release(toFire) \in BackgroundMessages
      BY <1>2, BackgroundMessageTypes DEF TypeOK
    <3>. QED
      BY <1>7, <3>1, AppendProperties
  <2>2. ASSUME NEW n \in 1..Len(toBackground')
        PROVE  \/ n \in 1..Len(toBackground) /\ toBackground'[n] = toBackground[n]
               \/ n = Len(toBackground) + 1 /\ toBackground'[n].execIds = toFire
                  /\ toBackground'[n].type # "runOnBackground"
    BY <2>1 DEF Release
  <2>3. ASSUME NEW e, Live(e), e \notin toFire PROVE Live(e)'
    <3>1. ASSUME NEW n \in 1..Len(toBackground'), Releases(n)'
          PROVE  e \notin toBackground'[n].execIds
      BY <2>2, <2>3, <3>1 DEF Live, Releases
    <3>. QED
      BY <1>1, <2>3, <3>1 DEF Live
  <2>4. \A e \in toFire : \E o \in retained : o.execId = e
    BY DEF toFire
  <2>5. IdsKnown'
    <3>1. \A e \in toFire : e \in execIdMap
      BY <2>4 DEF ContextInv, RetainedLive, Live
    <3>2. \A e \in toFire : e <= lastIndex
      BY <3>1 DEF ContextInv, IdsKnown
    <3>3. ASSUME NEW n \in 1..Len(toBackground'), Releases(n)', NEW e \in toBackground'[n].execIds
          PROVE  e <= lastIndex
      BY <2>2, <3>2, <3>3 DEF ContextInv, IdsKnown, Releases
    <3>. QED
      BY <1>1, <3>3 DEF ContextInv, IdsKnown
  <2>6. NoneMissed'
    <3>1. ASSUME CallsLive PROVE CallsLive'
      <4> SUFFICES ASSUME NEW n \in 1..Len(toBackground'),
                          toBackground'[n].type = "runOnBackground",
                          NEW e \in toBackground'[n].execIds
                   PROVE  LiveUntil(e, n)'
        BY DEF CallsLive
      <4>1. n \in 1..Len(toBackground) /\ toBackground'[n] = toBackground[n]
        BY <2>2
      <4>2. LiveUntil(e, n)
        BY <3>1, <4>1 DEF CallsLive
      <4>3. ASSUME NEW k \in 1..Len(toBackground'), k < n, Releases(k)'
            PROVE  e \notin toBackground'[k].execIds
        <5>1. k \in 1..Len(toBackground) /\ toBackground'[k] = toBackground[k]
          BY <2>1, <4>1, <4>3
        <5>. QED
          BY <4>2, <4>3, <5>1 DEF LiveUntil, Releases
      <4>. QED
        BY <1>1, <4>2, <4>3 DEF LiveUntil
    <3>. QED
      BY <1>1, <3>1 DEF ContextInv, NoneMissed
  <2>7. RetainedLive'
    <3>1. ASSUME NEW o \in retained' PROVE Live(o.execId)'
      <4>1. PICK e : e = o.execId
        OBVIOUS
      <4>2. Live(e) /\ e \notin toFire
        BY <1>1, <1>5, <4>1 DEF ContextInv, RetainedLive
      <4>3. Live(e)'
        BY <2>3, <4>2
      <4>. QED
        BY <4>1, <4>3
    <3>. QED
      BY <3>1 DEF RetainedLive
  <2>8. ASSUME NEW e, Fresh(e) PROVE Fresh(e)'
    <3>1. Live(e)'
      BY <2>3, <2>4, <2>8 DEF Fresh
    <3>. QED
      BY <1>1, <2>8, <3>1 DEF Fresh
  <2>. QED
    BY <1>4, <2>5, <2>6, <2>7, <2>8
<1>. QED
  BY <1>1, <1>6, <1>7

\* What a message to the main thread brings it.
LEMMA BroughtIds ==
  ASSUME NEW m, m.calls \in Seq(Calls)
  PROVE  /\ \A o \in HandlesOf(m.calls) : o.execId \in Ids(m)
         /\ \A e \in {m.value} \cap ExecIds : e \in Ids(m)
<1>1. ASSUME NEW n \in DOMAIN m.calls
      PROVE  Handle(m.calls[n].execId, m.calls[n].id).execId \in Ids(m)
  <2>1. m.calls[n] \in Calls
    OBVIOUS
  <2>2. m.calls[n].execId \in ExecIds
    BY <2>1 DEF Calls
  <2>. QED
    BY <2>2 DEF Handle, Ids
<1>2. \A o \in HandlesOf(m.calls) : o.execId \in Ids(m)
  BY <1>1 DEF HandlesOf
<1>. QED
  BY <1>2 DEF Ids

\* The messages that hydration and the answers add.
LEMMA RunsAndReturns ==
  ASSUME TypeOK, NEW v \in ExecIds \cup {Nothing}, NEW c \in Seq(Calls)
  PROVE  /\ \A n \in 1..Len(DelayedRuns(v)) :
              /\ DelayedRuns(v)[n].type = "runOnBackground"
              /\ v \in ExecIds /\ DelayedRuns(v)[n].execIds = {v}
         /\ \A n \in 1..Len(Returns(c)) : Returns(c)[n].type = "FunctionCallRet"
<1>1. ASSUME NEW n \in 1..Len(DelayedRuns(v))
      PROVE  /\ DelayedRuns(v)[n].type = "runOnBackground"
             /\ v \in ExecIds /\ DelayedRuns(v)[n].execIds = {v}
  <2>1. v # Nothing
    BY <1>1, EmptySeq DEF DelayedRuns
  <2>2. /\ delayedFns \in Seq(BackgroundCalls) /\ DOMAIN delayedFns = 1..Len(delayedFns)
        /\ Len(delayedFns) \in Nat
    BY DEF TypeOK
  <2>3. DelayedRuns(v) = [k \in 1..Len(delayedFns) |-> RunOnBackground(v, delayedFns[k])]
    BY <2>1, <2>2 DEF DelayedRuns
  <2>4. Len(DelayedRuns(v)) = Len(delayedFns)
    BY <2>2, <2>3
  <2>. QED
    BY <2>1, <2>3, <2>4 DEF RunOnBackground
<1>2. ASSUME NEW n \in 1..Len(Returns(c)) PROVE Returns(c)[n].type = "FunctionCallRet"
  <2>1. DOMAIN c = 1..Len(c) /\ Len(c) \in Nat
    OBVIOUS
  <2>2. Returns(c) = [k \in 1..Len(c) |-> Return(c[k].id)]
    BY <2>1 DEF Returns
  <2>3. Len(Returns(c)) = Len(c)
    BY <2>1, <2>2
  <2>. QED
    BY <2>2, <2>3 DEF Return
<1>. QED
  BY <1>1, <1>2

LEMMA UpdateContextInductive ==
  ASSUME TypeOK, TypeOK', ContextInv, updateMainThread
  PROVE  ContextInv'
<1> DEFINE m == Head(toMain)
           S == {Ctx(e) : e \in {m.value} \cap ExecIds} \cup HandlesOf(m.calls)
<1>1. /\ m \in MainMessages /\ m.type \in {"patch", "runWorkletCtx"}
      /\ toMain # <<>> /\ toMain' = Tail(toMain)
  BY HeadTailProperties DEF updateMainThread, TypeOK
<1>2. /\ m.calls \in Seq(Calls) /\ m.hydration \in BOOLEAN
      /\ m.value \in ExecIds \cup {Nothing, Unchanged}
      /\ m.hydration => m.value # Unchanged
  BY <1>1, PatchTypes
<1>3. UNCHANGED <<app, execIdMap, lastIndex, missed>> /\ UNCHANGED Pending
  BY NoneAdded DEF updateMainThread, bgVars, Pending
<1>4. /\ SentOnce' /\ \A e \in Ids(m) : Sent(e)
      /\ \A e : Sent(e)' => Sent(e) /\ e \notin Ids(m)
  BY <1>1, SentTaken DEF ContextInv
<1>5. \A e \in Ids(m) : Fresh(e)
  BY <1>4 DEF ContextInv, SentFresh, Ids
<1>6. S \subseteq Objects /\ \A o \in S : o.execId \in Ids(m)
  <2>1. ASSUME NEW e \in {m.value} \cap ExecIds
        PROVE  Ctx(e) \in Objects /\ Ctx(e).execId \in Ids(m)
    BY <1>2, <2>1, ConstantsAssumption, BroughtIds DEF Ctx, Objects
  <2>. QED
    BY <1>2, <2>1, HandlesOfType, BroughtIds
<1>7. PICK d \in Seq(BackgroundMessages) :
        /\ toBackground' = toBackground \o d
        /\ \A n \in 1..Len(d) : d[n].type # "releaseBackgroundWorkletCtx"
        /\ \A n \in 1..Len(d) : d[n].type = "runOnBackground" => \A e \in d[n].execIds : Live(e)
  <2> DEFINE r == Returns(m.calls)
             q == IF m.hydration THEN DelayedRuns(m.value) ELSE <<>>
  <2>1. r \in Seq(BackgroundMessages) /\ \A n \in 1..Len(r) : r[n].type = "FunctionCallRet"
    BY <1>2, ReturnsType, RunsAndReturns
  <2>2. /\ q \in Seq(BackgroundMessages)
        /\ \A n \in 1..Len(q) : q[n].type = "runOnBackground" /\ \A e \in q[n].execIds : Live(e)
    <3>1. CASE m.hydration
      <4>1. q = DelayedRuns(m.value) /\ m.value \in ExecIds \cup {Nothing}
        BY <1>2, <3>1
      <4>2. q \in Seq(BackgroundMessages)
        BY <4>1, DelayedRunsType
      <4>3. ASSUME NEW n \in 1..Len(q)
            PROVE  q[n].type = "runOnBackground" /\ \A e \in q[n].execIds : Live(e)
        <5>1. q[n].type = "runOnBackground" /\ m.value \in ExecIds /\ q[n].execIds = {m.value}
          BY <1>2, <4>1, <4>3, RunsAndReturns
        <5>2. Live(m.value)
          BY <1>2, <1>5, <5>1, BroughtIds DEF Fresh
        <5>. QED
          BY <5>1, <5>2
      <4>. QED
        BY <4>2, <4>3
    <3>2. CASE ~m.hydration
      BY <3>2, EmptySeq
    <3>. QED
      BY <1>2, <3>1, <3>2
  <2>3. toBackground' = toBackground \o q \o r
    BY DEF updateMainThread
  <2> HIDE DEF q, r
  <2>4. toBackground' = toBackground \o (q \o r) /\ q \o r \in Seq(BackgroundMessages)
    <3>1. toBackground \in Seq(BackgroundMessages)
      BY DEF TypeOK
    <3>2. (toBackground \o q) \o r = toBackground \o (q \o r)
      BY <2>1, <2>2, <3>1, ConcatAssociative
    <3>3. q \o r \in Seq(BackgroundMessages)
      BY <2>1, <2>2, ConcatProperties
    <3>. QED
      BY <2>3, <3>2, <3>3
  <2>5. ASSUME NEW n \in 1..Len(q \o r)
        PROVE  \/ n \in 1..Len(q) /\ (q \o r)[n] = q[n]
               \/ n - Len(q) \in 1..Len(r) /\ (q \o r)[n] = r[n - Len(q)]
    <3>1. Len(q) \in Nat /\ Len(r) \in Nat
      BY <2>1, <2>2
    <3>2. /\ Len(q \o r) = Len(q) + Len(r)
          /\ \A k \in 1..(Len(q) + Len(r)) :
               (q \o r)[k] = IF k <= Len(q) THEN q[k] ELSE r[k - Len(q)]
      BY <2>1, <2>2, ConcatProperties
    <3>. QED
      BY <3>1, <3>2
  <2>6. ASSUME NEW n \in 1..Len(q \o r)
        PROVE  /\ (q \o r)[n].type # "releaseBackgroundWorkletCtx"
               /\ (q \o r)[n].type = "runOnBackground" => \A e \in (q \o r)[n].execIds : Live(e)
    BY <2>1, <2>2, <2>5
  <2>. QED
    BY <2>4, <2>6
<1>8. /\ IdsKnown' /\ \A e : Live(e) => Live(e)'
      /\ CallsLive => CallsLive'
  BY <1>3, <1>7, MessagesAdded DEF ContextInv
<1>9. /\ addRefs(S) /\ first' = IF m.hydration /\ ctx = FirstScreen /\ m.value # Nothing
                                 THEN HydratedFirst(m.value) ELSE first
      /\ ctx' = IF m.value = Unchanged THEN ctx ELSE m.value
      /\ \E kept \in SUBSET HandlesOf(m.calls) : held' = held \cup kept
  BY DEF updateMainThread
<1>10. /\ RefsCounted' /\ RetainedLive' /\ retained' = retained \cup S
       /\ \A e : Fresh(e) /\ (\A o \in S : o.execId # e) => Fresh(e)'
  <2>1. \A o \in S : Live(o.execId)
    BY <1>5, <1>6 DEF Fresh
  <2> HIDE DEF S
  <2>. QED
    BY <1>6, <1>8, <1>9, <2>1, RefsAdded DEF ContextInv
<1>11. ASSUME NEW e, Fresh(e), e \notin Ids(m) PROVE Fresh(e)'
  BY <1>6, <1>10, <1>11
<1>12. SentFresh' /\ PendingFresh'
  <2>1. SentFresh'
    BY <1>4, <1>11 DEF ContextInv, SentFresh
  <2>2. PendingFresh'
    <3>1. \A e \in Pending : e \notin Ids(m) /\ Fresh(e) /\ ~Sent(e)
      BY <1>4 DEF ContextInv, PendingFresh
    <3>. QED
      BY <1>3, <1>4, <1>11, <3>1 DEF PendingFresh
  <2>. QED
    BY <2>1, <2>2
<1>13. ReachableRetained'
  <2>1. held' \ {FirstHandle} \subseteq retained'
    BY <1>9, <1>10 DEF ContextInv, ReachableRetained
  <2>2. ASSUME ctx' \in ExecIds PROVE Ctx(ctx)' \in retained'
    <3>1. CASE m.value = Unchanged
      BY <1>9, <1>10, <2>2, <3>1 DEF ContextInv, ReachableRetained, Ctx
    <3>2. CASE m.value # Unchanged
      BY <1>9, <1>10, <2>2, <3>2 DEF Ctx
    <3>. QED
      BY <3>1, <3>2
  <2>3. ASSUME ctx' = FirstScreen PROVE first'.isFirstScreen
    <3>1. m.value = Unchanged
      BY <1>2, <1>9, <2>3, NoContext DEF FirstScreen, Nothing
    <3>2. ctx = FirstScreen /\ first' = first
      BY <1>2, <1>9, <2>3, <3>1
    <3>. QED
      BY <3>2 DEF ContextInv, ReachableRetained
  <2>. QED
    BY <2>1, <2>2, <2>3 DEF ReachableRetained
<1>. QED
  BY <1>3, <1>4, <1>8, <1>10, <1>12, <1>13
  DEF ContextInv, NoneMissed

LEMMA MainContextInductive ==
  ASSUME TypeOK, TypeOK', ContextInv,
         \/ RunHandler \/ \E h \in held : runOnBackground(h) \/ EndRun(h)
         \/ \E S \in SUBSET retained : Collect(S)
         \/ updateMainThread \/ BackgroundCallReturns
  PROVE  ContextInv'
<1>1. UNCHANGED <<app, bgVars>>
  BY DEF RunHandler, runOnBackground, EndRun, Collect, updateMainThread, BackgroundCallReturns
<1>2. UNCHANGED <<app, execIdMap, lastIndex, missed>> /\ UNCHANGED Pending
  BY <1>1, NoneAdded DEF bgVars, Pending
<1>3. ASSUME UNCHANGED toMain, \A e : Fresh(e) => Fresh(e)'
      PROVE  SentFresh' /\ SentOnce' /\ PendingFresh'
  BY <1>2, <1>3, NothingNew DEF ContextInv, SentOnce, Sent
<1>4. ASSUME UNCHANGED toBackground
      PROVE  IdsKnown' /\ NoneMissed' /\ \A e : Live(e) => Live(e)'
  BY <1>2, <1>4 DEF ContextInv, IdsKnown, NoneMissed, CallsLive, Live, LiveUntil, Releases
<1>5. ASSUME UNCHANGED retained, \A e : Live(e) => Live(e)'
      PROVE  RetainedLive' /\ \A e : Fresh(e) => Fresh(e)'
  <2>1. ASSUME NEW o \in retained' PROVE Live(o.execId)'
    <3>1. PICK e : e = o.execId
      OBVIOUS
    <3>2. Live(e)'
      BY <1>5, <3>1 DEF ContextInv, RetainedLive
    <3>. QED
      BY <3>1, <3>2
  <2>. QED
    BY <1>5, <2>1 DEF RetainedLive, Fresh
<1>6. ASSUME UNCHANGED <<retained, refCount>> PROVE RefsCounted'
  BY <1>6 DEF ContextInv, RefsCounted, Objs
<1>7. CASE RunHandler
  <2>1. UNCHANGED <<toMain, toBackground, ctx, first>>
    BY <1>7 DEF RunHandler
  <2>2. CASE ctx = FirstScreen
    <3>1. held' = held \cup {FirstHandle} /\ UNCHANGED <<retained, refCount>>
      BY <1>7, <2>2 DEF RunHandler, FirstHandle, FirstScreen
    <3>2. ReachableRetained'
      BY <2>1, <3>1 DEF ContextInv, ReachableRetained
    <3>. QED
      BY <1>2, <1>3, <1>4, <1>5, <1>6, <2>1, <3>1, <3>2 DEF ContextInv
  <2>3. CASE ctx # FirstScreen
    <3> DEFINE h == Handle(ctx, 0)
    <3>1. ctx \in ExecIds /\ held' = held \cup {h} /\ addRefs({h})
      BY <1>7, <2>3 DEF RunHandler, TypeOK
    <3>2. h \in Objects /\ h.execId = ctx
      BY <3>1, ConstantsAssumption DEF Handle, Objects
    <3>3. Ctx(ctx) \in retained /\ Live(ctx)
      BY <3>1 DEF ContextInv, ReachableRetained, RetainedLive, Ctx
    <3> HIDE DEF h
    <3>4. {h} \in SUBSET Objects /\ \A o \in {h} : Live(o.execId)
      BY <3>2, <3>3
    <3>5. /\ RefsCounted' /\ RetainedLive' /\ retained' = retained \cup {h}
          /\ \A e : Fresh(e) /\ (\A o \in {h} : o.execId # e) => Fresh(e)'
      BY <1>4, <2>1, <3>1, <3>4, RefsAdded DEF ContextInv
    <3>6. \A e : Fresh(e) => Fresh(e)'
      BY <3>2, <3>3, <3>5 DEF Fresh, Ctx
    <3>7. ReachableRetained'
      BY <2>1, <3>1, <3>5 DEF ContextInv, ReachableRetained
    <3>. QED
      BY <1>2, <1>3, <1>4, <2>1, <3>5, <3>6, <3>7 DEF ContextInv
  <2>. QED
    BY <2>2, <2>3
<1>8. ASSUME NEW h \in held, EndRun(h) PROVE ContextInv'
  <2>1. UNCHANGED <<toMain, toBackground, ctx, first, retained, refCount>> /\ held' \subseteq held
    BY <1>8 DEF EndRun
  <2>2. ReachableRetained'
    BY <2>1 DEF ContextInv, ReachableRetained
  <2>. QED
    BY <1>2, <1>3, <1>4, <1>5, <1>6, <2>1, <2>2 DEF ContextInv
<1>9. ASSUME NEW h \in held, runOnBackground(h) PROVE ContextInv'
  <2>1. UNCHANGED <<toMain, ctx, first, held, retained, refCount>>
    BY <1>9 DEF runOnBackground
  <2>2. ReachableRetained'
    BY <2>1 DEF ContextInv, ReachableRetained
  <2>3. IdsKnown' /\ NoneMissed' /\ \A e : Live(e) => Live(e)'
    <3>1. CASE IsDelayed(h)
      BY <1>4, <1>9, <3>1 DEF runOnBackground
    <3>2. CASE ~IsDelayed(h)
      <4> DEFINE r == RunOnBackground(ExecIdOf(h), bCalls')
      <4>1. r \in BackgroundMessages /\ toBackground' = Append(toBackground, r)
        <5>1. bCalls' \in BackgroundCalls
          BY <1>9, ConstantsAssumption DEF runOnBackground, TypeOK, BackgroundCalls
        <5>2. ExecIdOf(h) \in ExecIds
          <6>1. CASE h = FirstHandle
            BY <1>9, <3>2, <6>1 DEF TypeOK, ExecIdOf, IsDelayed
          <6>2. CASE h # FirstHandle
            BY <1>9, <6>2 DEF TypeOK, Objects, ExecIdOf
          <6>. QED
            BY <6>1, <6>2
        <5>. QED
          BY <1>9, <3>2, <5>1, <5>2, BackgroundMessageTypes DEF runOnBackground
      <4>2. /\ r.type = "runOnBackground" /\ r.execIds = {ExecIdOf(h)}
        BY DEF RunOnBackground
      <4>3. "longRunning" \notin app => Live(ExecIdOf(h))
        <5>1. CASE h = FirstHandle
          <6>1. "longRunning" \notin app => ctx = FirstScreen
            BY <1>9, <5>1 DEF runOnBackground
          <6>. QED
            BY <3>2, <5>1, <6>1 DEF ContextInv, ReachableRetained, IsDelayed
        <5>2. CASE h # FirstHandle
          BY <5>2 DEF ContextInv, ReachableRetained, RetainedLive, ExecIdOf
        <5>. QED
          BY <5>1, <5>2
      <4> HIDE DEF r
      <4>4. /\ <<r>> \in Seq(BackgroundMessages) /\ toBackground' = toBackground \o <<r>>
            /\ Len(<<r>>) = 1 /\ <<r>>[1] = r
        <5>1. toBackground \in Seq(BackgroundMessages)
          BY DEF TypeOK
        <5>2. Append(toBackground, r) = toBackground \o <<r>>
          BY <4>1, <5>1, AppendIsConcat
        <5>3. <<r>> \in Seq(BackgroundMessages) /\ Len(<<r>>) = 1 /\ <<r>>[1] = r
          BY <4>1
        <5>. QED
          BY <4>1, <5>2, <5>3
      <4>5. /\ IdsKnown' /\ \A e : Live(e) => Live(e)'
            /\ CallsLive /\ Live(ExecIdOf(h)) => CallsLive'
        <5>1. \A n \in 1..Len(<<r>>) : <<r>>[n].type # "releaseBackgroundWorkletCtx"
          BY <4>2, <4>4
        <5>2. Live(ExecIdOf(h)) => \A n \in 1..Len(<<r>>) : <<r>>[n].type = "runOnBackground" =>
                                     \A e \in <<r>>[n].execIds : Live(e)
          BY <4>2, <4>4
        <5>. QED
          BY <1>2, <4>4, <5>1, <5>2, MessagesAdded DEF ContextInv
      <4>. QED
        BY <1>2, <4>3, <4>5 DEF ContextInv, NoneMissed
    <3>. QED
      BY <3>1, <3>2
  <2>. QED
    BY <1>2, <1>3, <1>5, <1>6, <2>1, <2>2, <2>3 DEF ContextInv
<1>10. ASSUME NEW S \in SUBSET retained, Collect(S) PROVE ContextInv'
  <2>1. /\ IdsKnown' /\ RetainedLive' /\ RefsCounted' /\ NoneMissed'
        /\ \A e : Fresh(e) => Fresh(e)'
    BY <1>10, CollectKeeps
  <2>2. /\ UNCHANGED <<toMain, ctx, first, held>> /\ retained' = retained \ S
        /\ \A o \in S : ~IsReachable(o)
    BY <1>10 DEF Collect
  <2>3. ReachableRetained'
    <3>1. ctx \in ExecIds => Ctx(ctx) \notin S
      BY <2>2 DEF IsReachable, Ctx
    <3>2. held \cap S = {}
      BY <2>2 DEF IsReachable
    <3>. QED
      BY <2>2, <3>1, <3>2 DEF ContextInv, ReachableRetained
  <2>. QED
    BY <1>2, <1>3, <2>1, <2>2, <2>3 DEF ContextInv
<1>11. CASE updateMainThread
  BY <1>11, UpdateContextInductive
<1>12. CASE BackgroundCallReturns
  <2>1. /\ UNCHANGED <<toBackground, ctx, first, held, retained, refCount>>
        /\ toMain # <<>> /\ toMain' = Tail(toMain)
    BY <1>12 DEF BackgroundCallReturns
  <2>2. SentOnce' /\ \A e : Sent(e)' => Sent(e)
    BY <2>1, SentTaken DEF ContextInv
  <2>3. ReachableRetained'
    BY <2>1 DEF ContextInv, ReachableRetained
  <2>. QED
    BY <1>2, <1>4, <1>5, <1>6, <2>1, <2>2, <2>3, NothingNew DEF ContextInv
<1>. QED
  BY <1>7, <1>8, <1>9, <1>10, <1>11, <1>12

\* What holds of contexts as long as no call has overtaken its function.
OrderlyContexts == Orderly => ContextInv

LEMMA ContextInductive ==
  TypeOK /\ PhaseInv /\ OrderlyContexts /\ [Next]_vars => OrderlyContexts'
<1> SUFFICES ASSUME TypeOK, PhaseInv, OrderlyContexts, [Next]_vars, Orderly' PROVE ContextInv'
  BY DEF OrderlyContexts
<1>1. TypeOK'
  BY TypeInductive
<1>o. ContextInv
  <2>1. UNCHANGED app /\ replayed \subseteq replayed'
    BY DEF Next, Receive, BeginRender, Commit, CommitHydration, runOnMainThread, SetAttribute,
           Hydrate, runBackgroundFunction, releaseBackgroundFunctionCtx, MainCallReturns, RunHandler,
           runOnBackground, EndRun, Collect, updateMainThread, BackgroundCallReturns, vars, bgVars
  <2>. QED
    BY <2>1 DEF Orderly, OrderlyContexts
<1>2. CASE UNCHANGED vars
  <2>1. UNCHANGED <<app, update, execIdMap, lastIndex, fnExecId, delayedData,
                    missed, ctx, first, held, retained, refCount, toMain, toBackground>>
    BY <1>2 DEF vars, bgVars, mainVars
  <2>p. UNCHANGED Pending
    BY <2>1, NoneAdded DEF Pending
  <2>2. SentFresh' /\ SentOnce' /\ PendingFresh'
    BY <1>o, <2>1, <2>p DEF ContextInv, SentFresh, SentOnce, PendingFresh, Sent, Fresh, Live, Releases
  <2>3. IdsKnown' /\ RetainedLive' /\ NoneMissed'
    BY <1>o, <2>1
    DEF ContextInv, IdsKnown, RetainedLive, NoneMissed, CallsLive, Live, LiveUntil, Releases
  <2>4. ReachableRetained' /\ RefsCounted'
    BY <1>o, <2>1 DEF ContextInv, ReachableRetained, RefsCounted, Objs
  <2>. QED
    BY <2>2, <2>3, <2>4 DEF ContextInv
<1>3. CASE Next
  BY <1>1, <1>o, <1>3, BackgroundContextInductive, MainContextInductive DEF Next, Receive
<1>. QED
  BY <1>2, <1>3

LEMMA LiveIsKept ==
  ASSUME TypeOK, NEW e, Live(e)
  PROVE  e \in execIdMap \ Released
<1>1. DOMAIN toBackground = 1..Len(toBackground)
  BY DEF TypeOK
<1>. QED
  BY <1>1 DEF Live, Released

\* Whatever is sent, called, collected and released in whatever order, a handle in use names
\* a function that the background thread keeps, and no call misses its function: no release
\* of a context overtakes the last reference to it, unless a replayed event called a function
\* that waited to be sent with the hydration patch.
THEOREM FunctionsKept == Spec => []HandlesKeepTheirFunction
<1>1. TypeOK /\ OrderlyContexts => HandlesKeepTheirFunction
  <2> SUFFICES ASSUME TypeOK, ContextInv, "longRunning" \notin app
               PROVE  /\ \A h \in held \ {FirstHandle} : h.execId \in execIdMap \ Released
                      /\ \A n \in DOMAIN toBackground : toBackground[n].type = "runOnBackground" =>
                           toBackground[n].execIds \subseteq
                             execIdMap \ UNION {toBackground[k].execIds :
                                                  k \in {k \in 1..(n - 1) : Releases(k)}}
                      /\ missed = {}
    BY DEF HandlesKeepTheirFunction, OrderlyContexts, Orderly
  <2>1. CallsLive /\ missed = {}
    BY DEF ContextInv, NoneMissed
  <2>2. \A h \in held \ {FirstHandle} : h.execId \in execIdMap \ Released
    BY LiveIsKept DEF ContextInv, ReachableRetained, RetainedLive
  <2>3. ASSUME NEW n \in DOMAIN toBackground, toBackground[n].type = "runOnBackground",
               NEW e \in toBackground[n].execIds
        PROVE  e \in execIdMap \ UNION {toBackground[k].execIds :
                                          k \in {k \in 1..(n - 1) : Releases(k)}}
    <3>1. DOMAIN toBackground = 1..Len(toBackground) /\ Len(toBackground) \in Nat
      BY DEF TypeOK
    <3>2. LiveUntil(e, n)
      BY <2>1, <2>3, <3>1 DEF CallsLive
    <3>3. \A k \in 1..(n - 1) : k \in 1..Len(toBackground) /\ k < n
      BY <3>1
    <3>. QED
      BY <3>2, <3>3 DEF LiveUntil
  <2>. QED
    BY <2>1, <2>2, <2>3
<1>2. TypeOK /\ PhaseInv /\ OrderlyContexts /\ [Next]_vars => (TypeOK /\ PhaseInv /\ OrderlyContexts)'
  BY TypeInductive, PhaseInductive, ContextInductive
<1>3. Init => TypeOK /\ PhaseInv /\ OrderlyContexts
  BY TypeInitial, PhaseInitial, ContextInitial DEF OrderlyContexts
<1>. QED
  BY <1>1, <1>2, <1>3, PTL DEF Spec

-----------------------------------------------------------------------------
(* The inductive invariant behind NoContextLeaks: a live context is with    *)
(* the main thread, on its way, or waiting to be sent.                      *)

Retained(e) == \E o \in retained : o.execId = e
Accounted(e) == Retained(e) \/ Sent(e) \/ e \in Pending
AllAccounted ==
  app \cap {"plain", "repeats"} = {} => \A e \in ExecIds : Live(e) => Accounted(e)

\* What is live after a step was live before it, or is new.
LEMMA LiveBefore ==
  ASSUME TypeOK, NEW e, Live(e)',
         \/ UNCHANGED toBackground
         \/ \E d \in Seq(BackgroundMessages) : toBackground' = toBackground \o d
         \/ /\ toBackground # <<>> /\ toBackground' = Tail(toBackground)
            /\ Head(toBackground).type = "releaseBackgroundWorkletCtx"
                 => e \notin Head(toBackground).execIds,
         e \in execIdMap
  PROVE  Live(e)
<1>1. toBackground \in Seq(BackgroundMessages) /\ Len(toBackground) \in Nat
  BY DEF TypeOK
<1>2. \A n \in 1..Len(toBackground') :
        toBackground'[n].type = "releaseBackgroundWorkletCtx" => e \notin toBackground'[n].execIds
  BY DEF Live, Releases
<1>3. CASE UNCHANGED toBackground
  BY <1>2, <1>3 DEF Live, Releases
<1>4. ASSUME NEW d \in Seq(BackgroundMessages), toBackground' = toBackground \o d PROVE Live(e)
  <2>1. \A n \in 1..Len(toBackground) :
          n \in 1..Len(toBackground') /\ toBackground'[n] = toBackground[n]
    <3>1. /\ Len(toBackground') = Len(toBackground) + Len(d) /\ Len(d) \in Nat
          /\ \A n \in 1..(Len(toBackground) + Len(d)) :
               toBackground'[n] =
                 IF n <= Len(toBackground) THEN toBackground[n] ELSE d[n - Len(toBackground)]
      BY <1>1, <1>4, ConcatProperties
    <3>. QED
      BY <1>1, <3>1
  <2>. QED
    BY <1>2, <2>1 DEF Live, Releases
<1>5. CASE /\ toBackground # <<>> /\ toBackground' = Tail(toBackground)
           /\ Head(toBackground).type = "releaseBackgroundWorkletCtx"
                => e \notin Head(toBackground).execIds
  <2>1. /\ Len(toBackground) \in Nat \ {0} /\ Len(toBackground') = Len(toBackground) - 1
        /\ \A n \in 1..Len(toBackground') : toBackground'[n] = toBackground[n + 1]
        /\ Head(toBackground) = toBackground[1]
    <3>1. Len(toBackground) \in Nat \ {0} /\ Head(toBackground) = toBackground[1]
      BY <1>1, <1>5, EmptySeq
    <3>2. /\ Len(toBackground') = Len(toBackground) - 1
          /\ \A n \in 1..Len(toBackground') : toBackground'[n] = toBackground[n + 1]
      BY <1>1, <1>5, HeadTailProperties
    <3>. QED
      BY <3>1, <3>2
  <2>2. ASSUME NEW n \in 1..Len(toBackground), Releases(n) PROVE e \notin toBackground[n].execIds
    <3>1. CASE n = 1
      BY <1>5, <2>1, <2>2, <3>1 DEF Releases
    <3>2. CASE n # 1
      <4>1. n - 1 \in 1..Len(toBackground') /\ toBackground'[n - 1] = toBackground[n]
        <5>1. n - 1 \in 1..Len(toBackground') /\ (n - 1) + 1 = n
          BY <2>1, <3>2
        <5>. QED
          BY <2>1, <5>1
      <4>. QED
        BY <1>2, <2>2, <4>1 DEF Releases
    <3>. QED
      BY <3>1, <3>2
  <2>. QED
    BY <2>2 DEF Live
<1>. QED
  BY <1>3, <1>4, <1>5

LEMMA SentGrows ==
  ASSUME TypeOK, NEW m \in MainMessages, toMain' = Append(toMain, m)
  PROVE  \A e : Sent(e) \/ e \in Ids(m) => Sent(e)'
<1>1. /\ Len(toMain) \in Nat /\ Len(toMain') = Len(toMain) + 1
      /\ toMain'[Len(toMain) + 1] = m
      /\ \A n \in 1..Len(toMain) : toMain'[n] = toMain[n]
  <2>1. toMain \in Seq(MainMessages)
    BY DEF TypeOK
  <2>2. Len(toMain) \in Nat
    BY <2>1
  <2>. QED
    BY <2>1, <2>2, AppendProperties
<1>2. ASSUME NEW e, Sent(e) PROVE Sent(e)'
  <2>1. PICK n \in 1..Len(toMain) : e \in Ids(toMain[n])
    BY <1>2 DEF Sent
  <2>2. n \in 1..Len(toMain') /\ e \in Ids(toMain'[n])
    BY <1>1, <2>1
  <2>. QED
    BY <2>2 DEF Sent
<1>3. ASSUME NEW e \in Ids(m) PROVE Sent(e)'
  <2>1. Len(toMain) + 1 \in 1..Len(toMain') /\ e \in Ids(toMain'[Len(toMain) + 1])
    BY <1>1
  <2>. QED
    BY <2>1 DEF Sent
<1>. QED
  BY <1>2, <1>3

LEMMA SentLeft ==
  ASSUME TypeOK, toMain # <<>>, toMain' = Tail(toMain)
  PROVE  \A e : Sent(e) => Sent(e)' \/ e \in Ids(Head(toMain))
<1>1. /\ Len(toMain) \in Nat \ {0} /\ Len(toMain') = Len(toMain) - 1
      /\ Head(toMain) = toMain[1]
      /\ \A n \in 1..Len(toMain') : toMain'[n] = toMain[n + 1]
  <2>1. toMain \in Seq(MainMessages)
    BY DEF TypeOK
  <2>2. Len(toMain) \in Nat \ {0} /\ Head(toMain) = toMain[1]
    BY <2>1, EmptySeq
  <2>3. Len(toMain') = Len(toMain) - 1 /\ \A n \in 1..Len(toMain') : toMain'[n] = toMain[n + 1]
    BY <2>1, HeadTailProperties
  <2>. QED
    BY <2>2, <2>3
<1>2. ASSUME NEW e, Sent(e), e \notin Ids(Head(toMain)) PROVE Sent(e)'
  <2>1. PICK n \in 1..Len(toMain) : e \in Ids(toMain[n])
    BY <1>2 DEF Sent
  <2>2. n - 1 \in 1..Len(toMain') /\ (n - 1) + 1 = n
    BY <1>1, <1>2, <2>1
  <2>3. e \in Ids(toMain'[n - 1])
    BY <1>1, <2>1, <2>2
  <2>. QED
    BY <2>2, <2>3 DEF Sent
<1>. QED
  BY <1>2

LEMMA BackgroundAccounts ==
  ASSUME TypeOK, TypeOK', PhaseInv, ContextInv, AllAccounted,
         \/ BeginRender \/ Commit \/ CommitHydration \/ runOnMainThread
         \/ \E f \in BOOLEAN : SetAttribute(f)
         \/ Hydrate \/ runBackgroundFunction \/ releaseBackgroundFunctionCtx \/ MainCallReturns
  PROVE  AllAccounted'
<1> SUFFICES ASSUME app' \cap {"plain", "repeats"} = {}, NEW e \in ExecIds, Live(e)'
             PROVE  Accounted(e)'
  BY DEF AllAccounted
<1>1. UNCHANGED <<app, retained>>
  BY DEF BeginRender, Commit, CommitHydration, runOnMainThread, SetAttribute, Hydrate,
         runBackgroundFunction, releaseBackgroundFunctionCtx, MainCallReturns, mainVars
<1>2. "plain" \notin app /\ "repeats" \notin app /\ (Live(e) => Accounted(e))
  BY <1>1 DEF AllAccounted
<1>3. Retained(e) => Retained(e)'
  BY <1>1 DEF Retained
<1>4. e \in execIdMap'
  BY DEF Live
<1>5. ASSUME UNCHANGED toMain PROVE Sent(e) => Sent(e)'
  BY <1>5 DEF Sent
<1>6. CASE BeginRender \/ runBackgroundFunction \/ releaseBackgroundFunctionCtx \/ MainCallReturns
  <2>1. Live(e)
    <3>1. CASE BeginRender
      BY <1>4, <3>1, LiveBefore DEF BeginRender
    <3>2. CASE runBackgroundFunction \/ MainCallReturns
      BY <1>4, <3>2, LiveBefore DEF runBackgroundFunction, MainCallReturns, Next2Background
    <3>3. CASE releaseBackgroundFunctionCtx
      BY <1>4, <3>3, LiveBefore DEF releaseBackgroundFunctionCtx, Next2Background
    <3>. QED
      BY <1>6, <3>1, <3>2, <3>3
  <2>2. UNCHANGED <<update, fnExecId, delayedData>>
    BY <1>6 DEF BeginRender, runBackgroundFunction, releaseBackgroundFunctionCtx, MainCallReturns
  <2>3. UNCHANGED Pending
    BY <1>1, <2>2, NoneAdded DEF Pending
  <2>4. Sent(e) => Sent(e)'
    <3>1. CASE toMain' # toMain
      <4>1. runBackgroundFunction
        BY <1>6, <3>1 DEF BeginRender, releaseBackgroundFunctionCtx, MainCallReturns
      <4>2. toMain' = Append(toMain, ReturnToMain(Head(toBackground).id))
        BY <3>1, <4>1 DEF runBackgroundFunction
      <4>3. Head(toBackground).id \in BackgroundCalls
        <5>1. Head(toBackground) \in BackgroundMessages /\ Head(toBackground).type = "runOnBackground"
          BY <4>1, NextType DEF runBackgroundFunction
        <5>. QED
          BY <5>1 DEF BackgroundMessages, FirstScreenMsg
      <4>4. ReturnToMain(Head(toBackground).id) \in MainMessages
        BY <4>3, MainMessageTypes
      <4>. QED
        BY <4>2, <4>4, SentGrows
    <3>. QED
      BY <1>5, <3>1
  <2>. QED
    BY <1>2, <1>3, <2>1, <2>3, <2>4 DEF Accounted
<1>s. ASSUME Live(e), NEW h \in BOOLEAN, Patch(h, update, DelayedCalls) \in MainMessages,
             toMain' = Append(toMain, Patch(h, update, DelayedCalls))
      PROVE  Accounted(e)'
  <2> DEFINE m == Patch(h, update, DelayedCalls)
  <2>1. m \in MainMessages /\ Ids(m) = Pending /\ toMain' = Append(toMain, m)
    BY <1>s, IdsOfDelayed DEF Pending
  <2> HIDE DEF m
  <2>2. Sent(e) \/ e \in Pending => Sent(e)'
    BY <2>1, SentGrows
  <2>. QED
    BY <1>2, <1>3, <1>s, <2>2 DEF Accounted
<1>7. CASE Commit
  <2>1. Live(e)
    BY <1>4, <1>7, LiveBefore DEF Commit
  <2>2. CASE ~patching
    <3>1. UNCHANGED <<toMain, update, delayedData, fnExecId>>
      BY <1>7, <2>2 DEF Commit
    <3>2. UNCHANGED Pending
      BY <1>1, <3>1, NoneAdded DEF Pending
    <3>. QED
      BY <1>2, <1>3, <1>5, <2>1, <3>1, <3>2 DEF Accounted
  <2>3. CASE patching
    <3>1. Patch(FALSE, update, DelayedCalls) \in MainMessages
      BY MainMessageTypes, DelayedCallsType DEF TypeOK
    <3>. QED
      BY <1>7, <1>s, <2>1, <2>3, <3>1 DEF Commit
  <2>. QED
    BY <2>2, <2>3
<1>7a. CASE CommitHydration
  <2>1. Live(e)
    BY <1>4, <1>7a, LiveBefore DEF CommitHydration
  <2>2. Patch(TRUE, update, DelayedCalls) \in MainMessages
    BY <1>7a, MainMessageTypes, DelayedCallsType DEF CommitHydration, TypeOK
  <2>. QED
    BY <1>7a, <1>s, <2>1, <2>2 DEF CommitHydration
<1>8. CASE runOnMainThread
  <2>1. /\ fnExecId' = lastIndex + 1 /\ execIdMap' = execIdMap \cup {lastIndex + 1}
        /\ UNCHANGED <<toBackground, update>>
    BY <1>8 DEF runOnMainThread, register
  <2>2. e = lastIndex + 1 \/ Live(e)
    BY <1>4, <2>1, LiveBefore
  <2>3. mCalls' \in MainCalls /\ lastIndex + 1 \in ExecIds
    BY <1>8, ConstantsAssumption, RegisterType DEF runOnMainThread, TypeOK, MainCalls
  <2>4. CASE shouldDispatchDirectly
    <3> DEFINE m == RunWorkletCtx(fnExecId', mCalls')
    <3>1. toMain' = Append(toMain, m) /\ UNCHANGED delayedData
      BY <1>8, <2>4 DEF runOnMainThread
    <3>2. m \in MainMessages /\ Ids(m) = {lastIndex + 1}
      BY <2>1, <2>3, MainMessageTypes, IdsOfCall
    <3> HIDE DEF m
    <3>3. Sent(e) \/ e = lastIndex + 1 => Sent(e)'
      BY <3>1, <3>2, SentGrows
    <3>4. UNCHANGED Pending
      BY <1>1, <1>2, <2>1, <3>1, NoneAdded DEF Pending
    <3>. QED
      BY <1>2, <1>3, <2>2, <3>3, <3>4 DEF Accounted
  <2>5. CASE ~shouldDispatchDirectly
    <3>1. delayedData' = Append(delayedData, Call(fnExecId', mCalls')) /\ UNCHANGED toMain
      BY <1>8, <2>5 DEF runOnMainThread
    <3>2. Waiting \subseteq Waiting' /\ lastIndex + 1 \in Waiting'
      <4>1. Call(fnExecId', mCalls') \in Calls
        BY <2>1, <2>3 DEF Call, Calls
      <4>. QED
        BY <1>1, <1>2, <2>1, <3>1, <4>1, OneAdded
    <3>3. e \in Pending \/ e = lastIndex + 1 => e \in Pending'
      BY <2>1, <3>2 DEF Pending
    <3>. QED
      BY <1>2, <1>3, <1>5, <2>2, <3>1, <3>3 DEF Accounted
  <2>. QED
    BY <2>4, <2>5
<1>9. ASSUME NEW f \in BOOLEAN, SetAttribute(f) PROVE Accounted(e)'
  <2>1. /\ update = Unchanged /\ UNCHANGED <<toMain, toBackground, delayedData, fnExecId>>
    BY <1>9 DEF SetAttribute
  <2>2. e \in Pending => e \in Pending'
    BY <1>1, <2>1, NoContext, NoneAdded DEF Pending
  <2>3. CASE patching /\ f
    <3>1. update' = lastIndex + 1 /\ execIdMap' = execIdMap \cup {lastIndex + 1}
      BY <1>9, <2>3 DEF SetAttribute, register
    <3>2. e = lastIndex + 1 \/ Live(e)
      BY <1>4, <2>1, <3>1, LiveBefore
    <3>3. e = lastIndex + 1 => e \in Pending'
      BY <3>1 DEF Pending
    <3>. QED
      BY <1>2, <1>3, <1>5, <2>1, <2>2, <3>2, <3>3 DEF Accounted
  <2>4. CASE ~(patching /\ f)
    <3>1. UNCHANGED execIdMap
      BY <1>9, <2>4 DEF SetAttribute
    <3>2. Live(e)
      BY <1>4, <2>1, <3>1, LiveBefore
    <3>. QED
      BY <1>2, <1>3, <1>5, <2>1, <2>2, <3>2 DEF Accounted
  <2>. QED
    BY <2>3, <2>4
<1>10. CASE Hydrate
  <2>1. /\ UNCHANGED <<toMain, delayedData, fnExecId>> /\ ~rendering /\ ~hydrating
        /\ toBackground # <<>> /\ toBackground' = Tail(toBackground)
        /\ Head(toBackground).type = "firstScreen"
    BY <1>10 DEF Hydrate, Next2Background
  <2>2. update = Unchanged
    BY <2>1 DEF PhaseInv, UpdateInRender
  <2>3. e \in Pending => e \in Pending'
    BY <1>1, <2>1, <2>2, NoContext, NoneAdded DEF Pending
  <2>4. \/ update' = lastIndex + 1 /\ execIdMap' = execIdMap \cup {lastIndex + 1}
        \/ UNCHANGED execIdMap
    BY <1>10 DEF Hydrate, register
  <2>5. Live(e) \/ (e = lastIndex + 1 /\ update' = e)
    BY <1>4, <2>1, <2>4, LiveBefore
  <2>6. update' = e => e \in Pending'
    BY DEF Pending
  <2>. QED
    BY <1>2, <1>3, <1>5, <2>1, <2>3, <2>5, <2>6 DEF Accounted
<1>. QED
  BY <1>6, <1>7, <1>7a, <1>8, <1>9, <1>10

LEMMA MainAccounts ==
  ASSUME TypeOK, TypeOK', ContextInv, ContextInv', AllAccounted,
         \/ RunHandler \/ \E h \in held : runOnBackground(h) \/ EndRun(h)
         \/ \E S \in SUBSET retained : Collect(S)
         \/ updateMainThread \/ BackgroundCallReturns
  PROVE  AllAccounted'
<1> SUFFICES ASSUME app' \cap {"plain", "repeats"} = {}, NEW e \in ExecIds, Live(e)'
             PROVE  Accounted(e)'
  BY DEF AllAccounted
<1>1. UNCHANGED <<app, bgVars>>
  BY DEF RunHandler, runOnBackground, EndRun, Collect, updateMainThread, BackgroundCallReturns
<1>2. "plain" \notin app /\ (Live(e) => Accounted(e))
  BY <1>1 DEF AllAccounted
<1>3. UNCHANGED Pending /\ e \in execIdMap
  BY <1>1, NoneAdded DEF bgVars, Pending, Live
<1>4. ASSUME UNCHANGED toMain PROVE Sent(e) => Sent(e)'
  BY <1>4 DEF Sent
<1>6. CASE RunHandler
  <2>1. UNCHANGED <<toMain, toBackground>> /\ retained \subseteq retained'
    BY <1>6 DEF RunHandler, addRefs
  <2>. QED
    BY <1>2, <1>3, <1>4, <2>1, LiveBefore DEF Accounted, Retained
<1>7. ASSUME NEW h \in held, EndRun(h) PROVE Accounted(e)'
  <2>1. UNCHANGED <<toMain, toBackground, retained>>
    BY <1>7 DEF EndRun
  <2>. QED
    BY <1>2, <1>3, <1>4, <2>1, LiveBefore DEF Accounted, Retained
<1>8. ASSUME NEW h \in held, runOnBackground(h) PROVE Accounted(e)'
  <2>1. UNCHANGED <<toMain, retained>>
    BY <1>8 DEF runOnBackground
  <2>2. UNCHANGED toBackground \/ \E d \in Seq(BackgroundMessages) : toBackground' = toBackground \o d
    <3>1. CASE IsDelayed(h)
      BY <1>8, <3>1 DEF runOnBackground
    <3>2. CASE ~IsDelayed(h)
      <4> DEFINE r == RunOnBackground(ExecIdOf(h), bCalls')
      <4>1. toBackground' = Append(toBackground, r)
        BY <1>8, <3>2 DEF runOnBackground
      <4> HIDE DEF r
      <4>2. toBackground \in Seq(BackgroundMessages) /\ toBackground' \in Seq(BackgroundMessages)
        BY DEF TypeOK
      <4>3. r \in BackgroundMessages
        <5>1. Len(toBackground) + 1 \in 1..Len(toBackground')
              /\ toBackground'[Len(toBackground) + 1] = r
          BY <4>1, <4>2, AppendProperties
        <5>. QED
          BY <4>2, <5>1, ElementOfSeq
      <4>4. <<r>> \in Seq(BackgroundMessages) /\ toBackground' = toBackground \o <<r>>
        BY <4>1, <4>2, <4>3, AppendIsConcat
      <4>. QED
        BY <4>4
    <3>. QED
      BY <3>1, <3>2
  <2>. QED
    BY <1>2, <1>3, <1>4, <2>1, <2>2, LiveBefore DEF Accounted, Retained
<1>9. ASSUME NEW S \in SUBSET retained, Collect(S) PROVE Accounted(e)'
  <2> DEFINE toFire == {x \in {o.execId : o \in S} : IsUnreferenced(x, S)}
  <2>1. /\ UNCHANGED toMain /\ retained' = retained \ S
        /\ refCount' = [x \in ExecIds |-> Counted(x, S)]
        /\ toBackground' =
             IF toFire = {} THEN toBackground ELSE Append(toBackground, Release(toFire))
    BY <1>9 DEF Collect
  <2>2. toFire \subseteq ExecIds
    <3>1. \A o \in S : o.execId \in ExecIds
      BY DEF TypeOK, Objects
    <3>. QED
      BY <3>1
  <2>3. e \in toFire <=> (\E o \in S : o.execId = e) /\ Counted(e, S) = 0
    BY DEF IsUnreferenced
  <2> HIDE DEF toFire
  <2>4. Live(e) /\ e \notin toFire
    <3>1. CASE toFire = {}
      BY <1>3, <2>1, <3>1, LiveBefore
    <3>2. CASE toFire # {}
      <4> DEFINE r == Release(toFire)
      <4>1. toBackground' = Append(toBackground, r) /\ r \in BackgroundMessages
        BY <2>1, <2>2, <3>2, BackgroundMessageTypes
      <4>2. r.type = "releaseBackgroundWorkletCtx" /\ r.execIds = toFire
        BY DEF Release
      <4> HIDE DEF r
      <4>3. /\ <<r>> \in Seq(BackgroundMessages) /\ toBackground' = toBackground \o <<r>>
            /\ Len(toBackground) + 1 \in 1..Len(toBackground')
            /\ toBackground'[Len(toBackground) + 1] = r
        <5>1. toBackground \in Seq(BackgroundMessages)
          BY DEF TypeOK
        <5>2. toBackground' = toBackground \o <<r>> /\ <<r>> \in Seq(BackgroundMessages)
          BY <4>1, <5>1, AppendIsConcat
        <5>3. Len(toBackground') = Len(toBackground) + 1 /\ Len(toBackground) \in Nat
              /\ toBackground'[Len(toBackground) + 1] = r
          BY <4>1, <5>1, AppendProperties
        <5>. QED
          BY <5>2, <5>3
      <4>4. Live(e)
        BY <1>3, <4>3, LiveBefore
      <4>5. e \notin toFire
        BY <4>2, <4>3 DEF Live, Releases
      <4>. QED
        BY <4>4, <4>5
    <3>. QED
      BY <3>1, <3>2
  <2>5. Retained(e) => Retained(e)'
    <3>1. CASE \E o \in S : o.execId = e
      <4>1. Counted(e, S) # 0
        BY <2>3, <2>4, <3>1
      <4>2. Counted(e, S) = Cardinality(Objs(e)')
        BY <2>1 DEF ContextInv, RefsCounted
      <4>3. Objs(e)' # {}
        BY <4>1, <4>2, FS_EmptySet
      <4>. QED
        BY <4>3 DEF Objs, Retained
    <3>2. CASE ~ \E o \in S : o.execId = e
      BY <2>1, <3>2 DEF Retained
    <3>. QED
      BY <3>1, <3>2
  <2>. QED
    BY <1>2, <1>3, <1>4, <2>1, <2>4, <2>5 DEF Accounted
<1>10. CASE updateMainThread
  <2> DEFINE m == Head(toMain)
             S == {Ctx(x) : x \in {m.value} \cap ExecIds} \cup HandlesOf(m.calls)
  <2>1. /\ m \in MainMessages /\ m.type \in {"patch", "runWorkletCtx"}
        /\ toMain # <<>> /\ toMain' = Tail(toMain) /\ addRefs(S)
    BY <1>10, HeadTailProperties DEF updateMainThread, TypeOK
  <2>2. m.calls \in Seq(Calls) /\ (m.hydration => m.value \in ExecIds \cup {Nothing})
    BY <2>1, PatchTypes
  <2>3. Sent(e) => Sent(e)' \/ e \in Ids(m)
    BY <2>1, SentLeft
  <2>4. e \in Ids(m) => Retained(e)'
    <3>1. CASE e = m.value
      <4>1. Ctx(e) \in S /\ Ctx(e).execId = e
        BY <3>1 DEF Ctx
      <4> HIDE DEF S
      <4>. QED
        BY <2>1, <4>1 DEF addRefs, Retained
    <3>2. ASSUME NEW k \in DOMAIN m.calls, e = m.calls[k].execId PROVE Retained(e)'
      <4>1. Handle(e, m.calls[k].id) \in S /\ Handle(e, m.calls[k].id).execId = e
        BY <1>2, <3>2 DEF Handle, HandlesOf
      <4> HIDE DEF S
      <4>. QED
        BY <2>1, <4>1 DEF addRefs, Retained
    <3>. QED
      BY <3>1, <3>2 DEF Ids
  <2>5. Retained(e) => Retained(e)'
    BY <2>1 DEF addRefs, Retained
  <2>6. Live(e)
    <3>1. PICK d \in Seq(BackgroundMessages) : toBackground' = toBackground \o d
      <4> DEFINE r == Returns(m.calls)
                 q == IF m.hydration THEN DelayedRuns(m.value) ELSE <<>>
      <4>1. r \in Seq(BackgroundMessages) /\ q \in Seq(BackgroundMessages)
        BY <2>2, ReturnsType, DelayedRunsType, EmptySeq
      <4>2. toBackground' = toBackground \o q \o r
        BY <1>10 DEF updateMainThread
      <4> HIDE DEF q, r
      <4>3. toBackground \in Seq(BackgroundMessages)
        BY DEF TypeOK
      <4>4. (toBackground \o q) \o r = toBackground \o (q \o r)
        BY <4>1, <4>3, ConcatAssociative
      <4>5. q \o r \in Seq(BackgroundMessages)
        BY <4>1, ConcatProperties
      <4>. QED
        BY <4>2, <4>4, <4>5
    <3>. QED
      BY <1>3, <3>1, LiveBefore
  <2>. QED
    BY <1>2, <1>3, <2>3, <2>4, <2>5, <2>6 DEF Accounted
<1>11. CASE BackgroundCallReturns
  <2>1. /\ UNCHANGED <<toBackground, retained>> /\ toMain # <<>> /\ toMain' = Tail(toMain)
        /\ Head(toMain).type = "FunctionCallRet"
    BY <1>11 DEF BackgroundCallReturns
  <2>2. Ids(Head(toMain)) = {}
    <3>1. Head(toMain) \in MainMessages
      BY <2>1, HeadTailProperties DEF TypeOK
    <3>2. Head(toMain).value = Unchanged /\ Head(toMain).calls \in Seq([execId : {0}, id : BackgroundCalls])
      BY <2>1, <3>1 DEF MainMessages
    <3>3. ASSUME NEW k \in DOMAIN Head(toMain).calls PROVE Head(toMain).calls[k].execId = 0
      <4> DEFINE calls == Head(toMain).calls
                 T == [execId : {0}, id : BackgroundCalls]
      <4>1. calls \in Seq(T) /\ k \in DOMAIN calls
        BY <3>2
      <4>2. \A c \in T : c.execId = 0
        OBVIOUS
      <4> HIDE DEF calls, T
      <4>3. k \in 1..Len(calls)
        BY <4>1
      <4>4. calls[k] \in T
        BY <4>1, <4>3, ElementOfSeq
      <4>5. calls[k].execId = 0
        BY <4>2, <4>4
      <4>. QED
        BY <4>5 DEF calls
    <3>4. 0 \notin ExecIds
      BY ConstantsAssumption DEF ExecIds
    <3>. QED
      BY <3>2, <3>3, <3>4, NoContext DEF Ids
  <2>3. Sent(e) => Sent(e)'
    BY <2>1, <2>2, SentLeft
  <2>4. Live(e)
    BY <1>3, <2>1, LiveBefore
  <2>. QED
    BY <1>2, <1>3, <2>1, <2>3, <2>4 DEF Accounted, Retained
<1>. QED
  BY <1>6, <1>7, <1>8, <1>9, <1>10, <1>11

LEMMA AccountsInductive ==
  TypeOK /\ PhaseInv /\ OrderlyContexts /\ AllAccounted /\ [Next]_vars => AllAccounted'
<1> SUFFICES ASSUME TypeOK, PhaseInv, OrderlyContexts, AllAccounted, [Next]_vars,
                    app' \cap {"plain", "repeats"} = {}
             PROVE  AllAccounted'
  BY DEF AllAccounted
<1>1. TypeOK' /\ OrderlyContexts'
  BY TypeInductive, ContextInductive
<1>o. ContextInv /\ ContextInv'
  <2>1. UNCHANGED app
    BY DEF Next, Receive, BeginRender, Commit, CommitHydration, runOnMainThread, SetAttribute,
           Hydrate, runBackgroundFunction, releaseBackgroundFunctionCtx, MainCallReturns, RunHandler,
           runOnBackground, EndRun, Collect, updateMainThread, BackgroundCallReturns, vars
  <2>2. Orderly /\ Orderly'
    BY <2>1 DEF Orderly
  <2>. QED
    BY <1>1, <2>2 DEF OrderlyContexts
<1>2. CASE UNCHANGED vars
  <2>1. UNCHANGED Pending
    BY <1>2, NoneAdded DEF vars, bgVars, Pending
  <2>. QED
    BY <1>2, <2>1 DEF vars, bgVars, mainVars, AllAccounted, Accounted, Retained, Sent, Live, Releases
<1>3. CASE Next
  BY <1>1, <1>o, <1>3, BackgroundAccounts, MainAccounts DEF Next, Receive
<1>. QED
  BY <1>2, <1>3

\* No context stays on the background thread for nothing: one that is kept is with the main
\* thread, on its way to it, waiting to be sent or about to be released, and the counts of
\* the main thread are right, whatever is collected when.
THEOREM ContextsReleased == Spec => []NoContextLeaks
<1>1. TypeOK /\ OrderlyContexts /\ AllAccounted => NoContextLeaks
  <2> SUFFICES ASSUME TypeOK, ContextInv, AllAccounted, app \cap {"plain", "repeats"} = {}
               PROVE  /\ \A e \in execIdMap :
                           \/ e \in Released \/ e \in {o.execId : o \in retained}
                           \/ e \in ExecIds /\ (SentToMain(e) \/ ToBeSent(e))
                      /\ \A e \in ExecIds :
                           refCount[e] = Cardinality({o \in retained : o.execId = e})
    BY DEF NoContextLeaks, OrderlyContexts, Orderly
  <2>1. \A e \in ExecIds : refCount[e] = Cardinality({o \in retained : o.execId = e})
    BY DEF ContextInv, RefsCounted, Objs
  <2>2. ASSUME NEW e \in execIdMap, e \notin Released
        PROVE  \/ e \in {o.execId : o \in retained}
               \/ e \in ExecIds /\ (SentToMain(e) \/ ToBeSent(e))
    <3>1. e \in ExecIds
      BY DEF TypeOK
    <3>2. Live(e)
      <4>1. DOMAIN toBackground = 1..Len(toBackground)
        BY DEF TypeOK
      <4>. QED
        BY <2>2, <4>1 DEF Live, Released
    <3>3. Retained(e) \/ Sent(e) \/ e \in Pending
      BY <3>1, <3>2 DEF AllAccounted, Accounted
    <3>4. Sent(e) => SentToMain(e)
      <4>1. DOMAIN toMain = 1..Len(toMain)
        BY DEF TypeOK
      <4>. QED
        BY <4>1 DEF Sent, SentToMain, Ids
    <3>5. e \in Pending => ToBeSent(e)
      BY DEF Pending, Waiting, ToBeSent
    <3>. QED
      BY <3>1, <3>3, <3>4, <3>5 DEF Retained
  <2>. QED
    BY <2>1, <2>2
<1>2. /\ TypeOK /\ PhaseInv /\ OrderlyContexts /\ AllAccounted /\ [Next]_vars
        => (TypeOK /\ PhaseInv /\ OrderlyContexts /\ AllAccounted)'
  BY TypeInductive, PhaseInductive, ContextInductive, AccountsInductive
<1>3. Init => TypeOK /\ PhaseInv /\ OrderlyContexts /\ AllAccounted
  BY TypeInitial, PhaseInitial, ContextInitial DEF OrderlyContexts, Init, AllAccounted, Live
<1>. QED
  BY <1>1, <1>2, <1>3, PTL DEF Spec

-----------------------------------------------------------------------------
(* The inductive invariant behind CallsRunInOrder.  For each direction the  *)
(* calls form a line: those started, those in messages, those delayed.      *)

Increasing(s) == \A m, n \in DOMAIN s : m < n => s[m] < s[n]
Numbers(s) == {s[i] : i \in DOMAIN s}
Before(A, B, ahead) == \A a \in A, b \in B : MayPrecede(a, b, ahead)

\* The calls that a message to the main thread makes.
RunIds(m) == IF m.type = "FunctionCallRet" THEN {} ELSE {m.calls[k].id : k \in DOMAIN m.calls}
InLine(m) ==
  m.type # "FunctionCallRet" => \A i, j \in DOMAIN m.calls : i < j => m.calls[i].id < m.calls[j].id

\* Those that are delayed are never ahead of their turn.
DelayedIds == [n \in DOMAIN delayedData |-> delayedData[n].id]
MainLine(started, q, delayed, N, ahead) ==
  /\ InOrder(started, ahead) /\ Increasing(delayed)
  /\ \A n \in DOMAIN q : InLine(q[n]) /\ RunIds(q[n]) \subseteq 1..N
  /\ \A n, k \in DOMAIN q : n < k => Before(RunIds(q[n]), RunIds(q[k]), ahead)
  /\ \A n \in DOMAIN q : /\ Before(Numbers(started), RunIds(q[n]), ahead)
                         /\ Before(RunIds(q[n]), Numbers(delayed), ahead)
  /\ Before(Numbers(started), Numbers(delayed), ahead)
  /\ Numbers(started) \subseteq 1..N /\ Numbers(delayed) \subseteq 1..N \ ahead /\ ahead \subseteq 1..N

\* ... and one to the background thread.
CallIds(m) == IF m.type = "runOnBackground" THEN {m.id} ELSE {}

BackgroundLine(started, q, N, ahead) ==
  /\ InOrder(started, ahead) /\ Numbers(started) \subseteq 1..N /\ ahead \subseteq 1..N
  /\ \A n \in DOMAIN q : /\ CallIds(q[n]) \subseteq 1..N
                         /\ Before(Numbers(started), CallIds(q[n]), ahead)
  /\ \A n, k \in DOMAIN q : n < k => Before(CallIds(q[n]), CallIds(q[k]), ahead)

\* Until the hydration patch arrives, the calls that are sent are all ahead of those delayed.
Delaying(started, q, delayed, N, ahead) ==
  /\ Numbers(started) \subseteq ahead /\ \A n \in DOMAIN q : CallIds(q[n]) \subseteq ahead
  /\ Increasing(delayed) /\ Numbers(delayed) \subseteq 1..N \ ahead

Blank ==
  /\ first.isFirstScreen /\ held \subseteq {FirstHandle} /\ ctx = FirstScreen /\ retained = {}
  /\ bStarted = <<>> /\ early = {} /\ Increasing(delayedFns) /\ Numbers(delayedFns) \subseteq 1..bCalls
BeforeHydration == ~patching /\ toMain = <<>> /\ toBackground = <<FirstScreenMsg>> /\ Blank

\* The hydration patch is not sent, on its way, or taken.
IsPlain(m) == ~m.hydration /\ m.value = Unchanged
PatchToCome == hydrating /\ \A n \in DOMAIN toMain : IsPlain(toMain[n])
PatchAt(q, k) ==
  q[k].hydration /\ \A n \in DOMAIN q : (n # k => ~q[n].hydration) /\ (n < k => IsPlain(q[n]))
PatchOnItsWay == ~hydrating /\ \E k \in DOMAIN toMain : PatchAt(toMain, k)
PatchTaken == ~hydrating /\ \A n \in DOMAIN toMain : ~toMain[n].hydration

Replayed ==
  /\ patching /\ \A n \in DOMAIN toBackground : toBackground[n].type # "firstScreen"
  /\ BackgroundLine(bStarted, toBackground, bCalls, early)
NotHydrated ==
  ctx = FirstScreen /\ Delaying(bStarted, toBackground, delayedFns, bCalls, early)

LineInv ==
  /\ MainLine(mStarted, toMain, DelayedIds, mCalls, replayed)
  /\ \/ BeforeHydration
     \/ Replayed /\ NotHydrated /\ (PatchToCome \/ PatchOnItsWay)
     \/ Replayed /\ PatchTaken

\* An order is not changed by a later call that is ahead.
LEMMA OrderGrows ==
  ASSUME NEW N \in Nat, NEW M \in Nat, NEW ah \in SUBSET (1..N), NEW bh, ah \subseteq bh, bh \ ah \subseteq 1..M \ 1..N
  PROVE  /\ \A A, B \in SUBSET (1..N) : Before(A, B, ah) => Before(A, B, bh)
         /\ \A A \in SUBSET (1..N), B \in SUBSET (1..M \ 1..N) : Before(A, B, bh)
<1>1. ASSUME NEW a \in 1..N, NEW b \in 1..M \ 1..N PROVE a < b
  OBVIOUS
<1>2. \A a \in 1..N : a \in bh <=> a \in ah
  OBVIOUS
<1>. QED
  BY <1>1, <1>2 DEF Before, MayPrecede

LEMMA OrderAppend ==
  ASSUME NEW s \in Seq(Nat), NEW x \in Nat, NEW ah, InOrder(s, ah), Before(Numbers(s), {x}, ah)
  PROVE  InOrder(Append(s, x), ah) /\ Numbers(Append(s, x)) = Numbers(s) \cup {x}
<1> DEFINE r == Append(s, x)
<1>1. /\ Len(s) \in Nat /\ DOMAIN s = 1..Len(s) /\ DOMAIN r = 1..(Len(s) + 1)
      /\ r[Len(s) + 1] = x /\ \A i \in 1..Len(s) : r[i] = s[i]
  OBVIOUS
<1>2. \A i \in 1..Len(s) : MayPrecede(s[i], x, ah)
  BY <1>1 DEF Before, Numbers
<1> HIDE DEF r
<1>3. InOrder(r, ah)
  <2> SUFFICES ASSUME NEW m \in 1..(Len(s) + 1), NEW n \in 1..(Len(s) + 1), m < n
               PROVE  MayPrecede(r[m], r[n], ah)
    BY <1>1 DEF InOrder
  <2>1. m \in 1..Len(s)
    BY <1>1
  <2>2. CASE n \in 1..Len(s)
    BY <1>1, <2>1, <2>2 DEF InOrder
  <2>3. CASE n = Len(s) + 1
    BY <1>1, <1>2, <2>1, <2>3
  <2>. QED
    BY <1>1, <2>2, <2>3
<1>4. Numbers(r) = Numbers(s) \cup {x}
  <2>1. \A i \in 1..(Len(s) + 1) : i \in 1..Len(s) \/ i = Len(s) + 1
    BY <1>1
  <2>2. (\A i \in 1..Len(s) : i \in 1..(Len(s) + 1)) /\ Len(s) + 1 \in 1..(Len(s) + 1)
    BY <1>1
  <2>. QED
    BY <1>1, <2>1, <2>2 DEF Numbers
<1>. QED
  BY <1>3, <1>4 DEF r

LEMMA IncreasingAppend ==
  ASSUME NEW s \in Seq(Nat), NEW N \in Nat, Increasing(s), Numbers(s) \subseteq 1..N
  PROVE  Increasing(Append(s, N + 1)) /\ Numbers(Append(s, N + 1)) = Numbers(s) \cup {N + 1}
<1>1. \A q : Increasing(q) <=> InOrder(q, {})
  BY DEF Increasing, InOrder, MayPrecede
<1>2. Before(Numbers(s), {N + 1}, {}) /\ N + 1 \in Nat
  BY DEF Before, MayPrecede
<1>. QED
  BY <1>1, <1>2, OrderAppend

LEMMA OrderConcat ==
  ASSUME NEW s \in Seq(Nat), NEW d \in Seq(Nat), NEW ah, InOrder(s, ah), Increasing(d),
         Before(Numbers(s), Numbers(d), ah)
  PROVE  InOrder(s \o d, ah) /\ Numbers(s \o d) = Numbers(s) \cup Numbers(d)
<1> DEFINE r == s \o d
<1>1. /\ Len(s) \in Nat /\ DOMAIN s = 1..Len(s) /\ Len(d) \in Nat /\ DOMAIN d = 1..Len(d)
      /\ DOMAIN r = 1..(Len(s) + Len(d))
      /\ \A i \in 1..Len(s) : r[i] = s[i]
      /\ \A i \in 1..Len(d) : r[Len(s) + i] = d[i]
  OBVIOUS
<1>2. \A i \in 1..Len(s), j \in 1..Len(d) : MayPrecede(s[i], d[j], ah)
  BY <1>1 DEF Before, Numbers
<1>3. \A i \in 1..(Len(s) + Len(d)) : i \in 1..Len(s) \/ (i - Len(s) \in 1..Len(d) /\ i = Len(s) + (i - Len(s)))
  BY <1>1
<1>4. /\ \A i \in 1..Len(s) : i \in 1..(Len(s) + Len(d))
      /\ \A i \in 1..Len(d) : Len(s) + i \in 1..(Len(s) + Len(d))
  BY <1>1
<1> HIDE DEF r
<1>5. \A i \in 1..(Len(s) + Len(d)) : \/ i \in 1..Len(s) /\ r[i] = s[i]
                                      \/ i - Len(s) \in 1..Len(d) /\ r[i] = d[i - Len(s)]
  BY <1>1, <1>3
<1>6. InOrder(r, ah)
  <2> SUFFICES ASSUME NEW m \in 1..(Len(s) + Len(d)), NEW n \in 1..(Len(s) + Len(d)), m < n
               PROVE  MayPrecede(r[m], r[n], ah)
    BY <1>1 DEF InOrder
  <2>1. CASE m \in 1..Len(s) /\ n \in 1..Len(s)
    BY <1>1, <2>1 DEF InOrder
  <2>2. CASE m \in 1..Len(s) /\ n - Len(s) \in 1..Len(d)
    <3>1. r[m] = s[m] /\ r[n] = d[n - Len(s)]
      BY <1>1, <1>5, <2>2
    <3>. QED
      BY <1>2, <2>2, <3>1
  <2>3. CASE m - Len(s) \in 1..Len(d) /\ n - Len(s) \in 1..Len(d)
    <3>1. r[m] = d[m - Len(s)] /\ r[n] = d[n - Len(s)] /\ m - Len(s) < n - Len(s)
      BY <1>1, <1>5, <2>3
    <3>. QED
      BY <1>1, <2>3, <3>1 DEF Increasing, MayPrecede
  <2>. QED
    BY <1>1, <1>3, <2>1, <2>2, <2>3
<1>7. Numbers(r) = Numbers(s) \cup Numbers(d)
  <2>1. Numbers(r) \subseteq Numbers(s) \cup Numbers(d)
    BY <1>1, <1>5 DEF Numbers
  <2>2. Numbers(s) \cup Numbers(d) \subseteq Numbers(r)
    BY <1>1, <1>4 DEF Numbers
  <2>. QED
    BY <2>1, <2>2
<1>. QED
  BY <1>6, <1>7 DEF r

\* A queue before and after a message is added to it.
LEMMA QueueAppend ==
  ASSUME NEW S, NEW q \in Seq(S), NEW m \in S
  PROVE  /\ DOMAIN Append(q, m) = DOMAIN q \cup {Len(q) + 1} /\ Append(q, m)[Len(q) + 1] = m
         /\ \A n \in DOMAIN q : Append(q, m)[n] = q[n] /\ n < Len(q) + 1 /\ n \in Nat
         /\ Len(q) + 1 \in Nat
  OBVIOUS

\* ... and one is taken.
LEMMA QueueTail ==
  ASSUME NEW S, NEW q \in Seq(S), q # <<>>
  PROVE  /\ \A n \in DOMAIN Tail(q) : /\ Tail(q)[n] = q[n + 1] /\ n + 1 \in DOMAIN q
                                      /\ n \in Nat /\ 1 < n + 1
         /\ 1 \in DOMAIN q /\ Head(q) = q[1]
<1>1. /\ Len(q) \in Nat \ {0} /\ Len(Tail(q)) = Len(q) - 1 /\ Head(q) = q[1] /\ Tail(q) \in Seq(S)
      /\ \A i \in 1..Len(Tail(q)) : Tail(q)[i] = q[i + 1]
  BY HeadTailProperties
<1>2. DOMAIN q = 1..Len(q) /\ DOMAIN Tail(q) = 1..Len(Tail(q))
  BY <1>1
<1>. QED
  BY <1>1, <1>2

\* A call is delayed.
LEMMA LineDelay ==
  ASSUME NEW s \in Seq(Nat), NEW q, NEW d \in Seq(Nat), NEW N \in Nat, NEW ah,
         MainLine(s, q, d, N, ah)
  PROVE  MainLine(s, q, Append(d, N + 1), N + 1, ah)
<1>1. \A A \in SUBSET (1..N) : Before(A, {N + 1}, ah) /\ A \subseteq 1..(N + 1)
  BY DEF Before, MayPrecede
<1>2. Increasing(Append(d, N + 1)) /\ Numbers(Append(d, N + 1)) = Numbers(d) \cup {N + 1}
  BY IncreasingAppend DEF MainLine
<1>3. N + 1 \in 1..(N + 1) /\ N + 1 \notin 1..N
  OBVIOUS
<1>4. \A A \in SUBSET (1..N) : Before(A, Numbers(d), ah) => Before(A, Numbers(d) \cup {N + 1}, ah)
  BY <1>1 DEF Before
<1>. QED
  BY <1>1, <1>2, <1>3, <1>4 DEF MainLine

\* A message is sent: one with the delayed calls, with a new one, or without.
LEMMA LineSend ==
  ASSUME NEW s, NEW q \in Seq(MainMessages), NEW d, NEW N \in Nat, NEW M \in Nat, NEW ah,
         MainLine(s, q, d, N, ah), N <= M,
         NEW bh \in SUBSET (1..M), ah \subseteq bh, bh \ ah \subseteq 1..M \ 1..N,
         NEW m \in MainMessages, InLine(m), RunIds(m) \subseteq Numbers(d) \cup (1..M \ 1..N),
         NEW e, Increasing(e), Numbers(e) \subseteq Numbers(d), Before(RunIds(m), Numbers(e), bh)
  PROVE  MainLine(s, Append(q, m), e, M, bh)
<1>1. 1..N \subseteq 1..M /\ ah \in SUBSET (1..N) /\ Numbers(d) \subseteq 1..N \ ah
  BY DEF MainLine
<1>g. /\ \A A, B \in SUBSET (1..N) : Before(A, B, ah) => Before(A, B, bh)
      /\ \A A \in SUBSET (1..N), B \in SUBSET (1..M \ 1..N) : Before(A, B, bh)
  BY <1>1, OrderGrows
<1>2. \A A \in SUBSET (1..N) : Before(A, Numbers(d), ah)
                                 => Before(A, RunIds(m), bh) /\ Before(A, Numbers(e), bh)
  <2> SUFFICES ASSUME NEW A \in SUBSET (1..N), Before(A, Numbers(d), ah)
               PROVE  Before(A, RunIds(m), bh) /\ Before(A, Numbers(e), bh)
    OBVIOUS
  <2>1. Before(A, Numbers(d), bh) /\ Before(A, 1..M \ 1..N, bh)
    BY <1>1, <1>g
  <2>. QED
    BY <2>1 DEF Before
<1>3. /\ DOMAIN Append(q, m) = DOMAIN q \cup {Len(q) + 1} /\ Append(q, m)[Len(q) + 1] = m
      /\ \A n \in DOMAIN q : Append(q, m)[n] = q[n] /\ n < Len(q) + 1 /\ n \in Nat
      /\ Len(q) + 1 \in Nat
  BY QueueAppend
<1> DEFINE r == Append(q, m)
<1> HIDE DEF r
<1>4. \A n \in DOMAIN r : InLine(r[n]) /\ RunIds(r[n]) \subseteq 1..M
  BY <1>1, <1>3 DEF MainLine, r
<1>5. \A n, k \in DOMAIN r : n < k => Before(RunIds(r[n]), RunIds(r[k]), bh)
  <2> SUFFICES ASSUME NEW n \in DOMAIN r, NEW k \in DOMAIN r, n < k
               PROVE  Before(RunIds(r[n]), RunIds(r[k]), bh)
    OBVIOUS
  <2>1. n \in DOMAIN q
    BY <1>3 DEF r
  <2>2. CASE k \in DOMAIN q
    BY <1>3, <1>g, <2>1, <2>2 DEF MainLine, r
  <2>3. CASE k = Len(q) + 1
    BY <1>2, <1>3, <2>1, <2>3 DEF MainLine, r
  <2>. QED
    BY <1>3, <2>2, <2>3 DEF r
<1>6. \A n \in DOMAIN r : Before(Numbers(s), RunIds(r[n]), bh) /\ Before(RunIds(r[n]), Numbers(e), bh)
  <2> SUFFICES ASSUME NEW n \in DOMAIN r
               PROVE  Before(Numbers(s), RunIds(r[n]), bh) /\ Before(RunIds(r[n]), Numbers(e), bh)
    OBVIOUS
  <2>1. CASE n \in DOMAIN q
    BY <1>2, <1>3, <1>g, <2>1 DEF MainLine, r
  <2>2. CASE n = Len(q) + 1
    BY <1>2, <1>3, <2>2 DEF MainLine, r
  <2>. QED
    BY <1>3, <2>1, <2>2 DEF r
<1>7. InOrder(s, bh)
  <2>1. \A a, b \in 1..N : MayPrecede(a, b, ah) => MayPrecede(a, b, bh)
    BY <1>1 DEF MayPrecede
  <2>2. \A i \in DOMAIN s : s[i] \in 1..N
    BY DEF MainLine, Numbers
  <2>. QED
    BY <2>1, <2>2 DEF MainLine, InOrder
<1>8. Before(Numbers(s), Numbers(e), bh) /\ Numbers(s) \subseteq 1..M /\ Numbers(e) \subseteq 1..M \ bh
  BY <1>1, <1>2 DEF MainLine
<1>. QED
  BY <1>4, <1>5, <1>6, <1>7, <1>8 DEF MainLine, r

\* The first message is taken: its calls start, in order.
LEMMA LineTake ==
  ASSUME NEW s \in Seq(Nat), NEW q \in Seq(MainMessages), NEW d, NEW N \in Nat, NEW ah, MainLine(s, q, d, N, ah),
         q # <<>>, NEW c \in Seq(Nat), Increasing(c), Numbers(c) = RunIds(Head(q))
  PROVE  MainLine(s \o c, Tail(q), d, N, ah)
<1>1. /\ \A n \in DOMAIN Tail(q) : Tail(q)[n] = q[n + 1] /\ n + 1 \in DOMAIN q /\ n \in Nat /\ 1 < n + 1
      /\ 1 \in DOMAIN q /\ Head(q) = q[1]
  BY QueueTail
<1>2. InOrder(s \o c, ah) /\ Numbers(s \o c) = Numbers(s) \cup RunIds(q[1])
  BY <1>1, OrderConcat DEF MainLine
<1> DEFINE r == Tail(q)
<1> HIDE DEF r
<1>3. \A A, B, C : Before(A, C, ah) /\ Before(B, C, ah) => Before(A \cup B, C, ah)
  BY DEF Before
<1>4. \A n \in DOMAIN r : /\ InLine(r[n]) /\ RunIds(r[n]) \subseteq 1..N
                          /\ Before(Numbers(s), RunIds(r[n]), ah) /\ Before(RunIds(q[1]), RunIds(r[n]), ah)
                          /\ Before(RunIds(r[n]), Numbers(d), ah)
  BY <1>1 DEF MainLine, r
<1>5. \A n, k \in DOMAIN r : n < k => Before(RunIds(r[n]), RunIds(r[k]), ah)
  <2> SUFFICES ASSUME NEW n \in DOMAIN r, NEW k \in DOMAIN r, n < k
               PROVE  Before(RunIds(r[n]), RunIds(r[k]), ah)
    OBVIOUS
  <2>1. n + 1 \in DOMAIN q /\ k + 1 \in DOMAIN q /\ n + 1 < k + 1 /\ r[n] = q[n + 1] /\ r[k] = q[k + 1]
    BY <1>1 DEF r
  <2>. QED
    BY <2>1 DEF MainLine
<1>6. /\ Before(Numbers(s), Numbers(d), ah) /\ Before(RunIds(q[1]), Numbers(d), ah) /\ Increasing(d)
      /\ Numbers(s) \subseteq 1..N /\ RunIds(q[1]) \subseteq 1..N /\ Numbers(d) \subseteq 1..N \ ah /\ ah \subseteq 1..N
  BY <1>1 DEF MainLine
<1>7. \A n \in DOMAIN r : Before(Numbers(s \o c), RunIds(r[n]), ah)
  BY <1>2, <1>3, <1>4
<1>8. Before(Numbers(s \o c), Numbers(d), ah) /\ Numbers(s \o c) \subseteq 1..N
  BY <1>2, <1>3, <1>6
<1>. QED
  BY <1>2, <1>4, <1>5, <1>6, <1>7, <1>8 DEF MainLine, r

-----------------------------------------------------------------------------
\* A call of the main thread is posted.
LEMMA CallPosted ==
  ASSUME NEW s, NEW q \in Seq(BackgroundMessages), NEW N \in Nat, NEW ah, BackgroundLine(s, q, N, ah),
         NEW m \in BackgroundMessages, CallIds(m) \subseteq {N + 1},
         NEW bh, bh = ah \/ bh = ah \cup {N + 1}
  PROVE  BackgroundLine(s, Append(q, m), N + 1, bh)
<1>0. /\ N + 1 \in Nat /\ N + 1 \in 1..(N + 1) /\ N + 1 \notin 1..N /\ 1..N \subseteq 1..(N + 1)
      /\ ah \subseteq 1..N
  BY DEF BackgroundLine
<1>1. /\ ah \in SUBSET (1..N) /\ ah \subseteq bh /\ bh \ ah \subseteq 1..(N + 1) \ 1..N /\ N + 1 \in Nat
      /\ bh \subseteq 1..(N + 1) /\ 1..N \subseteq 1..(N + 1) /\ CallIds(m) \subseteq 1..(N + 1) \ 1..N
  BY <1>0
<1>g. /\ \A A, B \in SUBSET (1..N) : Before(A, B, ah) => Before(A, B, bh)
      /\ \A A \in SUBSET (1..N), B \in SUBSET (1..(N + 1) \ 1..N) : Before(A, B, bh)
  BY <1>1, OrderGrows
<1>3. /\ DOMAIN Append(q, m) = DOMAIN q \cup {Len(q) + 1} /\ Append(q, m)[Len(q) + 1] = m
      /\ \A n \in DOMAIN q : Append(q, m)[n] = q[n] /\ n < Len(q) + 1 /\ n \in Nat
      /\ Len(q) + 1 \in Nat
  BY QueueAppend
<1> DEFINE r == Append(q, m)
<1> HIDE DEF r
<1>4. Numbers(s) \subseteq 1..N /\ InOrder(s, bh)
  <2>1. \A a, b \in 1..N : MayPrecede(a, b, ah) => MayPrecede(a, b, bh)
    BY <1>1 DEF MayPrecede
  <2>2. \A i \in DOMAIN s : s[i] \in 1..N
    BY DEF BackgroundLine, Numbers
  <2>. QED
    BY <2>1, <2>2 DEF BackgroundLine, InOrder
<1>5. \A n \in DOMAIN r : CallIds(r[n]) \subseteq 1..(N + 1) /\ Before(Numbers(s), CallIds(r[n]), bh)
  <2> SUFFICES ASSUME NEW n \in DOMAIN r
               PROVE  CallIds(r[n]) \subseteq 1..(N + 1) /\ Before(Numbers(s), CallIds(r[n]), bh)
    OBVIOUS
  <2>1. CASE n \in DOMAIN q
    BY <1>1, <1>3, <1>4, <1>g, <2>1 DEF BackgroundLine, r
  <2>2. CASE n = Len(q) + 1
    BY <1>1, <1>3, <1>4, <1>g, <2>2 DEF r
  <2>. QED
    BY <1>3, <2>1, <2>2 DEF r
<1>6. \A n, k \in DOMAIN r : n < k => Before(CallIds(r[n]), CallIds(r[k]), bh)
  <2> SUFFICES ASSUME NEW n \in DOMAIN r, NEW k \in DOMAIN r, n < k
               PROVE  Before(CallIds(r[n]), CallIds(r[k]), bh)
    OBVIOUS
  <2>1. n \in DOMAIN q /\ CallIds(r[n]) \in SUBSET (1..N)
    BY <1>3 DEF BackgroundLine, r
  <2>2. CASE k \in DOMAIN q
    BY <1>3, <1>g, <2>1, <2>2 DEF BackgroundLine, r
  <2>3. CASE k = Len(q) + 1
    BY <1>1, <1>3, <1>g, <2>1, <2>3 DEF r
  <2>. QED
    BY <1>3, <2>2, <2>3 DEF r
<1>. QED
  BY <1>1, <1>4, <1>5, <1>6 DEF BackgroundLine, r

\* Messages that make no call are posted.
LEMMA OthersPosted ==
  ASSUME NEW s, NEW q \in Seq(BackgroundMessages), NEW N \in Nat, NEW ah, BackgroundLine(s, q, N, ah),
         NEW d \in Seq(BackgroundMessages), \A n \in DOMAIN d : CallIds(d[n]) = {}
  PROVE  BackgroundLine(s, q \o d, N, ah)
<1> DEFINE r == q \o d
<1>1. \A n \in DOMAIN r : (n \in DOMAIN q /\ r[n] = q[n]) \/ CallIds(r[n]) = {}
  <2>1. /\ Len(q) \in Nat /\ DOMAIN q = 1..Len(q) /\ Len(d) \in Nat /\ DOMAIN d = 1..Len(d)
        /\ DOMAIN r = 1..(Len(q) + Len(d))
        /\ \A i \in 1..Len(q) : r[i] = q[i]
        /\ \A i \in 1..Len(d) : r[Len(q) + i] = d[i]
    OBVIOUS
  <2>2. \A i \in 1..(Len(q) + Len(d)) : i \in 1..Len(q) \/ (i - Len(q) \in 1..Len(d) /\ i = Len(q) + (i - Len(q)))
    BY <2>1
  <2> HIDE DEF r
  <2> SUFFICES ASSUME NEW n \in DOMAIN r
               PROVE  (n \in DOMAIN q /\ r[n] = q[n]) \/ CallIds(r[n]) = {}
    OBVIOUS
  <2>3. CASE n \in 1..Len(q)
    BY <2>1, <2>3
  <2>4. CASE n - Len(q) \in 1..Len(d) /\ n = Len(q) + (n - Len(q))
    <3>1. r[n] = d[n - Len(q)] /\ n - Len(q) \in DOMAIN d
      BY <2>1, <2>4
    <3>. QED
      BY <3>1
  <2>. QED
    BY <2>1, <2>2, <2>3, <2>4
<1> HIDE DEF r
<1>2. \A A : Before(A, {}, ah) /\ Before({}, A, ah)
  BY DEF Before
<1>3. \A n \in DOMAIN r : CallIds(r[n]) \subseteq 1..N /\ Before(Numbers(s), CallIds(r[n]), ah)
  BY <1>1, <1>2 DEF BackgroundLine
<1>4. ASSUME NEW n \in DOMAIN r, NEW k \in DOMAIN r, n < k
      PROVE  Before(CallIds(r[n]), CallIds(r[k]), ah)
  BY <1>1, <1>2, <1>4 DEF BackgroundLine
<1>. QED
  BY <1>3, <1>4 DEF BackgroundLine, r

\* The background thread takes a message: a call starts, or it does nothing to the line.
LEMMA MessageStarts ==
  ASSUME NEW s \in Seq(Nat), NEW q \in Seq(BackgroundMessages), NEW N \in Nat, NEW ah, BackgroundLine(s, q, N, ah),
         q # <<>>
  PROVE  /\ BackgroundLine(s, Tail(q), N, ah)
         /\ Head(q).type = "runOnBackground" => BackgroundLine(Append(s, Head(q).id), Tail(q), N, ah)
<1>1. /\ \A n \in DOMAIN Tail(q) : Tail(q)[n] = q[n + 1] /\ n + 1 \in DOMAIN q /\ n \in Nat /\ 1 < n + 1
      /\ 1 \in DOMAIN q /\ Head(q) = q[1]
  BY QueueTail
<1> DEFINE r == Tail(q)
<1> HIDE DEF r
<1>2. \A n \in DOMAIN r : /\ CallIds(r[n]) \subseteq 1..N /\ Before(Numbers(s), CallIds(r[n]), ah)
                          /\ Before(CallIds(q[1]), CallIds(r[n]), ah)
  BY <1>1 DEF BackgroundLine, r
<1>3. \A n, k \in DOMAIN r : n < k => Before(CallIds(r[n]), CallIds(r[k]), ah)
  <2> SUFFICES ASSUME NEW n \in DOMAIN r, NEW k \in DOMAIN r, n < k
               PROVE  Before(CallIds(r[n]), CallIds(r[k]), ah)
    OBVIOUS
  <2>1. n + 1 \in DOMAIN q /\ k + 1 \in DOMAIN q /\ n + 1 < k + 1 /\ r[n] = q[n + 1] /\ r[k] = q[k + 1]
    BY <1>1 DEF r
  <2>. QED
    BY <2>1 DEF BackgroundLine
<1>4. InOrder(s, ah) /\ ah \subseteq 1..N /\ Numbers(s) \subseteq 1..N /\ CallIds(q[1]) \subseteq 1..N /\ Before(Numbers(s), CallIds(q[1]), ah)
  BY <1>1 DEF BackgroundLine
<1>5. BackgroundLine(s, r, N, ah)
  BY <1>2, <1>3, <1>4 DEF BackgroundLine
<1>6. ASSUME Head(q).type = "runOnBackground" PROVE BackgroundLine(Append(s, Head(q).id), r, N, ah)
  <2>x. PICK x : x = Head(q).id
    OBVIOUS
  <2>1. CallIds(q[1]) = {x}
    BY <1>1, <1>6, <2>x DEF CallIds
  <2>2. x \in 1..N /\ x \in Nat /\ Before(Numbers(s), {x}, ah)
    BY <1>4, <2>1
  <2>3. InOrder(Append(s, x), ah) /\ Numbers(Append(s, x)) = Numbers(s) \cup {x}
    BY <1>4, <2>2, OrderAppend
  <2>4. \A n \in DOMAIN r : Before(Numbers(s) \cup {x}, CallIds(r[n]), ah)
    BY <1>2, <2>1 DEF Before
  <2>. QED
    BY <1>2, <1>3, <1>4, <2>2, <2>3, <2>4, <2>x DEF BackgroundLine
<1>. QED
  BY <1>5, <1>6 DEF r

\* Hydration posts the delayed calls, after those that were ahead of them.
LEMMA DelayedPosted ==
  ASSUME NEW s \in Seq(Nat), NEW q \in Seq(BackgroundMessages), NEW d \in Seq(Nat), NEW N \in Nat, NEW ah,
         BackgroundLine(s, q, N, ah), Delaying(s, q, d, N, ah), NEW p \in Seq(BackgroundMessages),
         p = <<>> \/ (DOMAIN p = DOMAIN d /\ \A n \in DOMAIN p : CallIds(p[n]) = {d[n]})
  PROVE  BackgroundLine(s, q \o p, N, ah)
<1>d. /\ Numbers(s) \subseteq ah /\ (\A n \in DOMAIN q : CallIds(q[n]) \subseteq ah) /\ ah \subseteq 1..N
      /\ Increasing(d) /\ \A n \in DOMAIN d : d[n] \in 1..N \ ah
  BY DEF Delaying, Numbers, BackgroundLine
<1>1. \A A \in SUBSET ah, b \in 1..N \ ah : Before(A, {b}, ah)
  BY <1>d DEF Before, MayPrecede
<1> DEFINE r == q \o p
<1>2. /\ Len(q) \in Nat /\ DOMAIN q = 1..Len(q) /\ Len(p) \in Nat /\ DOMAIN p = 1..Len(p)
      /\ DOMAIN r = 1..(Len(q) + Len(p))
      /\ \A i \in 1..Len(q) : r[i] = q[i]
      /\ \A i \in 1..Len(p) : r[Len(q) + i] = p[i]
  OBVIOUS
<1>3. \A i \in 1..(Len(q) + Len(p)) :
        i \in 1..Len(q) \/ (i - Len(q) \in 1..Len(p) /\ i = Len(q) + (i - Len(q)))
  BY <1>2
<1> HIDE DEF r
<1>4. \A n \in DOMAIN r : \/ n \in DOMAIN q /\ r[n] = q[n]
                          \/ n > Len(q) /\ n - Len(q) \in DOMAIN d /\ CallIds(r[n]) = {d[n - Len(q)]}
  <2> SUFFICES ASSUME NEW n \in DOMAIN r
               PROVE  \/ n \in DOMAIN q /\ r[n] = q[n]
                      \/ n > Len(q) /\ n - Len(q) \in DOMAIN d /\ CallIds(r[n]) = {d[n - Len(q)]}
    OBVIOUS
  <2>1. CASE n \in 1..Len(q)
    BY <1>2, <2>1
  <2>2. CASE n - Len(q) \in 1..Len(p) /\ n = Len(q) + (n - Len(q))
    <3>1. r[n] = p[n - Len(q)] /\ n - Len(q) \in DOMAIN p /\ n > Len(q)
      BY <1>2, <2>2
    <3>. QED
      BY <3>1
  <2>. QED
    BY <1>2, <1>3, <2>1, <2>2
<1>5. \A n \in DOMAIN r : CallIds(r[n]) \subseteq 1..N /\ Before(Numbers(s), CallIds(r[n]), ah)
  <2> SUFFICES ASSUME NEW n \in DOMAIN r
               PROVE  CallIds(r[n]) \subseteq 1..N /\ Before(Numbers(s), CallIds(r[n]), ah)
    OBVIOUS
  <2>1. CASE n \in DOMAIN q /\ r[n] = q[n]
    BY <2>1 DEF BackgroundLine
  <2>2. CASE n - Len(q) \in DOMAIN d /\ CallIds(r[n]) = {d[n - Len(q)]}
    <3>1. d[n - Len(q)] \in 1..N \ ah /\ Numbers(s) \in SUBSET ah
      BY <1>d, <2>2
    <3>. QED
      BY <1>1, <2>2, <3>1
  <2>. QED
    BY <1>4, <2>1, <2>2
<1>6. ASSUME NEW n \in DOMAIN r, NEW k \in DOMAIN r, n < k
      PROVE  Before(CallIds(r[n]), CallIds(r[k]), ah)
  <2>1. CASE n \in DOMAIN q /\ r[n] = q[n] /\ k \in DOMAIN q /\ r[k] = q[k]
    BY <1>6, <2>1 DEF BackgroundLine
  <2>2. CASE n \in DOMAIN q /\ r[n] = q[n] /\ k - Len(q) \in DOMAIN d /\ CallIds(r[k]) = {d[k - Len(q)]}
    <3>1. d[k - Len(q)] \in 1..N \ ah /\ CallIds(r[n]) \in SUBSET ah
      BY <1>d, <2>2
    <3>. QED
      BY <1>1, <2>2, <3>1
  <2>3. CASE /\ n > Len(q) /\ n - Len(q) \in DOMAIN d /\ CallIds(r[n]) = {d[n - Len(q)]}
             /\ k - Len(q) \in DOMAIN d /\ CallIds(r[k]) = {d[k - Len(q)]}
    <3>1. n - Len(q) < k - Len(q)
      BY <1>2, <1>6
    <3>2. d[n - Len(q)] < d[k - Len(q)]
      BY <1>d, <2>3, <3>1 DEF Increasing
    <3>. QED
      BY <2>3, <3>2 DEF Before, MayPrecede
  <2>. QED
    BY <1>2, <1>4, <1>6, <2>1, <2>2, <2>3
<1>. QED
  BY <1>5, <1>6 DEF BackgroundLine, r

-----------------------------------------------------------------------------
LEMMA LineTypes ==
  ASSUME TypeOK
  PROVE  /\ mStarted \in Seq(Nat) /\ DelayedIds \in Seq(Nat) /\ bStarted \in Seq(Nat)
         /\ delayedFns \in Seq(Nat) /\ mCalls \in Nat /\ bCalls \in Nat
         /\ toMain \in Seq(MainMessages) /\ toBackground \in Seq(BackgroundMessages)
<1>1. MainCalls \subseteq Nat /\ BackgroundCalls \subseteq Nat
  BY ConstantsAssumption DEF MainCalls, BackgroundCalls
<1>2. /\ mStarted \in Seq(MainCalls) /\ delayedData \in Seq(Calls)
      /\ bStarted \in Seq(BackgroundCalls) /\ delayedFns \in Seq(BackgroundCalls)
      /\ mCalls \in 0..MaxMainCalls /\ bCalls \in 0..MaxBackgroundCalls
      /\ toMain \in Seq(MainMessages) /\ toBackground \in Seq(BackgroundMessages)
  BY DEF TypeOK
<1>d. DelayedIds \in Seq(MainCalls)
  BY <1>2, IdsType DEF DelayedIds
<1>3. ASSUME NEW S, S \subseteq Nat, NEW q \in Seq(S) PROVE q \in Seq(Nat)
  <2>1. Len(q) \in Nat /\ q \in [1..Len(q) -> S]
    OBVIOUS
  <2>2. q \in [1..Len(q) -> Nat]
    BY <1>3, <2>1
  <2>. QED
    BY <2>1, <2>2, SeqDef
<1>4. mCalls \in Nat /\ bCalls \in Nat
  BY <1>2, ConstantsAssumption
<1>. QED
  BY <1>1, <1>2, <1>3, <1>4, <1>d

\* The delayed calls in a step.
LEMMA DelayedIdsNext ==
  ASSUME TypeOK
  PROVE  /\ delayedData' = delayedData => DelayedIds' = DelayedIds
         /\ delayedData' = <<>> => DelayedIds' = <<>>
         /\ \A e : \A n \in Nat : delayedData' = Append(delayedData, Call(e, n)) => DelayedIds' = Append(DelayedIds, n)
<1>1. delayedData' = delayedData => DelayedIds' = DelayedIds
  BY DEF DelayedIds
<1>2. delayedData' = <<>> => DelayedIds' = <<>>
  <2> SUFFICES ASSUME delayedData' = <<>> PROVE DelayedIds' = <<>>
    OBVIOUS
  <2>1. DelayedIds' = [n \in {} |-> delayedData'[n].id]
    BY DEF DelayedIds
  <2>. QED
    BY <2>1
<1>3. ASSUME NEW e, NEW x \in Nat, delayedData' = Append(delayedData, Call(e, x))
      PROVE  DelayedIds' = Append(DelayedIds, x)
  <2>1. /\ delayedData \in Seq(Calls) /\ DelayedIds \in Seq(Nat) /\ DOMAIN DelayedIds = DOMAIN delayedData
        /\ Len(DelayedIds) = Len(delayedData)
    <3>1. delayedData \in Seq(Calls) /\ DelayedIds \in Seq(Nat) /\ DOMAIN DelayedIds = DOMAIN delayedData
      BY LineTypes DEF TypeOK, DelayedIds
    <3>. QED
      BY <3>1, LenProperties
  <2>2. /\ DOMAIN delayedData' = 1..(Len(delayedData) + 1) /\ DOMAIN delayedData = 1..Len(delayedData)
        /\ delayedData'[Len(delayedData) + 1].id = x /\ Len(delayedData) \in Nat
        /\ \A n \in 1..Len(delayedData) : delayedData'[n] = delayedData[n]
    BY <1>3, <2>1 DEF Call
  <2>3. DelayedIds' = [n \in 1..(Len(delayedData) + 1) |-> delayedData'[n].id]
    BY <2>2 DEF DelayedIds
  <2>4. \A n \in 1..Len(delayedData) : DelayedIds[n] = delayedData[n].id
    BY <2>2 DEF DelayedIds
  <2>5. /\ Append(DelayedIds, x) \in [1..(Len(delayedData) + 1) -> Nat]
        /\ \A n \in 1..(Len(delayedData) + 1) :
             Append(DelayedIds, x)[n] = IF n <= Len(DelayedIds) THEN DelayedIds[n] ELSE x
    <3>1. /\ Append(DelayedIds, x) \in Seq(Nat) /\ Len(Append(DelayedIds, x)) = Len(delayedData) + 1
          /\ \A n \in 1..Len(delayedData) : Append(DelayedIds, x)[n] = DelayedIds[n]
          /\ Append(DelayedIds, x)[Len(delayedData) + 1] = x
      BY <2>1, AppendProperties
    <3>2. \A n \in 1..(Len(delayedData) + 1) :
            IF n <= Len(delayedData) THEN n \in 1..Len(delayedData) ELSE n = Len(delayedData) + 1
      BY <2>2
    <3>3. Append(DelayedIds, x) \in [1..(Len(delayedData) + 1) -> Nat]
      <4>1. \A q \in Seq(Nat) : q \in [1..Len(q) -> Nat]
        OBVIOUS
      <4>2. Append(DelayedIds, x) \in [1..Len(Append(DelayedIds, x)) -> Nat]
        BY <3>1, <4>1
      <4>. QED
        BY <3>1, <4>2
    <3>. QED
      BY <2>1, <3>1, <3>2, <3>3
  <2>6. \A n \in 1..(Len(delayedData) + 1) :
          delayedData'[n].id = IF n <= Len(DelayedIds) THEN DelayedIds[n] ELSE x
    <3> SUFFICES ASSUME NEW n \in 1..(Len(delayedData) + 1)
                 PROVE  delayedData'[n].id = IF n <= Len(DelayedIds) THEN DelayedIds[n] ELSE x
      OBVIOUS
    <3>1. CASE n <= Len(delayedData)
      BY <2>1, <2>2, <2>4, <3>1
    <3>2. CASE n = Len(delayedData) + 1
      BY <2>1, <2>2, <3>2
    <3>. QED
      BY <2>2, <3>1, <3>2
  <2>. QED
    BY <2>1, <2>3, <2>5, <2>6
<1>. QED
  BY <1>1, <1>2, <1>3

\* The calls of a patch with the delayed calls.
LEMMA RunIdsOfPatch ==
  ASSUME TypeOK, NEW h, NEW v, Increasing(DelayedIds)
  PROVE  /\ RunIds(Patch(h, v, DelayedCalls)) = Numbers(DelayedIds)
         /\ InLine(Patch(h, v, DelayedCalls))
<1>1. /\ Patch(h, v, DelayedCalls).type # "FunctionCallRet"
      /\ Patch(h, v, DelayedCalls).calls = DelayedCalls
  BY DEF Patch
<1>2. /\ DOMAIN DelayedCalls = DOMAIN DelayedIds
      /\ \A n \in DOMAIN DelayedIds : DelayedCalls[n].id = DelayedIds[n]
  BY DEF DelayedCalls, Call, DelayedIds
<1>. QED
  BY <1>1, <1>2 DEF RunIds, InLine, Numbers, Increasing

LEMMA RunIdsOfCall ==
  ASSUME NEW e, NEW n
  PROVE  RunIds(RunWorkletCtx(e, n)) = {n} /\ InLine(RunWorkletCtx(e, n))
<1>1. /\ RunWorkletCtx(e, n).type # "FunctionCallRet" /\ DOMAIN RunWorkletCtx(e, n).calls = {1}
      /\ RunWorkletCtx(e, n).calls[1].id = n
  BY DEF RunWorkletCtx, Call
<1>. QED
  BY <1>1 DEF RunIds, InLine

LEMMA RunIdsOfReturn ==
  ASSUME NEW n
  PROVE  RunIds(ReturnToMain(n)) = {} /\ InLine(ReturnToMain(n))
  BY DEF RunIds, InLine, ReturnToMain

LEMMA NoNumbers ==
  Increasing(<<>>) /\ Numbers(<<>>) = {} /\ \A A, ah : Before(A, {}, ah) /\ Before({}, A, ah)
  BY DEF Increasing, Numbers, Before

\* The order of the calls of the background thread.
LEMMA MainLineInductive ==
  ASSUME TypeOK, PhaseInv, MainLine(mStarted, toMain, DelayedIds, mCalls, replayed), Next
  PROVE  MainLine(mStarted', toMain', DelayedIds', mCalls', replayed')
<1>t. /\ mStarted \in Seq(Nat) /\ DelayedIds \in Seq(Nat) /\ mCalls \in Nat /\ toMain \in Seq(MainMessages)
      /\ update \in ExecIds \cup {Nothing, Unchanged} /\ fnExecId \in ExecIds \cup {0}
  BY LineTypes DEF TypeOK
<1>i. Increasing(DelayedIds) /\ replayed \subseteq 1..mCalls
  BY DEF MainLine
<1>1. ASSUME UNCHANGED <<mStarted, toMain, delayedData, mCalls, replayed>>
      PROVE  MainLine(mStarted', toMain', DelayedIds', mCalls', replayed')
  BY <1>1, DelayedIdsNext
<1>2. ASSUME NEW h \in BOOLEAN, NEW v, Patch(h, v, DelayedCalls) \in MainMessages,
             toMain' = Append(toMain, Patch(h, v, DelayedCalls)), delayedData' = <<>>,
             UNCHANGED <<mStarted, mCalls, replayed>>
      PROVE  MainLine(mStarted', toMain', DelayedIds', mCalls', replayed')
  <2>m. PICK m \in MainMessages : m = Patch(h, v, DelayedCalls)
    BY <1>2
  <2>1. RunIds(m) = Numbers(DelayedIds) /\ InLine(m) /\ RunIds(m) \subseteq 1..mCalls
    BY <1>i, <2>m, RunIdsOfPatch DEF MainLine
  <2>2. MainLine(mStarted, Append(toMain, m), <<>>, mCalls, replayed)
    <3>1. Numbers(<<>>) \subseteq Numbers(DelayedIds) /\ Before(RunIds(m), Numbers(<<>>), replayed)
      BY NoNumbers
    <3>2. mCalls <= mCalls /\ replayed \ replayed \subseteq 1..mCalls \ 1..mCalls /\ replayed \subseteq replayed
      BY <1>t
    <3>. QED
      BY <1>i, <1>t, <2>1, <3>1, <3>2, NoNumbers, LineSend
  <2>. QED
    BY <1>2, <2>2, <2>m, DelayedIdsNext
<1>3. CASE BeginRender \/ Hydrate \/ (\E f \in BOOLEAN : SetAttribute(f)) \/ releaseBackgroundFunctionCtx \/ MainCallReturns
  BY <1>1, <1>3 DEF BeginRender, Hydrate, SetAttribute, releaseBackgroundFunctionCtx, MainCallReturns, mainVars
<1>4. CASE Commit
  <2>1. UNCHANGED <<mStarted, mCalls, replayed>>
    BY <1>4 DEF Commit, mainVars
  <2>2. CASE patching
    <3>1. Patch(FALSE, update, DelayedCalls) \in MainMessages
      BY <1>t, MainMessageTypes, DelayedCallsType
    <3>2. toMain' = Append(toMain, Patch(FALSE, update, DelayedCalls)) /\ delayedData' = <<>>
      BY <1>4, <2>2 DEF Commit
    <3>. QED
      BY <1>2, <2>1, <3>1, <3>2
  <2>3. CASE ~patching
    BY <1>1, <1>4, <2>1, <2>3 DEF Commit
  <2>. QED
    BY <2>2, <2>3
<1>5. CASE CommitHydration
  <2>1. update \in ExecIds \cup {Nothing}
    BY <1>5, <1>t DEF CommitHydration, TypeOK
  <2>2. Patch(TRUE, update, DelayedCalls) \in MainMessages
    BY <2>1, MainMessageTypes, DelayedCallsType
  <2>3. /\ toMain' = Append(toMain, Patch(TRUE, update, DelayedCalls)) /\ delayedData' = <<>>
        /\ UNCHANGED <<mStarted, mCalls, replayed>>
    BY <1>5 DEF CommitHydration, mainVars
  <2>. QED
    BY <1>2, <2>2, <2>3
<1>6. CASE runOnMainThread
  <2>1. mCalls' = mCalls + 1 /\ UNCHANGED mStarted
    BY <1>6 DEF runOnMainThread, mainVars
  <2>2. CASE shouldDispatchDirectly
    <3>1. ~hydrating => DelayedIds = <<>>
      <4>1. ~hydrating => delayedData = <<>>
        BY <2>2 DEF PhaseInv, DelayedUntilSent, shouldDispatchDirectly
      <4>2. delayedData = <<>> => DelayedIds = [n \in {} |-> delayedData[n].id]
        BY DEF DelayedIds
      <4>. QED
        BY <4>1, <4>2
    <3>2. lastIndex + 1 \in ExecIds /\ mCalls + 1 \in MainCalls
      <4>1. lastIndex + 1 \in ExecIds
        BY <1>6, RegisterType DEF runOnMainThread
      <4>2. mCalls < MaxMainCalls /\ MaxMainCalls \in Nat
        BY <1>6, ConstantsAssumption DEF runOnMainThread
      <4>. QED
        BY <1>t, <4>1, <4>2 DEF MainCalls
    <3>m. PICK m \in MainMessages : m = RunWorkletCtx(lastIndex + 1, mCalls + 1)
      BY <3>2, MainMessageTypes
    <3>3. toMain' = Append(toMain, m) /\ delayedData' = delayedData
      <4>1. fnExecId' = lastIndex + 1
        BY <1>6 DEF runOnMainThread
      <4>. QED
        BY <1>6, <2>1, <2>2, <3>m, <4>1 DEF runOnMainThread
    <3>4. RunIds(m) = {mCalls + 1} /\ InLine(m)
      BY <3>m, RunIdsOfCall
    <3>5. /\ mCalls <= mCalls + 1 /\ mCalls + 1 \in Nat /\ mCalls + 1 \in 1..(mCalls + 1)
          /\ mCalls + 1 \notin 1..mCalls
      BY <1>t
    <3>b. /\ replayed' = IF hydrating THEN replayed \cup {mCalls + 1} ELSE replayed
          /\ replayed' \in SUBSET (1..(mCalls + 1)) /\ replayed \subseteq replayed'
          /\ replayed' \ replayed \subseteq 1..(mCalls + 1) \ 1..mCalls
      <4>1. replayed' = IF hydrating THEN replayed \cup {mCalls + 1} ELSE replayed
        BY <1>6, <2>1 DEF runOnMainThread
      <4>2. 1..mCalls \subseteq 1..(mCalls + 1)
        BY <1>t
      <4>. QED
        BY <1>i, <3>5, <4>1, <4>2
    <3>6. MainLine(mStarted, Append(toMain, m), DelayedIds, mCalls + 1, replayed')
      <4>1. RunIds(m) \subseteq Numbers(DelayedIds) \cup (1..(mCalls + 1) \ 1..mCalls)
        BY <3>4, <3>5
      <4>2. Numbers(DelayedIds) \subseteq Numbers(DelayedIds) /\ Before(RunIds(m), Numbers(DelayedIds), replayed')
        <5>1. CASE ~hydrating
          BY <3>1, <5>1, NoNumbers
        <5>2. CASE hydrating
          <6>1. mCalls + 1 \in replayed' /\ Numbers(DelayedIds) \subseteq 1..mCalls \ replayed
            BY <3>b, <5>2 DEF MainLine
          <6>2. \A b \in Numbers(DelayedIds) : b < mCalls + 1 /\ b \notin replayed'
            BY <1>t, <3>b, <5>2, <6>1
          <6>. QED
            BY <3>4, <6>1, <6>2 DEF Before, MayPrecede
        <5>. QED
          BY <5>1, <5>2
      <4>. QED
        BY <1>i, <1>t, <3>4, <3>5, <3>b, <4>1, <4>2, LineSend
    <3>. QED
      BY <2>1, <3>3, <3>6, DelayedIdsNext
  <2>3. CASE ~shouldDispatchDirectly
    <3>1. delayedData' = Append(delayedData, Call(lastIndex + 1, mCalls + 1)) /\ toMain' = toMain
      <4>1. fnExecId' = lastIndex + 1
        BY <1>6 DEF runOnMainThread
      <4>. QED
        BY <1>6, <2>1, <2>3, <4>1 DEF runOnMainThread
    <3>2. MainLine(mStarted, toMain, Append(DelayedIds, mCalls + 1), mCalls + 1, replayed)
      BY <1>t, LineDelay
    <3>3. replayed' = replayed
      BY <1>6, <2>3 DEF runOnMainThread, shouldDispatchDirectly, TypeOK
    <3>. QED
      <4>1. DelayedIds' = Append(DelayedIds, mCalls + 1)
        BY <1>t, <3>1, DelayedIdsNext
      <4>. QED
        BY <2>1, <3>1, <3>2, <3>3, <4>1
  <2>. QED
    BY <2>2, <2>3
<1>7. CASE runBackgroundFunction
  <2> DEFINE id == Head(toBackground).id
  <2>1. UNCHANGED <<mStarted, delayedData, mCalls, replayed>>
    BY <1>7 DEF runBackgroundFunction, mainVars
  <2>2. toMain' = toMain \/ toMain' = Append(toMain, ReturnToMain(id))
    BY <1>7 DEF runBackgroundFunction
  <2>3. CASE toMain' = Append(toMain, ReturnToMain(id))
    <3>1. id \in BackgroundCalls
      <4>1. Head(toBackground) \in BackgroundMessages /\ Head(toBackground).type = "runOnBackground"
        BY <1>7, NextType DEF runBackgroundFunction
      <4>. QED
        BY <4>1 DEF BackgroundMessages, FirstScreenMsg
    <3>m. PICK m \in MainMessages : m = ReturnToMain(id)
      BY <3>1, MainMessageTypes
    <3>2. RunIds(m) = {} /\ InLine(m)
      BY <3>m, RunIdsOfReturn
    <3>3. MainLine(mStarted, Append(toMain, m), DelayedIds, mCalls, replayed)
      <4>1. /\ mCalls <= mCalls /\ Before(RunIds(m), Numbers(DelayedIds), replayed)
            /\ Numbers(DelayedIds) \subseteq Numbers(DelayedIds) /\ replayed \subseteq replayed
            /\ RunIds(m) \subseteq Numbers(DelayedIds) \cup (1..mCalls \ 1..mCalls)
            /\ replayed \ replayed \subseteq 1..mCalls \ 1..mCalls
        BY <1>t, <3>2, NoNumbers
      <4>. QED
        BY <1>i, <1>t, <3>2, <4>1, LineSend
    <3>. QED
      BY <2>1, <2>3, <3>3, <3>m, DelayedIdsNext
  <2>. QED
    BY <1>1, <2>1, <2>2, <2>3
<1>8. CASE \/ RunHandler \/ \E h \in held : runOnBackground(h) \/ EndRun(h)
           \/ \E S \in SUBSET retained : Collect(S)
  BY <1>1, <1>8 DEF RunHandler, runOnBackground, EndRun, Collect, bgVars
<1>9. ASSUME toMain # <<>>, toMain' = Tail(toMain), NEW c \in Seq(Nat), Increasing(c),
             Numbers(c) = RunIds(Head(toMain)), mStarted' = mStarted \o c,
             UNCHANGED <<delayedData, mCalls, replayed>>
      PROVE  MainLine(mStarted', toMain', DelayedIds', mCalls', replayed')
  <2>1. MainLine(mStarted \o c, Tail(toMain), DelayedIds, mCalls, replayed)
    BY <1>9, <1>t, LineTake
  <2>. QED
    BY <1>9, <2>1, DelayedIdsNext
<1>m. toMain # <<>> => /\ Head(toMain) \in MainMessages
                       /\ InLine(Head(toMain))
  <2> SUFFICES ASSUME toMain # <<>> PROVE Head(toMain) \in MainMessages /\ InLine(Head(toMain))
    OBVIOUS
  <2>1. 1 \in DOMAIN toMain /\ Head(toMain) = toMain[1] /\ Head(toMain) \in MainMessages
    BY <1>t, QueueTail
  <2>. QED
    BY <2>1 DEF MainLine
<1>10. CASE updateMainThread
  <2>m. PICK m : m = Head(toMain)
    OBVIOUS
  <2>c. PICK c : c = [n \in DOMAIN m.calls |-> m.calls[n].id]
    OBVIOUS
  <2>1. toMain # <<>> /\ toMain' = Tail(toMain) /\ mStarted' = mStarted \o c
        /\ UNCHANGED <<delayedData, mCalls, replayed>>
        /\ m.type \in {"patch", "runWorkletCtx"}
    BY <1>10, <2>m, <2>c DEF updateMainThread, bgVars
  <2>2. m \in MainMessages /\ InLine(m)
    BY <1>m, <2>1, <2>m
  <2>3. m.calls \in Seq(Calls)
    BY <2>1, <2>2, PatchTypes
  <2>4. DOMAIN c = DOMAIN m.calls /\ \A n \in DOMAIN c : c[n] = m.calls[n].id
    BY <2>c
  <2>5. c \in Seq(Nat)
    <3>1. \A n \in DOMAIN m.calls : m.calls[n].id \in Nat
      <4>1. \A n \in DOMAIN m.calls : m.calls[n] \in Calls
        BY <2>3
      <4>. QED
        BY <4>1, ConstantsAssumption DEF Calls, MainCalls
    <3>2. DOMAIN m.calls = 1..Len(m.calls) /\ Len(m.calls) \in Nat
      BY <2>3
    <3>3. c \in [1..Len(m.calls) -> Nat]
      BY <2>c, <3>1, <3>2
    <3>. QED
      BY <3>2, <3>3, SeqDef
  <2>6. Numbers(c) = RunIds(m) /\ Increasing(c)
    <3>1. m.type # "FunctionCallRet"
      BY <2>1
    <3>. QED
      BY <2>2, <2>4, <3>1 DEF Numbers, RunIds, InLine, Increasing
  <2>. QED
    BY <1>9, <2>1, <2>5, <2>6, <2>m
<1>11. CASE BackgroundCallReturns
  <2>1. /\ toMain # <<>> /\ toMain' = Tail(toMain) /\ UNCHANGED <<mStarted, delayedData, mCalls, replayed>>
        /\ Head(toMain).type = "FunctionCallRet"
    BY <1>11 DEF BackgroundCallReturns, bgVars
  <2>2. RunIds(Head(toMain)) = Numbers(<<>>)
    BY <2>1, NoNumbers DEF RunIds
  <2>3. mStarted' = mStarted \o <<>>
    BY <1>t, <2>1
  <2>4. <<>> \in Seq(Nat)
    OBVIOUS
  <2>. QED
    BY <1>9, <2>1, <2>2, <2>3, <2>4, NoNumbers
<1>. QED
  BY <1>3, <1>4, <1>5, <1>6, <1>7, <1>8, <1>10, <1>11 DEF Next, Receive

-----------------------------------------------------------------------------
-----------------------------------------------------------------------------
\* What a queue holds after another is appended.
LEMMA QueueConcat ==
  ASSUME NEW S, NEW q \in Seq(S), NEW d \in Seq(S)
  PROVE  \A n \in DOMAIN (q \o d) : \/ n \in DOMAIN q /\ (q \o d)[n] = q[n]
                                    \/ n - Len(q) \in DOMAIN d /\ (q \o d)[n] = d[n - Len(q)]
  OBVIOUS

\* Until hydration the main thread delays every call.
LEMMA BlankKept ==
  ASSUME TypeOK, Blank, BeginRender \/ Commit \/ CommitHydration \/ runOnMainThread
                        \/ (\E f \in BOOLEAN : SetAttribute(f)) \/ Hydrate
                        \/ RunHandler \/ (\E h \in held : runOnBackground(h) \/ EndRun(h))
                        \/ \E S \in SUBSET retained : Collect(S)
  PROVE  Blank'
<1>d. /\ first.isFirstScreen /\ held \subseteq {FirstHandle} /\ ctx = FirstScreen /\ retained = {}
      /\ bStarted = <<>> /\ early = {} /\ Increasing(delayedFns) /\ Numbers(delayedFns) \subseteq 1..bCalls
  BY DEF Blank
<1>k. ASSUME UNCHANGED <<first, ctx, retained, bStarted, early, delayedFns, bCalls>>,
             held' \subseteq {FirstHandle}
      PROVE  Blank'
  BY <1>d, <1>k DEF Blank
<1>1. CASE \/ BeginRender \/ Commit \/ CommitHydration \/ runOnMainThread
           \/ (\E f \in BOOLEAN : SetAttribute(f)) \/ Hydrate
  <2>1. UNCHANGED <<first, held, ctx, retained, bStarted, early, delayedFns, bCalls>>
    BY <1>1 DEF BeginRender, Commit, CommitHydration, runOnMainThread, SetAttribute, Hydrate, mainVars
  <2>. QED
    BY <1>d, <1>k, <2>1
<1>2. CASE RunHandler
  <2>1. held' = held \cup {Handle(ctx, 0)} /\ Handle(ctx, 0) = FirstHandle
    BY <1>2, <1>d DEF RunHandler, FirstHandle, FirstScreen
  <2>2. UNCHANGED <<first, ctx, retained, bStarted, early, delayedFns, bCalls>>
    BY <1>2, <1>d DEF RunHandler, bgVars
  <2>. QED
    BY <1>d, <1>k, <2>1, <2>2
<1>3. ASSUME NEW h \in held, EndRun(h) PROVE Blank'
  <2>1. /\ held' \subseteq held
        /\ UNCHANGED <<first, ctx, retained, bStarted, early, delayedFns, bCalls>>
    BY <1>3 DEF EndRun, bgVars
  <2>. QED
    BY <1>d, <1>k, <2>1
<1>4. ASSUME NEW S \in SUBSET retained, Collect(S) PROVE FALSE
  BY <1>4, <1>d DEF Collect
<1>5. ASSUME NEW h \in held, runOnBackground(h) PROVE Blank'
  <2>1. IsDelayed(h)
    BY <1>d DEF IsDelayed
  <2>2. /\ delayedFns' = Append(delayedFns, bCalls + 1) /\ bCalls' = bCalls + 1
        /\ UNCHANGED <<first, held, ctx, retained, bStarted, early>>
    BY <1>5, <2>1 DEF runOnBackground, bgVars
  <2>3. delayedFns \in Seq(Nat) /\ bCalls \in Nat
    BY LineTypes
  <2>4. /\ Increasing(Append(delayedFns, bCalls + 1))
        /\ Numbers(Append(delayedFns, bCalls + 1)) = Numbers(delayedFns) \cup {bCalls + 1}
    BY <1>d, <2>3, IncreasingAppend
  <2>5. 1..bCalls \subseteq 1..(bCalls + 1) /\ bCalls + 1 \in 1..(bCalls + 1)
    BY <2>3
  <2>6. Increasing(delayedFns)' /\ Numbers(delayedFns)' \subseteq 1..bCalls'
    BY <1>d, <2>2, <2>4, <2>5 DEF Increasing, Numbers
  <2>. QED
    BY <1>d, <2>2, <2>6 DEF Blank
<1>. QED
  BY <1>1, <1>2, <1>3, <1>4, <1>5

\* What the page is while events are replayed, and until the hydration patch arrives.
LEMMA BeforeHydrationStep ==
  ASSUME TypeOK, BeforeHydration, Next
  PROVE  BeforeHydration' \/ (Replayed' /\ NotHydrated' /\ PatchToCome')
<1>d. ~patching /\ toMain = <<>> /\ toBackground = <<FirstScreenMsg>> /\ Blank /\ ~hydrating
  BY DEF BeforeHydration, TypeOK
<1>h. toBackground # <<>> /\ Head(toBackground).type = "firstScreen" /\ Tail(toBackground) = <<>>
  BY <1>d DEF FirstScreenMsg
<1>0. ASSUME UNCHANGED <<patching, toMain, toBackground>>, Blank' PROVE BeforeHydration'
  BY <1>0, <1>d DEF BeforeHydration
<1>1. CASE BeginRender \/ Commit \/ runOnMainThread \/ \E f \in BOOLEAN : SetAttribute(f)
  <2>1. UNCHANGED <<patching, toMain, toBackground>>
    BY <1>1, <1>d DEF BeginRender, Commit, runOnMainThread, SetAttribute, shouldDispatchDirectly
  <2>. QED
    BY <1>0, <1>1, <1>d, <2>1, BlankKept
<1>2. CASE CommitHydration
  BY <1>2, <1>d DEF CommitHydration
<1>3. CASE Hydrate
  <2>1. /\ patching' = TRUE /\ hydrating' = TRUE /\ toBackground' = <<>> /\ toMain' = <<>>
    BY <1>3, <1>d, <1>h DEF Hydrate, Next2Background
  <2>2. Blank'
    BY <1>3, <1>d, BlankKept
  <2>3. /\ bStarted' = <<>> /\ early' = {} /\ ctx' = FirstScreen /\ Increasing(delayedFns')
        /\ Numbers(delayedFns') \subseteq 1..bCalls'
    BY <2>2 DEF Blank, Increasing, Numbers
  <2>e. DOMAIN <<>> = {} /\ \A N : {} \subseteq 1..N
    OBVIOUS
  <2>4. \A N : BackgroundLine(<<>>, <<>>, N, {})
    BY <2>e, NoNumbers DEF BackgroundLine, InOrder
  <2>5. \A d, N : Increasing(d) /\ Numbers(d) \subseteq 1..N => Delaying(<<>>, <<>>, d, N, {})
    BY <2>e, NoNumbers DEF Delaying
  <2>6. /\ BackgroundLine(bStarted', toBackground', bCalls', early')
        /\ Delaying(bStarted', toBackground', delayedFns', bCalls', early')
    BY <2>1, <2>3, <2>4, <2>5
  <2>7. Replayed'
    BY <2>1, <2>6, <2>e DEF Replayed, BackgroundLine, InOrder, MayPrecede, Numbers, Before, CallIds
  <2>8. NotHydrated'
    BY <2>3, <2>6 DEF NotHydrated, Delaying, Numbers, CallIds, Increasing
  <2>9. PatchToCome'
    BY <2>1, <2>e DEF PatchToCome
  <2>. QED
    BY <2>7, <2>8, <2>9
<1>4. CASE runBackgroundFunction \/ releaseBackgroundFunctionCtx \/ MainCallReturns
  BY <1>4, <1>h DEF runBackgroundFunction, releaseBackgroundFunctionCtx, MainCallReturns, Next2Background
<1>5. CASE \/ RunHandler \/ \E h \in held : runOnBackground(h) \/ EndRun(h)
           \/ \E S \in SUBSET retained : Collect(S)
  <2>1. UNCHANGED <<patching, toMain>>
    BY <1>5 DEF RunHandler, runOnBackground, EndRun, Collect, bgVars
  <2>2. toBackground' = toBackground
    <3>1. \A h \in held : IsDelayed(h)
      BY <1>d DEF Blank, IsDelayed
    <3>2. \A S \in SUBSET retained : ~Collect(S)
      BY <1>d DEF Blank, Collect
    <3>. QED
      BY <1>5, <3>1, <3>2 DEF RunHandler, runOnBackground, EndRun
  <2>. QED
    BY <1>0, <1>5, <1>d, <2>1, <2>2, BlankKept
<1>6. CASE updateMainThread \/ BackgroundCallReturns
  BY <1>6, <1>d DEF updateMainThread, BackgroundCallReturns
<1>. QED
  BY <1>1, <1>2, <1>3, <1>4, <1>5, <1>6 DEF Next, Receive

\* What a step does to the calls of the main thread once events are replayed: nothing, the
\* background thread takes a message, or messages without calls, a call, or the delayed ones
\* are posted, or a call is delayed.
CallsRest == UNCHANGED <<delayedFns, bCalls, early>>
NothingPosted == UNCHANGED <<bStarted, toBackground>> /\ CallsRest
MessageRead ==
  /\ toBackground # <<>> /\ toBackground' = Tail(toBackground) /\ CallsRest
  /\ \/ bStarted' = bStarted
     \/ Head(toBackground).type = "runOnBackground" /\ bStarted' = Append(bStarted, Head(toBackground).id)
NoCallPosted ==
  \E d \in Seq(BackgroundMessages) :
    /\ \A n \in DOMAIN d : CallIds(d[n]) = {} /\ d[n].type # "firstScreen"
    /\ toBackground' = toBackground \o d /\ UNCHANGED bStarted /\ CallsRest
OneCallPosted ==
  /\ \E m \in BackgroundMessages :
       /\ CallIds(m) = {bCalls + 1} /\ m.type # "firstScreen"
       /\ toBackground' = Append(toBackground, m)
  /\ bCalls' = bCalls + 1 /\ UNCHANGED <<bStarted, delayedFns>>
  /\ early' = IF ctx = FirstScreen THEN early \cup {bCalls + 1} ELSE early
OneCallDelayed ==
  /\ delayedFns' = Append(delayedFns, bCalls + 1) /\ bCalls' = bCalls + 1
  /\ UNCHANGED <<bStarted, toBackground, early>>
PatchRead == updateMainThread /\ toMain # <<>> /\ Head(toMain).hydration

LEMMA CallsStep ==
  ASSUME TypeOK, Replayed, Next
  PROVE  /\ NothingPosted \/ MessageRead \/ NoCallPosted \/ OneCallPosted \/ OneCallDelayed \/ PatchRead
         /\ patching' /\ (ctx' = ctx \/ (updateMainThread /\ toMain # <<>> /\ Head(toMain).value # Unchanged))
<1>t. /\ toMain \in Seq(MainMessages) /\ toBackground \in Seq(BackgroundMessages) /\ bCalls \in Nat
  BY LineTypes
<1>d. patching /\ (toBackground # <<>> => Head(toBackground).type # "firstScreen")
  <2>1. toBackground # <<>> => 1 \in DOMAIN toBackground /\ Head(toBackground) = toBackground[1]
    BY <1>t, QueueTail
  <2>. QED
    BY <2>1 DEF Replayed
<1>1. CASE \/ BeginRender \/ Commit \/ CommitHydration \/ runOnMainThread
           \/ (\E f \in BOOLEAN : SetAttribute(f)) \/ RunHandler \/ (\E h \in held : EndRun(h))
           \/ BackgroundCallReturns
  BY <1>1, <1>d DEF BeginRender, Commit, CommitHydration, runOnMainThread, SetAttribute, RunHandler, EndRun,
                    BackgroundCallReturns, mainVars, bgVars, NothingPosted, CallsRest
<1>2. CASE Hydrate
  BY <1>2, <1>d DEF Hydrate, Next2Background
<1>3. CASE runBackgroundFunction \/ releaseBackgroundFunctionCtx \/ MainCallReturns
  BY <1>3, <1>d DEF runBackgroundFunction, releaseBackgroundFunctionCtx, MainCallReturns, Next2Background,
                    mainVars, MessageRead, CallsRest
<1>4. ASSUME NEW S \in SUBSET retained, Collect(S)
      PROVE  (NothingPosted \/ NoCallPosted) /\ patching' /\ ctx' = ctx
  <2>1. UNCHANGED <<patching, ctx, bStarted>> /\ CallsRest
    BY <1>4 DEF Collect, bgVars, CallsRest
  <2>2. PICK F \in SUBSET ExecIds : toBackground' = toBackground \/ toBackground' = Append(toBackground, Release(F))
    <3> DEFINE F == {e \in {o.execId : o \in S} : IsUnreferenced(e, S)}
    <3>1. F \subseteq ExecIds
      BY DEF TypeOK, Objects
    <3>2. toBackground' = toBackground \/ toBackground' = Append(toBackground, Release(F))
      BY <1>4 DEF Collect
    <3>. QED
      BY <3>1, <3>2
  <2>3. CASE toBackground' = Append(toBackground, Release(F))
    <3>1. Release(F) \in BackgroundMessages
      BY BackgroundMessageTypes
    <3>2. <<Release(F)>> \in Seq(BackgroundMessages) /\ Append(toBackground, Release(F)) = toBackground \o <<Release(F)>>
      BY <1>t, <3>1
    <3>3. \A n \in DOMAIN <<Release(F)>> : CallIds(<<Release(F)>>[n]) = {} /\ <<Release(F)>>[n].type # "firstScreen"
      BY DEF Release, CallIds
    <3>. QED
      BY <1>d, <2>1, <2>3, <3>2, <3>3 DEF NoCallPosted
  <2>. QED
    BY <1>d, <2>1, <2>2, <2>3 DEF NothingPosted
<1>5. ASSUME NEW h \in held, runOnBackground(h)
      PROVE  (OneCallPosted \/ OneCallDelayed) /\ patching' /\ ctx' = ctx
  <2>1. UNCHANGED <<patching, ctx, bStarted>> /\ bCalls' = bCalls + 1
    BY <1>5 DEF runOnBackground, bgVars
  <2>2. CASE IsDelayed(h)
    BY <1>5, <1>d, <2>1, <2>2 DEF runOnBackground, OneCallDelayed
  <2>3. CASE ~IsDelayed(h)
    <3>m. PICK m : m = RunOnBackground(ExecIdOf(h), bCalls + 1)
      OBVIOUS
    <3>1. toBackground' = Append(toBackground, m) /\ delayedFns' = delayedFns
          /\ early' = IF ctx = FirstScreen THEN early \cup {bCalls + 1} ELSE early
      BY <1>5, <2>1, <2>3, <3>m DEF runOnBackground
    <3>2. m \in BackgroundMessages
      <4>1. ExecIdOf(h) \in ExecIds
        BY <2>3 DEF TypeOK, ExecIdOf, IsDelayed, Objects
      <4>2. bCalls + 1 \in BackgroundCalls
        <5>1. bCalls < MaxBackgroundCalls /\ MaxBackgroundCalls \in Nat
          BY <1>5, ConstantsAssumption DEF runOnBackground
        <5>. QED
          BY <1>t, <5>1 DEF BackgroundCalls
      <4>. QED
        BY <3>m, <4>1, <4>2, BackgroundMessageTypes
    <3>3. CallIds(m) = {bCalls + 1} /\ m.type # "firstScreen"
      BY <3>m DEF RunOnBackground, CallIds
    <3>. QED
      BY <1>d, <2>1, <3>1, <3>2, <3>3 DEF OneCallPosted
  <2>. QED
    BY <2>2, <2>3
<1>6. CASE updateMainThread
  <2>m. PICK m : m = Head(toMain)
    OBVIOUS
  <2>1. /\ toMain # <<>> /\ UNCHANGED <<patching, bStarted, bCalls, early>>
        /\ m.type \in {"patch", "runWorkletCtx"} /\ m \in MainMessages
        /\ ctx' = IF m.value = Unchanged THEN ctx ELSE m.value
    BY <1>6, <1>t, <2>m, QueueTail DEF updateMainThread, bgVars
  <2>2. CASE m.hydration
    BY <1>6, <1>d, <2>1, <2>2, <2>m DEF PatchRead
  <2>3. CASE ~m.hydration
    <3>1. m.calls \in Seq(Calls)
      BY <2>1, PatchTypes
    <3>2. Returns(m.calls) \in Seq(BackgroundMessages)
      BY <3>1, ReturnsType
    <3>3. \A n \in DOMAIN Returns(m.calls) : CallIds(Returns(m.calls)[n]) = {} /\ Returns(m.calls)[n].type # "firstScreen"
      BY DEF Returns, Return, CallIds
    <3>4. toBackground' = toBackground \o Returns(m.calls) /\ delayedFns' = delayedFns
      <4>1. toBackground' = toBackground \o <<>> \o Returns(m.calls) /\ delayedFns' = delayedFns
        BY <1>6, <2>3, <2>m DEF updateMainThread
      <4>2. toBackground \o <<>> = toBackground
        BY <1>t
      <4>. QED
        BY <4>1, <4>2
    <3>5. NoCallPosted
      BY <2>1, <3>2, <3>3, <3>4 DEF NoCallPosted, CallsRest
    <3>. QED
      BY <1>6, <1>d, <2>1, <2>m, <3>5
  <2>. QED
    BY <2>2, <2>3
<1>. QED
  BY <1>1, <1>2, <1>3, <1>4, <1>5, <1>6 DEF Next, Receive

-----------------------------------------------------------------------------
\* The calls of the main thread stay in order: those delayed to hydration are after those sent.
LEMMA ReplayedStep ==
  ASSUME TypeOK, Replayed, Next, PatchRead => NotHydrated
  PROVE  Replayed'
<1>t. /\ toMain \in Seq(MainMessages) /\ toBackground \in Seq(BackgroundMessages) /\ bStarted \in Seq(Nat)
      /\ delayedFns \in Seq(Nat) /\ bCalls \in Nat
  BY LineTypes
<1>d. /\ patching' /\ \A n \in DOMAIN toBackground : toBackground[n].type # "firstScreen"
      /\ BackgroundLine(bStarted, toBackground, bCalls, early)
  BY CallsStep DEF Replayed
<1>z. ASSUME \A n \in DOMAIN toBackground' : toBackground'[n].type # "firstScreen",
             BackgroundLine(bStarted', toBackground', bCalls', early')
      PROVE  Replayed'
  BY <1>d, <1>z DEF Replayed, BackgroundLine, InOrder, MayPrecede, Numbers, Before, CallIds
<1>1. CASE NothingPosted
  BY <1>1, <1>d, <1>z DEF NothingPosted, CallsRest
<1>2. CASE MessageRead
  <2>1. /\ \A n \in DOMAIN Tail(toBackground) : /\ Tail(toBackground)[n] = toBackground[n + 1]
                                                /\ n + 1 \in DOMAIN toBackground
    BY <1>2, <1>t, QueueTail DEF MessageRead
  <2>2. /\ BackgroundLine(bStarted, Tail(toBackground), bCalls, early)
        /\ Head(toBackground).type = "runOnBackground"
             => BackgroundLine(Append(bStarted, Head(toBackground).id), Tail(toBackground), bCalls, early)
    BY <1>2, <1>d, <1>t, MessageStarts DEF MessageRead
  <2>. QED
    BY <1>2, <1>d, <1>z, <2>1, <2>2 DEF MessageRead, CallsRest
<1>o. ASSUME NEW d \in Seq(BackgroundMessages), NEW q \in Seq(BackgroundMessages),
             \A n \in DOMAIN d : d[n].type # "firstScreen", \A n \in DOMAIN q : q[n].type # "firstScreen"
      PROVE  \A n \in DOMAIN (q \o d) : (q \o d)[n].type # "firstScreen"
  <2>1. \A n \in DOMAIN (q \o d) : \/ n \in DOMAIN q /\ (q \o d)[n] = q[n]
                                   \/ n - Len(q) \in DOMAIN d /\ (q \o d)[n] = d[n - Len(q)]
    BY QueueConcat
  <2>. QED
    BY <1>o, <2>1
<1>3. CASE NoCallPosted
  <2>1. PICK d \in Seq(BackgroundMessages) :
          /\ \A n \in DOMAIN d : CallIds(d[n]) = {} /\ d[n].type # "firstScreen"
          /\ toBackground' = toBackground \o d /\ UNCHANGED bStarted /\ CallsRest
    BY <1>3 DEF NoCallPosted
  <2>2. BackgroundLine(bStarted, toBackground \o d, bCalls, early)
    BY <1>d, <1>t, <2>1, OthersPosted
  <2>3. \A n \in DOMAIN (toBackground \o d) : (toBackground \o d)[n].type # "firstScreen"
    BY <1>d, <1>o, <1>t, <2>1
  <2>. QED
    BY <1>z, <2>1, <2>2, <2>3 DEF CallsRest
<1>4. CASE OneCallPosted
  <2>1. PICK m \in BackgroundMessages :
          /\ CallIds(m) = {bCalls + 1} /\ m.type # "firstScreen"
          /\ toBackground' = Append(toBackground, m)
    BY <1>4 DEF OneCallPosted
  <2>2. /\ bCalls' = bCalls + 1 /\ bStarted' = bStarted
        /\ early' = early \/ early' = early \cup {bCalls + 1}
    BY <1>4 DEF OneCallPosted
  <2>3. BackgroundLine(bStarted, Append(toBackground, m), bCalls + 1, early')
    BY <1>d, <1>t, <2>1, <2>2, CallPosted
  <2>4. \A n \in DOMAIN toBackground' : toBackground'[n].type # "firstScreen"
    BY <1>d, <1>t, <2>1, QueueAppend
  <2>. QED
    BY <1>z, <2>1, <2>2, <2>3, <2>4
<1>5. CASE OneCallDelayed
  <2>1. BackgroundLine(bStarted, toBackground, bCalls + 1, early)
    <3>1. 1..bCalls \subseteq 1..(bCalls + 1)
      BY <1>t
    <3>. QED
      BY <1>d, <3>1 DEF BackgroundLine
  <2>. QED
    BY <1>5, <1>d, <1>z, <2>1 DEF OneCallDelayed
<1>6. CASE PatchRead
  <2>m. PICK m : m = Head(toMain)
    OBVIOUS
  <2>1. /\ m \in MainMessages /\ m.type \in {"patch", "runWorkletCtx"} /\ m.hydration
    BY <1>6, <1>t, <2>m, QueueTail DEF PatchRead, updateMainThread
  <2>2. m.calls \in Seq(Calls) /\ m.value \in ExecIds \cup {Nothing}
    BY <2>1, PatchTypes
  <2> DEFINE p == DelayedRuns(m.value)
             c == Returns(m.calls)
  <2>3. toBackground' = toBackground \o p \o c /\ UNCHANGED <<bStarted, bCalls, early>>
    BY <1>6, <2>1, <2>m DEF PatchRead, updateMainThread, bgVars
  <2>4. /\ p \in Seq(BackgroundMessages) /\ c \in Seq(BackgroundMessages)
        /\ \A n \in DOMAIN p : p[n].type # "firstScreen"
        /\ \A n \in DOMAIN c : CallIds(c[n]) = {} /\ c[n].type # "firstScreen"
    BY <2>2, DelayedRunsType, ReturnsType DEF DelayedRuns, RunOnBackground, Returns, Return, CallIds
  <2>5. p = <<>> \/ (DOMAIN p = DOMAIN delayedFns /\ \A n \in DOMAIN p : CallIds(p[n]) = {delayedFns[n]})
    BY DEF DelayedRuns, RunOnBackground, CallIds
  <2> HIDE DEF p, c
  <2>6. Delaying(bStarted, toBackground, delayedFns, bCalls, early)
    BY <1>6 DEF NotHydrated
  <2>7. BackgroundLine(bStarted, toBackground \o p, bCalls, early)
    BY <1>d, <1>t, <2>4, <2>5, <2>6, DelayedPosted
  <2>8. /\ toBackground \o p \in Seq(BackgroundMessages)
        /\ \A n \in DOMAIN (toBackground \o p) : (toBackground \o p)[n].type # "firstScreen"
    BY <1>d, <1>o, <1>t, <2>4
  <2>9. BackgroundLine(bStarted, (toBackground \o p) \o c, bCalls, early)
    BY <1>t, <2>4, <2>7, <2>8, OthersPosted
  <2>10. \A n \in DOMAIN ((toBackground \o p) \o c) : ((toBackground \o p) \o c)[n].type # "firstScreen"
    BY <1>o, <2>4, <2>8
  <2>. QED
    BY <1>z, <2>3, <2>9, <2>10
<1>. QED
  BY <1>1, <1>2, <1>3, <1>4, <1>5, <1>6, CallsStep

\* The calls that are sent are ahead until the hydration patch changes the attribute.
LEMMA NotHydratedStep ==
  ASSUME TypeOK, Replayed, NotHydrated, Next, ~PatchRead,
         updateMainThread /\ toMain # <<>> => Head(toMain).value = Unchanged
  PROVE  NotHydrated'
<1>t. /\ toBackground \in Seq(BackgroundMessages) /\ bStarted \in Seq(Nat)
      /\ delayedFns \in Seq(Nat) /\ bCalls \in Nat
  BY LineTypes
<1>d. /\ ctx = FirstScreen /\ ctx' = FirstScreen /\ Numbers(bStarted) \subseteq early
      /\ \A n \in DOMAIN toBackground : CallIds(toBackground[n]) \subseteq early
      /\ Increasing(delayedFns) /\ Numbers(delayedFns) \subseteq 1..bCalls \ early
      /\ early \subseteq 1..bCalls /\ bCalls + 1 \notin 1..bCalls
      /\ 1..bCalls \subseteq 1..(bCalls + 1) /\ bCalls + 1 \in 1..(bCalls + 1)
  BY <1>t, CallsStep DEF NotHydrated, Delaying, Replayed, BackgroundLine
<1>z. ASSUME Numbers(bStarted') \subseteq early', \A n \in DOMAIN toBackground' : CallIds(toBackground'[n]) \subseteq early',
             Increasing(delayedFns'), Numbers(delayedFns') \subseteq 1..bCalls' \ early'
      PROVE  NotHydrated'
  BY <1>d, <1>z DEF NotHydrated, Delaying, Numbers, CallIds, Increasing
<1>1. CASE NothingPosted
  BY <1>1, <1>d, <1>z DEF NothingPosted, CallsRest
<1>2. CASE MessageRead
  <2>1. /\ \A n \in DOMAIN Tail(toBackground) : /\ Tail(toBackground)[n] = toBackground[n + 1]
                                                /\ n + 1 \in DOMAIN toBackground
        /\ 1 \in DOMAIN toBackground /\ Head(toBackground) = toBackground[1]
    BY <1>2, <1>t, QueueTail DEF MessageRead
  <2>2. Numbers(bStarted') \subseteq early
    <3>1. CASE bStarted' = bStarted
      BY <1>d, <3>1
    <3>2. CASE Head(toBackground).type = "runOnBackground" /\ bStarted' = Append(bStarted, Head(toBackground).id)
      <4>x. PICK x : x = Head(toBackground).id
        OBVIOUS
      <4>1. x \in early
        BY <1>d, <2>1, <3>2, <4>x DEF CallIds
      <4>2. x \in Nat
        BY <1>d, <4>1
      <4>3. \A n \in DOMAIN Append(bStarted, x) : Append(bStarted, x)[n] \in early
        <5>1. /\ DOMAIN Append(bStarted, x) = DOMAIN bStarted \cup {Len(bStarted) + 1}
              /\ Append(bStarted, x)[Len(bStarted) + 1] = x
              /\ \A n \in DOMAIN bStarted : Append(bStarted, x)[n] = bStarted[n]
          BY <1>t, <4>2
        <5>2. \A n \in DOMAIN bStarted : bStarted[n] \in early
          BY <1>d DEF Numbers
        <5>. QED
          BY <4>1, <5>1, <5>2
      <4>. QED
        BY <3>2, <4>3, <4>x DEF Numbers
    <3>. QED
      BY <1>2, <3>1, <3>2 DEF MessageRead
  <2>. QED
    BY <1>2, <1>d, <1>z, <2>1, <2>2 DEF MessageRead, CallsRest
<1>3. CASE NoCallPosted
  <2>1. PICK d \in Seq(BackgroundMessages) :
          /\ \A n \in DOMAIN d : CallIds(d[n]) = {} /\ d[n].type # "firstScreen"
          /\ toBackground' = toBackground \o d /\ UNCHANGED bStarted /\ CallsRest
    BY <1>3 DEF NoCallPosted
  <2> DEFINE q == toBackground
  <2>2. \A n \in DOMAIN (q \o d) : \/ n \in DOMAIN q /\ (q \o d)[n] = q[n]
                                   \/ n - Len(q) \in DOMAIN d /\ (q \o d)[n] = d[n - Len(q)]
    BY <1>t, QueueConcat
  <2>3. \A n \in DOMAIN (q \o d) : CallIds((q \o d)[n]) \subseteq early
    BY <1>d, <2>1, <2>2
  <2>. QED
    BY <1>d, <1>z, <2>1, <2>3 DEF CallsRest
<1>4. CASE OneCallPosted
  <2>1. PICK m \in BackgroundMessages : CallIds(m) = {bCalls + 1} /\ toBackground' = Append(toBackground, m)
    BY <1>4 DEF OneCallPosted
  <2>2. bCalls' = bCalls + 1 /\ UNCHANGED <<bStarted, delayedFns>> /\ early' = early \cup {bCalls + 1}
    BY <1>4, <1>d DEF OneCallPosted
  <2>3. \A n \in DOMAIN toBackground' : CallIds(toBackground'[n]) \subseteq early'
    BY <1>d, <1>t, <2>1, <2>2, QueueAppend
  <2>. QED
    BY <1>d, <1>z, <2>2, <2>3
<1>5. CASE OneCallDelayed
  <2>1. /\ Increasing(Append(delayedFns, bCalls + 1))
        /\ Numbers(Append(delayedFns, bCalls + 1)) = Numbers(delayedFns) \cup {bCalls + 1}
    BY <1>d, <1>t, IncreasingAppend
  <2>. QED
    BY <1>5, <1>d, <1>z, <2>1 DEF OneCallDelayed
<1>. QED
  BY <1>1, <1>2, <1>3, <1>4, <1>5, CallsStep

-----------------------------------------------------------------------------
\* What a step does to the messages to the main thread once events are replayed.
MessagesStay == UNCHANGED <<toMain, hydrating>>
MessageSent ==
  /\ \E m \in MainMessages : ~m.hydration /\ (hydrating => IsPlain(m)) /\ toMain' = Append(toMain, m)
  /\ UNCHANGED hydrating
HydrationSent ==
  /\ hydrating /\ ~hydrating' /\ \E m \in MainMessages : m.hydration /\ toMain' = Append(toMain, m)
MessageHandled ==
  /\ toMain # <<>> /\ toMain' = Tail(toMain) /\ UNCHANGED hydrating
  /\ updateMainThread \/ ~Head(toMain).hydration

LEMMA MessagesStep ==
  ASSUME TypeOK, Replayed, Next
  PROVE  MessagesStay \/ MessageSent \/ HydrationSent \/ MessageHandled
<1>t. /\ toMain \in Seq(MainMessages) /\ toBackground \in Seq(BackgroundMessages) /\ mCalls \in Nat
      /\ update \in ExecIds \cup {Nothing, Unchanged}
      /\ hydrating => ~rendering /\ update \in ExecIds \cup {Nothing}
  BY LineTypes DEF TypeOK
<1>1. CASE \/ BeginRender \/ (\E f \in BOOLEAN : SetAttribute(f)) \/ releaseBackgroundFunctionCtx \/ MainCallReturns
           \/ RunHandler \/ (\E h \in held : runOnBackground(h) \/ EndRun(h))
           \/ \E S \in SUBSET retained : Collect(S)
  BY <1>1 DEF BeginRender, SetAttribute, releaseBackgroundFunctionCtx, MainCallReturns, RunHandler,
              runOnBackground, EndRun, Collect, bgVars, MessagesStay
<1>2. CASE Commit
  <2>1. Patch(FALSE, update, DelayedCalls) \in MainMessages /\ ~Patch(FALSE, update, DelayedCalls).hydration
    BY <1>t, MainMessageTypes, DelayedCallsType DEF Patch
  <2>2. ~hydrating /\ UNCHANGED hydrating
    BY <1>2, <1>t DEF Commit
  <2>3. toMain' = toMain \/ toMain' = Append(toMain, Patch(FALSE, update, DelayedCalls))
    BY <1>2 DEF Commit
  <2>. QED
    BY <2>1, <2>2, <2>3 DEF MessagesStay, MessageSent
<1>3. CASE CommitHydration
  <2>1. Patch(TRUE, update, DelayedCalls) \in MainMessages /\ Patch(TRUE, update, DelayedCalls).hydration
    <3>1. update \in ExecIds \cup {Nothing}
      BY <1>3, <1>t DEF CommitHydration
    <3>. QED
      BY <3>1, MainMessageTypes, DelayedCallsType DEF Patch
  <2>. QED
    BY <1>3, <2>1 DEF CommitHydration, HydrationSent
<1>4. CASE runOnMainThread
  <2>1. hydrating' = hydrating
    BY <1>4 DEF runOnMainThread
  <2>2. CASE toMain' = toMain
    BY <2>1, <2>2 DEF MessagesStay
  <2>3. CASE toMain' # toMain
    <3>1. toMain' = Append(toMain, RunWorkletCtx(fnExecId', mCalls'))
      BY <1>4, <2>3 DEF runOnMainThread
    <3>2. fnExecId' \in ExecIds /\ mCalls' \in MainCalls
      <4>1. fnExecId' \in ExecIds
        BY <1>4, RegisterType DEF runOnMainThread
      <4>2. mCalls' = mCalls + 1 /\ mCalls < MaxMainCalls /\ mCalls \in Nat /\ MaxMainCalls \in Nat
        BY <1>4, LineTypes, ConstantsAssumption DEF runOnMainThread
      <4>. QED
        BY <4>1, <4>2 DEF MainCalls
    <3>3. RunWorkletCtx(fnExecId', mCalls') \in MainMessages /\ IsPlain(RunWorkletCtx(fnExecId', mCalls'))
      BY <3>2, MainMessageTypes DEF RunWorkletCtx, IsPlain
    <3>. QED
      BY <2>1, <3>1, <3>3 DEF MessageSent, IsPlain
  <2>. QED
    BY <2>2, <2>3
<1>5. CASE Hydrate
  <2>1. toBackground # <<>> => 1 \in DOMAIN toBackground /\ Head(toBackground) = toBackground[1]
    BY <1>t, QueueTail
  <2>. QED
    BY <1>5, <2>1 DEF Hydrate, Next2Background, Replayed
<1>6. CASE runBackgroundFunction
  <2>1. UNCHANGED hydrating
    BY <1>6 DEF runBackgroundFunction
  <2>2. toMain' = toMain \/ toMain' = Append(toMain, ReturnToMain(Head(toBackground).id))
    BY <1>6 DEF runBackgroundFunction
  <2>3. Head(toBackground).id \in BackgroundCalls
    <3>1. Head(toBackground) \in BackgroundMessages /\ Head(toBackground).type = "runOnBackground"
      BY <1>6, NextType DEF runBackgroundFunction
    <3>. QED
      BY <3>1 DEF BackgroundMessages, FirstScreenMsg
  <2>4. /\ ReturnToMain(Head(toBackground).id) \in MainMessages
        /\ IsPlain(ReturnToMain(Head(toBackground).id))
    BY <2>3, MainMessageTypes DEF ReturnToMain, IsPlain
  <2>. QED
    BY <2>1, <2>2, <2>4 DEF MessagesStay, MessageSent, IsPlain
<1>7. CASE updateMainThread
  BY <1>7 DEF updateMainThread, bgVars, MessageHandled
<1>8. CASE BackgroundCallReturns
  <2>1. toMain # <<>> /\ toMain' = Tail(toMain) /\ UNCHANGED hydrating /\ Head(toMain).type = "FunctionCallRet"
    BY <1>8 DEF BackgroundCallReturns, bgVars
  <2>2. Head(toMain) \in MainMessages
    BY <1>t, <2>1, QueueTail
  <2>3. ~Head(toMain).hydration
    BY <2>1, <2>2 DEF MainMessages
  <2>. QED
    BY <2>1, <2>3 DEF MessageHandled
<1>. QED
  BY <1>1, <1>2, <1>3, <1>4, <1>5, <1>6, <1>7, <1>8 DEF Next, Receive

\* The hydration patch is sent once, and what is before it does not change the attribute.
LEMMA PatchStep ==
  ASSUME TypeOK, MessagesStay \/ MessageSent \/ HydrationSent \/ MessageHandled
  PROVE  /\ PatchToCome => /\ PatchToCome' \/ PatchOnItsWay'
                           /\ MessageHandled => Head(toMain).value = Unchanged /\ ~Head(toMain).hydration
         /\ PatchOnItsWay => \/ PatchOnItsWay' /\ (MessageHandled => IsPlain(Head(toMain)))
                             \/ PatchTaken' /\ MessageHandled /\ Head(toMain).hydration
         /\ PatchTaken => PatchTaken' /\ (MessageHandled => ~Head(toMain).hydration)
<1>t. toMain \in Seq(MainMessages)
  BY DEF TypeOK
<1>a. ASSUME NEW m \in MainMessages
      PROVE  /\ DOMAIN Append(toMain, m) = DOMAIN toMain \cup {Len(toMain) + 1}
             /\ Append(toMain, m)[Len(toMain) + 1] = m /\ Len(toMain) + 1 \in Nat
             /\ \A n \in DOMAIN toMain : Append(toMain, m)[n] = toMain[n] /\ n < Len(toMain) + 1 /\ n \in Nat
  BY <1>t, QueueAppend
<1>b. toMain # <<>> =>
        /\ \A n \in DOMAIN Tail(toMain) : Tail(toMain)[n] = toMain[n + 1] /\ n + 1 \in DOMAIN toMain /\ n \in Nat
        /\ 1 \in DOMAIN toMain /\ Head(toMain) = toMain[1]
  BY <1>t, QueueTail
<1>c. \A k \in DOMAIN toMain : k # 1 => k - 1 \in DOMAIN Tail(toMain) /\ 1 < k
  <2>1. DOMAIN toMain = 1..Len(toMain) /\ Len(toMain) \in Nat
    BY <1>t
  <2>2. toMain # <<>> => DOMAIN Tail(toMain) = 1..(Len(toMain) - 1)
    BY <1>t
  <2>. QED
    BY <2>1, <2>2
<1>1. ASSUME PatchToCome PROVE /\ PatchToCome' \/ PatchOnItsWay'
                               /\ MessageHandled => Head(toMain).value = Unchanged /\ ~Head(toMain).hydration
  <2>d. hydrating /\ \A n \in DOMAIN toMain : IsPlain(toMain[n])
    BY <1>1 DEF PatchToCome
  <2>1. CASE MessagesStay
    BY <1>b, <2>1, <2>d DEF MessagesStay, MessageHandled, PatchToCome, IsPlain
  <2>2. CASE MessageSent
    BY <1>a, <1>b, <2>2, <2>d DEF MessageSent, MessageHandled, PatchToCome, IsPlain
  <2>3. CASE HydrationSent
    <3>1. PICK m \in MainMessages : m.hydration /\ toMain' = Append(toMain, m)
      BY <2>3 DEF HydrationSent
    <3>2. Len(toMain) + 1 \in DOMAIN toMain' /\ toMain'[Len(toMain) + 1].hydration
      BY <1>a, <3>1
    <3>3. \A n \in DOMAIN toMain' : n # Len(toMain) + 1 => IsPlain(toMain'[n])
      BY <1>a, <2>d, <3>1
    <3>4. PatchAt(toMain', Len(toMain) + 1)
      BY <1>a, <3>1, <3>2, <3>3 DEF PatchAt, IsPlain
    <3>5. PatchOnItsWay'
      BY <2>3, <3>2, <3>4 DEF HydrationSent, PatchOnItsWay, PatchAt, IsPlain
    <3>. QED
      BY <1>b, <2>d, <3>5 DEF MessageHandled, IsPlain
  <2>4. CASE MessageHandled
    BY <1>b, <2>4, <2>d DEF MessageHandled, PatchToCome, IsPlain
  <2>. QED
    BY <2>1, <2>2, <2>3, <2>4
<1>2. ASSUME PatchOnItsWay PROVE \/ PatchOnItsWay' /\ (MessageHandled => IsPlain(Head(toMain)))
                                 \/ PatchTaken' /\ MessageHandled /\ Head(toMain).hydration
  <2>k. PICK k \in DOMAIN toMain : PatchAt(toMain, k)
    BY <1>2 DEF PatchOnItsWay
  <2>d. /\ ~hydrating /\ toMain[k].hydration /\ k \in Nat
        /\ \A n \in DOMAIN toMain : (n # k => ~toMain[n].hydration) /\ (n < k => IsPlain(toMain[n]))
    BY <1>2, <1>t, <2>k DEF PatchOnItsWay, PatchAt
  <2>z. ASSUME ~hydrating', NEW j \in DOMAIN toMain', PatchAt(toMain', j) PROVE PatchOnItsWay'
    BY <2>z DEF PatchOnItsWay, PatchAt, IsPlain
  <2>1. CASE MessageHandled
    <3>1. CASE k = 1
      <4>1. \A n \in DOMAIN toMain' : ~toMain'[n].hydration
        BY <1>b, <2>1, <2>d, <3>1 DEF MessageHandled
      <4>. QED
        BY <1>b, <2>1, <2>d, <3>1, <4>1 DEF MessageHandled, PatchTaken
    <3>2. CASE k # 1
      <4>1. k - 1 \in DOMAIN toMain' /\ toMain'[k - 1] = toMain[k]
        BY <1>b, <1>c, <2>1, <2>d, <3>2 DEF MessageHandled
      <4>2. PatchAt(toMain', k - 1)
        BY <1>b, <2>1, <2>d, <4>1 DEF MessageHandled, PatchAt
      <4>3. IsPlain(Head(toMain))
        BY <1>b, <1>c, <2>1, <2>d, <3>2 DEF MessageHandled
      <4>. QED
        BY <2>1, <2>d, <2>z, <4>1, <4>2, <4>3 DEF MessageHandled
    <3>. QED
      BY <3>1, <3>2
  <2>2. CASE MessagesStay /\ ~MessageHandled
    BY <2>2, <2>d, <2>k, <2>z DEF MessagesStay
  <2>3. CASE MessageSent /\ ~MessageHandled
    <3>1. PICK m \in MainMessages : ~m.hydration /\ toMain' = Append(toMain, m)
      BY <2>3 DEF MessageSent
    <3>2. k \in DOMAIN toMain' /\ toMain'[k] = toMain[k] /\ k < Len(toMain) + 1
      BY <1>a, <3>1
    <3>3. PatchAt(toMain', k)
      <4> SUFFICES ASSUME NEW n \in DOMAIN toMain'
                   PROVE  (n # k => ~toMain'[n].hydration) /\ (n < k => IsPlain(toMain'[n]))
        BY <2>d, <3>2 DEF PatchAt
      <4>1. CASE n \in DOMAIN toMain
        BY <1>a, <2>d, <3>1, <4>1
      <4>2. CASE n = Len(toMain) + 1
        BY <1>a, <2>d, <3>1, <3>2, <4>2
      <4>. QED
        BY <1>a, <3>1, <4>1, <4>2
    <3>. QED
      BY <2>3, <2>d, <2>z, <3>2, <3>3 DEF MessageSent
  <2>4. CASE HydrationSent
    BY <2>4, <2>d DEF HydrationSent
  <2>. QED
    BY <2>1, <2>2, <2>3, <2>4
<1>3. ASSUME PatchTaken PROVE PatchTaken' /\ (MessageHandled => ~Head(toMain).hydration)
  <2>d. ~hydrating /\ \A n \in DOMAIN toMain : ~toMain[n].hydration
    BY <1>3 DEF PatchTaken
  <2>1. MessageHandled => ~Head(toMain).hydration
    BY <1>b, <2>d DEF MessageHandled
  <2>2. CASE MessagesStay
    BY <2>1, <2>2, <2>d DEF MessagesStay, PatchTaken
  <2>3. CASE MessageSent
    BY <1>a, <2>1, <2>3, <2>d DEF MessageSent, PatchTaken
  <2>4. CASE HydrationSent
    BY <2>4, <2>d DEF HydrationSent
  <2>5. CASE MessageHandled
    BY <1>b, <2>1, <2>5, <2>d DEF MessageHandled, PatchTaken
  <2>. QED
    BY <2>1, <2>2, <2>3, <2>4, <2>5
<1>. QED
  BY <1>1, <1>2, <1>3

LEMMA LineInductive == TypeOK /\ PhaseInv /\ LineInv /\ [Next]_vars => LineInv'
<1> SUFFICES ASSUME TypeOK, PhaseInv, LineInv, [Next]_vars PROVE LineInv'
  OBVIOUS
<1>1. CASE Next
  <2>1. MainLine(mStarted', toMain', DelayedIds', mCalls', replayed')
    BY <1>1, MainLineInductive DEF LineInv
  <2>2. MainLine(mStarted, toMain, DelayedIds, mCalls, replayed)'
    BY <2>1 DEF MainLine, InOrder, MayPrecede, Increasing, InLine, RunIds, Before, Numbers
  <2>3. CASE BeforeHydration
    BY <1>1, <2>2, <2>3, BeforeHydrationStep DEF LineInv
  <2>m. updateMainThread => toMain # <<>> /\ (Replayed => MessageHandled)
    <3>1. updateMainThread => toMain # <<>> /\ toMain' = Tail(toMain) /\ UNCHANGED hydrating
      BY DEF updateMainThread, bgVars
    <3>. QED
      BY <3>1 DEF MessageHandled
  <2>4. CASE Replayed /\ NotHydrated /\ (PatchToCome \/ PatchOnItsWay)
    <3>1. Replayed'
      BY <1>1, <2>4, ReplayedStep
    <3>2. MessagesStay \/ MessageSent \/ HydrationSent \/ MessageHandled
      BY <1>1, <2>4, MessagesStep
    <3>3. \/ /\ PatchToCome' \/ PatchOnItsWay'
             /\ MessageHandled => Head(toMain).value = Unchanged /\ ~Head(toMain).hydration
          \/ PatchTaken'
      BY <2>4, <3>2, PatchStep DEF IsPlain
    <3>4. CASE PatchTaken'
      BY <2>2, <3>1, <3>4 DEF LineInv
    <3>5. CASE /\ PatchToCome' \/ PatchOnItsWay'
               /\ MessageHandled => Head(toMain).value = Unchanged /\ ~Head(toMain).hydration
      <4>1. ~PatchRead /\ (updateMainThread /\ toMain # <<>> => Head(toMain).value = Unchanged)
        BY <2>4, <2>m, <3>5 DEF PatchRead
      <4>2. NotHydrated'
        BY <1>1, <2>4, <4>1, NotHydratedStep
      <4>. QED
        BY <2>2, <3>1, <3>5, <4>2 DEF LineInv
    <3>. QED
      BY <3>3, <3>4, <3>5
  <2>5. CASE Replayed /\ PatchTaken
    <3>1. MessagesStay \/ MessageSent \/ HydrationSent \/ MessageHandled
      BY <1>1, <2>5, MessagesStep
    <3>2. PatchTaken' /\ (MessageHandled => ~Head(toMain).hydration)
      BY <2>5, <3>1, PatchStep
    <3>3. ~PatchRead
      BY <2>5, <2>m, <3>2 DEF PatchRead
    <3>4. Replayed'
      BY <1>1, <2>5, <3>3, ReplayedStep
    <3>. QED
      BY <2>2, <3>2, <3>4 DEF LineInv
  <2>. QED
    BY <2>3, <2>4, <2>5 DEF LineInv
<1>2. CASE UNCHANGED vars
  <2>1. DelayedIds' = DelayedIds
    BY <1>2, DelayedIdsNext DEF vars, bgVars
  <2>. QED
    BY <1>2, <2>1
    DEF vars, bgVars, mainVars, LineInv, MainLine, InOrder, MayPrecede, Increasing, InLine, RunIds, Before,
        Numbers, BeforeHydration, Blank, Replayed, NotHydrated, Delaying, BackgroundLine, CallIds,
        PatchToCome, PatchOnItsWay, PatchAt, PatchTaken, IsPlain
<1>. QED
  BY <1>1, <1>2

LEMMA LineInitial == Init => LineInv
<1> SUFFICES ASSUME Init PROVE LineInv
  OBVIOUS
<1>1. /\ mStarted = <<>> /\ toMain = <<>> /\ delayedData = <<>> /\ mCalls = 0 /\ ~patching
      /\ toBackground = <<FirstScreenMsg>> /\ bStarted = <<>> /\ delayedFns = <<>> /\ bCalls = 0
      /\ first.isFirstScreen /\ held = {} /\ ctx = FirstScreen /\ retained = {}
      /\ replayed = {} /\ early = {}
  BY DEF Init
<1>2. DelayedIds = <<>>
  <2>1. DelayedIds = [n \in {} |-> delayedData[n].id]
    BY <1>1 DEF DelayedIds
  <2>. QED
    BY <2>1
<1>3. MainLine(<<>>, <<>>, <<>>, 0, {})
  BY NoNumbers DEF MainLine, InOrder
<1>4. Blank
  BY <1>1, NoNumbers DEF Blank
<1>. QED
  BY <1>1, <1>2, <1>3, <1>4 DEF LineInv, BeforeHydration

LEMMA LineInvImplies == LineInv => CallsRunInOrder
<1> SUFFICES ASSUME LineInv PROVE CallsRunInOrder
  OBVIOUS
<1>1. InOrder(mStarted, replayed)
  BY DEF LineInv, MainLine
<1>2. InOrder(bStarted, early)
  <2>1. CASE BeforeHydration
    BY <2>1 DEF BeforeHydration, Blank, InOrder
  <2>2. CASE Replayed
    BY <2>2 DEF Replayed, BackgroundLine
  <2>. QED
    BY <2>1, <2>2 DEF LineInv
<1>. QED
  BY <1>1, <1>2 DEF CallsRunInOrder

\* The calls of each thread are started on the other once each and in the order in which they
\* were made, however renders, hydration, collection and events interleave with them, but for
\* those that events replayed at hydration make: these overtake the calls that are delayed to
\* it, as do the calls that the functions run by them make (tt.ts, runOnMainThread,
\* runOnBackground, commit, hydrateCtx).
THEOREM CallsStartInOrder == Spec => []CallsRunInOrder
<1>1. Init => TypeOK /\ PhaseInv /\ LineInv
  BY TypeInitial, PhaseInitial, LineInitial
<1>2. TypeOK /\ PhaseInv /\ LineInv /\ [Next]_vars => (TypeOK /\ PhaseInv /\ LineInv)'
  BY TypeInductive, PhaseInductive, LineInductive
<1>. QED
  BY <1>1, <1>2, LineInvImplies, PTL DEF Spec
=============================================================================
