--------------------------- MODULE FirstScreen_proofs ---------------------------
(***************************************************************************)
(* Theorems about FirstScreen, for every value of its constants.           *)
(***************************************************************************)
EXTENDS FirstScreen, TLAPS, SequenceTheorems, FiniteSetTheorems, WellFoundedInduction

\* The records put on the channels have the type of the channel.
LEMMA MessageTypes ==
  ASSUME TypeOK
  PROVE  /\ \A sw \in SUBSET (Ids \X Ids), h, s \in BOOLEAN :
              FirstScreenMsg(sw, h, s) \in BackgroundMessages
         /\ \A v \in Nat : AppReloadMsg(v) \in BackgroundMessages
         /\ EventMsg \in BackgroundMessages
         /\ SyncReadyMsg \in MainMessages
         /\ \A id \in Ids, h, r \in BOOLEAN : PatchMsg(id, h, r) \in MainMessages
  BY DEF TypeOK, FirstScreenMsg, AppReloadMsg, EventMsg, SyncReadyMsg, PatchMsg,
         BackgroundMessages, MainMessages, Ids

\* Appending a message to a channel and taking its head keep its type.
LEMMA ChannelTypes ==
  ASSUME NEW S, NEW q \in Seq(S)
  PROVE  /\ \A m \in S : Append(q, m) \in Seq(S)
         /\ q # <<>> => Head(q) \in S /\ Tail(q) \in Seq(S)
  BY AppendProperties, HeadTailProperties

\* Both outcomes of a latch keep the types.
LEMMA SyncTypes ==
  ASSUME TypeOK, NEW sw \in SUBSET (Ids \X Ids), NEW settled \in BOOLEAN,
         syncFirstScreen(sw, settled) \/ noSync(sw)
  PROVE  /\ synced' \in BOOLEAN /\ toBackground' \in Seq(BackgroundMessages)
         /\ swap' \in SUBSET (Ids \X Ids) /\ handovers' \in Nat
  <1>1. FirstScreenMsg(sw, TRUE, settled) \in BackgroundMessages
    BY MessageTypes
  <1>2. toBackground \in Seq(BackgroundMessages) /\ synced \in BOOLEAN /\ handovers \in Nat
    BY DEF TypeOK
  <1>3. Append(toBackground, FirstScreenMsg(sw, TRUE, settled)) \in Seq(BackgroundMessages)
    BY <1>1, <1>2, ChannelTypes
  <1>4. CASE syncFirstScreen(sw, settled)
    <2>1. {} \in SUBSET (Ids \X Ids)
      OBVIOUS
    <2>2. /\ synced' = TRUE /\ swap' = {} /\ handovers' = handovers + 1
          /\ toBackground' = Append(toBackground, FirstScreenMsg(sw, TRUE, settled))
      BY <1>4 DEF syncFirstScreen
    <2>3. toBackground' \in Seq(BackgroundMessages)
      BY <1>3, <2>2
    <2>4. swap' \in SUBSET (Ids \X Ids)
      BY <2>1, <2>2
    <2>5. synced' \in BOOLEAN /\ handovers' \in Nat
      BY <1>2, <2>2
    <2>. QED  BY <2>3, <2>4, <2>5
  <1>5. CASE noSync(sw)
    BY <1>2, <1>5 DEF noSync
  <1>. QED  BY <1>4, <1>5

\* So does a hydration.
LEMMA HydrateTypes ==
  ASSUME TypeOK, NEW m \in BackgroundMessages, NEW tree \in {"none", "empty", "rendered"},
         NEW queue \in Seq(MainMessages), HydrateFirstScreen(m, tree, queue)
  PROVE  /\ bPatching' \in BOOLEAN /\ direct' \in BOOLEAN
         /\ bRoot' \in Ids /\ bElement' \in Ids /\ bIds' \in SUBSET Ids
         /\ delayedEvents' \in Seq(Ids) /\ toMain' \in Seq(MainMessages)
         /\ missed' \in SUBSET Ids /\ aborted' \in Nat
  <1>1. m.id \in Ids
    BY DEF BackgroundMessages
  <1>2. PatchMsg(m.id, TRUE, tree = "empty") \in MainMessages
    BY <1>1, MessageTypes
  <1>3. Append(queue, PatchMsg(m.id, TRUE, tree = "empty")) \in Seq(MainMessages)
    BY <1>2, ChannelTypes
  <1>4. \A i \in DOMAIN delayedEvents : delayedEvents[i] \in Ids
    BY DEF TypeOK
  <1>5. \A S : S \subseteq DOMAIN delayedEvents => {delayedEvents[i] : i \in S} \in SUBSET Ids
    BY <1>4
  <1>6. CASE ReplayThrows(m)
    BY <1>1, <1>6 DEF HydrateFirstScreen, TypeOK, HydratedElement, HydratedIds
  <1>7. CASE ~ReplayThrows(m)
    <2>1. missed' \in SUBSET Ids
      BY <1>5, <1>7 DEF HydrateFirstScreen, TypeOK
    <2>2. delayedEvents' \in Seq(Ids)
      BY <1>7 DEF HydrateFirstScreen
    <2>. QED  BY <1>1, <1>3, <1>7, <2>1, <2>2
              DEF HydrateFirstScreen, TypeOK, HydratedElement, HydratedIds
  <1>. QED  BY <1>6, <1>7

\* Every step keeps the types.
LEMMA TypeInductive == TypeOK /\ [Next]_vars => TypeOK'
  <1> SUFFICES ASSUME TypeOK, [Next]_vars PROVE TypeOK'
    OBVIOUS
  <1>m. /\ \A q \in Seq(BackgroundMessages), v \in Nat :
             /\ Append(q, AppReloadMsg(v)) \in Seq(BackgroundMessages)
             /\ Append(q, EventMsg) \in Seq(BackgroundMessages)
             /\ Append(q, FirstScreenMsg({}, FALSE, TRUE)) \in Seq(BackgroundMessages)
        /\ \A q \in Seq(MainMessages) :
             /\ Append(q, SyncReadyMsg) \in Seq(MainMessages)
             /\ Append(q, PatchMsg(bRoot, FALSE, FALSE)) \in Seq(MainMessages)
    BY MessageTypes, ChannelTypes DEF TypeOK
  <1>b. toBackground # <<>> => /\ Head(toBackground) \in BackgroundMessages
                               /\ Tail(toBackground) \in Seq(BackgroundMessages)
    BY ChannelTypes DEF TypeOK
  <1>c. toMain # <<>> => Head(toMain) \in MainMessages /\ Tail(toMain) \in Seq(MainMessages)
    BY ChannelTypes DEF TypeOK
  <1>d. delayedScreens # <<>> => /\ Head(delayedScreens) \in BackgroundMessages
                                 /\ Tail(delayedScreens) \in Seq(BackgroundMessages)
    BY ChannelTypes DEF TypeOK
  <1>1. CASE ProcessData
    BY <1>1 DEF ProcessData, TypeOK, bgVars
  <1>2. CASE BeginRender
    <2>1. mRoot' \in Ids /\ mIds' \in SUBSET Ids /\ updates' \in Nat
      BY <1>2 DEF BeginRender, TypeOK, Ids
    <2>2. treeReady' \in BOOLEAN /\ shown' \in BOOLEAN
      BY <1>2 DEF BeginRender, TreeReadyWhileRendering, TypeOK
    <2>. QED  BY <1>2, <2>1, <2>2 DEF BeginRender, TypeOK, bgVars
  <1>3. CASE EndRender
    <2>1. swap \in SUBSET (Ids \X Ids)
      BY DEF TypeOK
    <2>2. SwapAfterHydrate \in SUBSET (Ids \X Ids)
      <3>1. <<mRoot - 1, mRoot>> \in Ids \X Ids
        BY DEF TypeOK, Ids
      <3>. QED  BY <2>1, <3>1 DEF SwapAfterHydrate
    <2>3. /\ synced' \in BOOLEAN /\ toBackground' \in Seq(BackgroundMessages)
          /\ swap' \in SUBSET (Ids \X Ids) /\ handovers' \in Nat /\ treeReady' \in BOOLEAN
      <3>1. PICK sw \in SUBSET (Ids \X Ids) :
              /\ syncFirstScreen(sw, TRUE) \/ noSync(sw)
              /\ treeReady' \in {treeReady, TRUE}
        <4>1. CASE mRoot = 1
          BY <1>3, <2>1, <4>1 DEF EndRender, onFirstScreenTreeReady
        <4>2. CASE mRoot # 1
          BY <1>3, <2>2, <4>2 DEF EndRender, onFirstScreenTreeReady
        <4>. QED  BY <4>1, <4>2
      <3>. QED  BY <3>1, SyncTypes DEF TypeOK
    <2>. QED  BY <1>3, <2>3 DEF EndRender, TypeOK, bgVars
  <1>4. CASE MarkOnMain
    <2>1. swap \in SUBSET (Ids \X Ids) /\ (phase = "idle") \in BOOLEAN
      BY DEF TypeOK
    <2>2. /\ syncFirstScreen(swap, phase = "idle") \/ noSync(swap)
          /\ marked' = TRUE
      BY <1>4 DEF MarkOnMain, onFirstScreenSyncReady
    <2>3. /\ synced' \in BOOLEAN /\ toBackground' \in Seq(BackgroundMessages)
          /\ swap' \in SUBSET (Ids \X Ids) /\ handovers' \in Nat
      BY <2>1, <2>2, SyncTypes
    <2>. QED  BY <1>4, <2>2, <2>3 DEF MarkOnMain, TypeOK, bgVars
  <1>5. CASE FireEvent
    <2>1. toBackground' \in Seq(BackgroundMessages)
      BY <1>5, <1>m DEF FireEvent, TypeOK
    <2>. QED  BY <1>5, <2>1 DEF FireEvent, TypeOK, bgVars, mainVars
  <1>6. CASE BeginReload
    <2>0. mVersion + 1 \in Nat /\ toBackground \in Seq(BackgroundMessages)
      BY DEF TypeOK
    <2>4. toBackground' = Append(toBackground, AppReloadMsg(mVersion + 1)) /\ mVersion' = mVersion + 1
      BY <1>6 DEF BeginReload
    <2>1. toBackground' \in Seq(BackgroundMessages) /\ mVersion' \in Nat
      <3>1. Append(toBackground, AppReloadMsg(mVersion + 1)) \in Seq(BackgroundMessages)
        BY <1>m, <2>0
      <3>. QED  BY <2>0, <2>4, <3>1
    <2>2. mRoot' \in Ids /\ mIds' \in SUBSET Ids
      BY <1>6 DEF BeginReload, TypeOK, Ids
    <2>3. swap' \in SUBSET (Ids \X Ids) /\ handovers' \in Nat
      BY <1>6 DEF BeginReload
    <2>. QED  BY ZenonT(60), <1>6, <2>1, <2>2, <2>3 DEF BeginReload, TypeOK, bgVars
  <1>7. CASE EndReload
    <2>0. handovers \in Nat /\ toBackground \in Seq(BackgroundMessages)
      BY DEF TypeOK
    <2>2. \/ /\ toBackground' = Append(toBackground, FirstScreenMsg({}, FALSE, TRUE))
             /\ handovers' = handovers + 1
          \/ toBackground' = toBackground /\ handovers' = handovers
      BY <1>7 DEF EndReload
    <2>1. toBackground' \in Seq(BackgroundMessages) /\ handovers' \in Nat
      <3>1. Append(toBackground, FirstScreenMsg({}, FALSE, TRUE)) \in Seq(BackgroundMessages)
        BY <1>m, <2>0
      <3>2. handovers + 1 \in Nat
        BY <2>0
      <3>. QED  BY <2>0, <2>2, <3>1, <3>2
    <2>. QED  BY <1>7, <2>1 DEF EndReload, TypeOK, bgVars
  <1>8. CASE ReceiveSyncReady
    <2>1. swap \in SUBSET (Ids \X Ids) /\ (phase = "idle") \in BOOLEAN
      BY DEF TypeOK
    <2>2. /\ syncFirstScreen(swap, phase = "idle") \/ noSync(swap)
          /\ marked' = TRUE
      BY <1>8 DEF ReceiveSyncReady, onFirstScreenSyncReady
    <2>3. /\ synced' \in BOOLEAN /\ toBackground' \in Seq(BackgroundMessages)
          /\ swap' \in SUBSET (Ids \X Ids) /\ handovers' \in Nat
      BY <2>1, <2>2, SyncTypes
    <2>. QED  BY <1>8, <1>c, <2>2, <2>3 DEF ReceiveSyncReady, TypeOK, bgVars
  <1>9. CASE updateMainThread
    <2>1. Head(toMain).hydration \in BOOLEAN
      BY <1>9, <1>c DEF updateMainThread, MainMessages
    <2>2. hydrated' \in BOOLEAN /\ shown' \in BOOLEAN
      BY <1>9, <2>1 DEF updateMainThread, TypeOK
    <2>. QED  BY <1>9, <1>c, <2>2 DEF updateMainThread, TypeOK, bgVars
  <1>10. CASE RootRender
    <2> DEFINE sent == IF bPatching THEN Append(toMain, PatchMsg(bRoot, FALSE, FALSE)) ELSE toMain
    <2>1. sent \in Seq(MainMessages)
      BY <1>m DEF TypeOK
    <2>2. CASE timing = "jsReady" \/ delayedScreens = <<>>
      <3>1. toMain' \in Seq(MainMessages)
        BY <1>10, <2>1, <2>2, <1>m DEF RootRender
      <3>2. /\ UNCHANGED <<app, timing, mainVars, bVersion, toBackground, handovers, updates>>
            /\ UNCHANGED <<events, commits, bPatching, bRoot, bElement, bIds, direct>>
            /\ UNCHANGED <<delayedEvents, delayedScreens, missed, aborted>> /\ bTree' = "rendered"
        BY <1>10, <2>2 DEF RootRender
      <3>3. bTree' \in {"none", "empty", "rendered"}
        BY <3>2
      <3>. QED  BY <3>1, <3>2, <3>3 DEF TypeOK, mainVars
    <2>3. CASE ~(timing = "jsReady" \/ delayedScreens = <<>>)
      <3>1. /\ HydrateFirstScreen(Head(delayedScreens), "rendered", sent)
            /\ delayedScreens' \in Seq(BackgroundMessages) /\ bTree' = "rendered"
        BY <1>10, <2>3, <1>d DEF RootRender
      <3>2. /\ bPatching' \in BOOLEAN /\ direct' \in BOOLEAN
            /\ bRoot' \in Ids /\ bElement' \in Ids /\ bIds' \in SUBSET Ids
            /\ delayedEvents' \in Seq(Ids) /\ toMain' \in Seq(MainMessages)
            /\ missed' \in SUBSET Ids /\ aborted' \in Nat
        BY <3>1, <2>1, <2>3, <1>d, HydrateTypes
      <3>. QED  BY <1>10, <3>1, <3>2 DEF RootRender, TypeOK, mainVars
    <2>. QED  BY <2>2, <2>3
  <1>11. CASE ReceiveFirstScreen
    <2>1. CASE bTree = "none"
      <3>1. delayedScreens' \in Seq(BackgroundMessages)
        <4>1. delayedScreens \in Seq(BackgroundMessages)
          BY DEF TypeOK
        <4>2. /\ delayedScreens' = Append(delayedScreens, Head(toBackground))
              /\ Head(toBackground) \in BackgroundMessages
          BY <1>11, <2>1, <1>b DEF ReceiveFirstScreen
        <4>. QED  BY <4>1, <4>2, ChannelTypes
      <3>. QED  BY <1>11, <2>1, <3>1, <1>b DEF ReceiveFirstScreen, TypeOK, mainVars
    <2>2. CASE bTree # "none"
      <3>1. HydrateFirstScreen(Head(toBackground), bTree, toMain) /\ UNCHANGED delayedScreens
        BY <1>11, <2>2 DEF ReceiveFirstScreen
      <3>2. /\ bPatching' \in BOOLEAN /\ direct' \in BOOLEAN
            /\ bRoot' \in Ids /\ bElement' \in Ids /\ bIds' \in SUBSET Ids
            /\ delayedEvents' \in Seq(Ids) /\ toMain' \in Seq(MainMessages)
            /\ missed' \in SUBSET Ids /\ aborted' \in Nat
        BY <1>11, <3>1, <1>b, HydrateTypes DEF ReceiveFirstScreen, TypeOK
      <3>. QED  BY <1>11, <1>b, <3>1, <3>2 DEF ReceiveFirstScreen, TypeOK, mainVars
    <2>. QED  BY <2>1, <2>2
  <1>12. CASE ReceiveAppReload
    <2>1. /\ toBackground' \in Seq(BackgroundMessages)
          /\ delayedScreens' \in Seq(BackgroundMessages) /\ delayedEvents' \in Seq(Ids)
      BY <1>12, <1>b DEF ReceiveAppReload, DelayedEventsAfterReload
    <2>2. bVersion' \in Nat /\ bElement' \in Ids /\ bTree' \in {"none", "empty", "rendered"}
      BY <1>12 DEF ReceiveAppReload, TypeOK, Ids
    <2>. QED  BY ZenonT(60), <1>12, <2>1, <2>2 DEF ReceiveAppReload, TypeOK, mainVars
  <1>13. CASE ReceiveEvent
    <2>1. Head(toBackground).id \in Ids
      BY <1>13, <1>b DEF ReceiveEvent, BackgroundMessages
    <2>2. /\ missed' \in SUBSET Ids
          /\ delayedEvents' \in Seq(Ids)
      <3>1. delayedEvents \in Seq(Ids) /\ missed \in SUBSET Ids
        BY DEF TypeOK
      <3>2. /\ missed' \in {missed, missed \cup {Head(toBackground).id}}
            /\ delayedEvents' \in {delayedEvents, Append(delayedEvents, Head(toBackground).id)}
        BY <1>13 DEF ReceiveEvent
      <3>3. Append(delayedEvents, Head(toBackground).id) \in Seq(Ids)
        BY <2>1, <3>1, ChannelTypes
      <3>. QED  BY <2>1, <3>1, <3>2, <3>3
    <2>. QED  BY <1>13, <1>b, <2>2 DEF ReceiveEvent, TypeOK, mainVars
  <1>14. CASE Commit
    <2>1. toMain' \in Seq(MainMessages)
      BY <1>14, <1>m DEF Commit, TypeOK
    <2>2. commits' \in Nat
      BY <1>14 DEF Commit, TypeOK
    <2>. QED  BY ZenonT(60), <1>14, <2>1, <2>2 DEF Commit, TypeOK, mainVars, bgVars
  <1>15. CASE TearDown
    BY <1>15 DEF TearDown, TypeOK, mainVars
  <1>16. CASE MarkOnBackground
    BY ZenonT(60), <1>16, <1>m DEF MarkOnBackground, TypeOK, mainVars, bgVars
  <1>17. CASE UNCHANGED vars
    BY <1>17 DEF vars, mainVars, bgVars, TypeOK
  <1>. QED  BY <1>1, <1>2, <1>3, <1>4, <1>5, <1>6, <1>7, <1>8, <1>9, <1>10, <1>11,
                <1>12, <1>13, <1>14, <1>15, <1>16, <1>17 DEF Next, Main, Background

LEMMA TypeInitial == Init => TypeOK
  <1> SUFFICES ASSUME Init PROVE TypeOK
    OBVIOUS
  <1>1. /\ app \in [earlyReload : BOOLEAN, markInReload : BOOLEAN]
        /\ timing \in {"immediately", "jsReady", "manual"}
    BY ConstantsAssumption DEF Init
  <1>2. /\ mIds \in SUBSET Ids /\ swap \in SUBSET (Ids \X Ids) /\ bIds \in SUBSET Ids
        /\ missed \in SUBSET Ids /\ delayedEvents \in Seq(Ids)
        /\ delayedScreens \in Seq(BackgroundMessages)
        /\ toBackground \in Seq(BackgroundMessages) /\ toMain \in Seq(MainMessages)
    BY DEF Init
  <1>3. mRoot \in Ids /\ bRoot \in Ids /\ bElement \in Ids
    BY DEF Init, Ids
  <1>. QED  BY <1>1, <1>2, <1>3 DEF Init, TypeOK

\* The variables have their types in every behaviour.
THEOREM TypeCorrect == Spec => []TypeOK
  BY TypeInitial, TypeInductive, PTL DEF Spec
-----------------------------------------------------------------------------
(* The inductive invariant behind AcceptedPatchesMatchRoot.                 *)

\* The version a message leaves its receiver in.
VersionAfter(v, m) == IF m.type = "appReload" THEN v + 1 ELSE v

\* The messages of q lead a receiver from one reload version to another, each
\* sent in the version that the messages before it lead to.
InStep(q, from, to) ==
  /\ q = <<>> => from = to
  /\ q # <<>> => /\ q[1].version = VersionAfter(from, q[1])
                 /\ q[Len(q)].version = to
  /\ \A i \in 1..(Len(q) - 1) : q[i + 1].version = VersionAfter(q[i].version, q[i + 1])
  /\ \A i \in 1..Len(q) : q[i].version <= to
  /\ from <= to

VersionsInStep == InStep(toBackground, bVersion, mVersion)

\* The messages of a queue.
In(q) == {q[i] : i \in 1..Len(q)}

\* Nothing of the hand-over exists before it, and the root is not replaced after it.
BeforeHandover ==
  /\ mRoot >= 0
  /\ mRoot = 0 => ~treeReady /\ phase \in {"idle", "data"} /\ ~synced
  /\ phase = "data" => ~synced
  /\ ~synced => /\ \A m \in In(toBackground) : m.type # "firstScreen"
                /\ delayedScreens = <<>>
                /\ ~bPatching
                /\ \A m \in In(toMain) : m.type # "patch"

\* Whatever belongs to the present life of the page names the present root.
RootInstalled == mRoot # 0 => mRoot \in mIds
ScreensNameRoot ==
  \A m \in In(toBackground) :
    m.type = "firstScreen" /\ m.version = mVersion => m.id = mRoot
DelayedNameRoot ==
  \A m \in In(delayedScreens) :
    m.version = bVersion /\ (bVersion = mVersion => m.id = mRoot)
BackgroundNamesRoot == bPatching /\ bVersion = mVersion => bRoot = mRoot
PatchesNameRoot ==
  \A m \in In(toMain) :
    m.type = "patch" => m.version <= mVersion /\ (m.version = mVersion => m.id = mRoot)

SameLifeSameRoot ==
  /\ RootInstalled /\ ScreensNameRoot /\ DelayedNameRoot /\ BackgroundNamesRoot
  /\ PatchesNameRoot

ReloadInv == TypeOK /\ VersionsInStep /\ BeforeHandover /\ SameLifeSameRoot

\* Sending a message from version "to" keeps a queue in step.
LEMMA InStepAppend ==
  ASSUME NEW q \in Seq(BackgroundMessages), NEW from \in Nat, NEW to \in Nat,
         NEW m \in BackgroundMessages, InStep(q, from, to), m.version = VersionAfter(to, m)
  PROVE  InStep(Append(q, m), from, m.version)
  <1> DEFINE r == Append(q, m)
  <1>1. /\ Len(r) = Len(q) + 1 /\ r # <<>> /\ r[Len(q) + 1] = m
        /\ \A i \in 1..Len(q) : r[i] = q[i]
    OBVIOUS
  <1>2. m.version \in Nat /\ to <= m.version
    BY DEF BackgroundMessages, VersionAfter
  <1>3. \A i \in 1..Len(q) : q[i].version \in Nat
    <2>1. \A i \in 1..Len(q) : q[i] \in BackgroundMessages
      OBVIOUS
    <2>. QED  BY <2>1 DEF BackgroundMessages
  <1>4. r[1].version = VersionAfter(from, r[1])
    BY <1>1 DEF InStep
  <1>5. ASSUME NEW i \in 1..(Len(r) - 1)
        PROVE  r[i + 1].version = VersionAfter(r[i].version, r[i + 1])
    <2>1. CASE i = Len(q)
      BY <1>1, <2>1 DEF InStep
    <2>2. CASE i # Len(q)
      BY <1>1, <2>2 DEF InStep
    <2>. QED  BY <2>1, <2>2
  <1>6. ASSUME NEW i \in 1..Len(r) PROVE r[i].version <= m.version
    BY <1>1, <1>2, <1>3 DEF InStep
  <1>. QED  BY <1>1, <1>2, <1>4, <1>5, <1>6 DEF InStep

\* Receiving the first message brings the receiver to the version of that message.
LEMMA InStepTail ==
  ASSUME NEW q \in Seq(BackgroundMessages), NEW from \in Nat, NEW to \in Nat,
         q # <<>>, InStep(q, from, to)
  PROVE  /\ Head(q).version = VersionAfter(from, Head(q))
         /\ InStep(Tail(q), Head(q).version, to)
  <1> DEFINE r == Tail(q)
  <1>1. /\ Len(r) = Len(q) - 1 /\ (r = <<>> <=> Len(q) = 1) /\ Head(q) = q[1]
        /\ \A i \in 1..(Len(q) - 1) : r[i] = q[i + 1]
    <2>1. Len(q) \in Nat \ {0} /\ Head(q) = q[1]
      OBVIOUS
    <2>2. /\ Len(r) = Len(q) - 1 /\ r \in Seq(BackgroundMessages)
          /\ \A i \in 1..Len(r) : r[i] = q[i + 1]
      BY HeadTailProperties
    <2>3. r = <<>> <=> Len(r) = 0
      BY <2>2, EmptySeq
    <2>. QED  BY <2>1, <2>2, <2>3
  <1>2. \A i \in 1..Len(q) : q[i].version \in Nat
    <2>1. \A i \in 1..Len(q) : q[i] \in BackgroundMessages
      OBVIOUS
    <2>. QED  BY <2>1 DEF BackgroundMessages
  <1>3. Head(q).version = VersionAfter(from, Head(q)) /\ Head(q).version <= to
    BY <1>1 DEF InStep
  <1>4. r = <<>> => Head(q).version = to
    BY <1>1 DEF InStep
  <1>5. r # <<>> => /\ r[1].version = VersionAfter(Head(q).version, r[1])
                    /\ r[Len(r)].version = to
    BY <1>1 DEF InStep
  <1>6. ASSUME NEW i \in 1..(Len(r) - 1)
        PROVE  r[i + 1].version = VersionAfter(r[i].version, r[i + 1])
    BY <1>1 DEF InStep
  <1>7. ASSUME NEW i \in 1..Len(r) PROVE r[i].version <= to
    BY <1>1 DEF InStep
  <1>. QED  BY <1>3, <1>4, <1>5, <1>6, <1>7 DEF InStep

LEMMA VersionsInductive == TypeOK /\ VersionsInStep /\ [Next]_vars => VersionsInStep'
  <1> SUFFICES ASSUME TypeOK, VersionsInStep, [Next]_vars PROVE VersionsInStep'
    OBVIOUS
  <1>t. toBackground \in Seq(BackgroundMessages) /\ bVersion \in Nat /\ mVersion \in Nat
    BY DEF TypeOK
  <1>q. UNCHANGED <<toBackground, bVersion, mVersion>> => VersionsInStep'
    BY DEF VersionsInStep, InStep, VersionAfter
  <1>a. \A m \in BackgroundMessages :
          /\ m.type # "appReload" /\ m.version = mVersion
          /\ toBackground' = Append(toBackground, m) /\ UNCHANGED <<bVersion, mVersion>>
          => VersionsInStep'
    BY <1>t, InStepAppend DEF VersionsInStep, VersionAfter
  <1>s. ASSUME NEW sw, NEW settled \in BOOLEAN, sw \in SUBSET (Ids \X Ids),
               syncFirstScreen(sw, settled) \/ noSync(sw), UNCHANGED <<bVersion, mVersion>>
        PROVE  VersionsInStep'
    <2>1. FirstScreenMsg(sw, TRUE, settled) \in BackgroundMessages
      BY <1>s, MessageTypes
    <2>2. /\ FirstScreenMsg(sw, TRUE, settled).type # "appReload"
          /\ FirstScreenMsg(sw, TRUE, settled).version = mVersion
      BY DEF FirstScreenMsg
    <2>. QED  BY <1>s, <1>a, <1>q, <2>1, <2>2 DEF syncFirstScreen, noSync
  <1>w. swap \in SUBSET (Ids \X Ids) /\ SwapAfterHydrate \in SUBSET (Ids \X Ids)
    <2>1. <<mRoot - 1, mRoot>> \in Ids \X Ids
      BY DEF TypeOK, Ids
    <2>2. swap \in SUBSET (Ids \X Ids)
      BY DEF TypeOK
    <2>. QED  BY <2>1, <2>2 DEF SwapAfterHydrate
  <1>1. CASE ProcessData \/ BeginRender \/ updateMainThread \/ RootRender \/ Commit
             \/ TearDown \/ MarkOnBackground
    BY <1>1, <1>q DEF ProcessData, BeginRender, updateMainThread, RootRender, Commit,
                      TearDown, MarkOnBackground, mainVars, bgVars
  <1>2. CASE EndRender
    <2>1. PICK sw \in SUBSET (Ids \X Ids) : syncFirstScreen(sw, TRUE) \/ noSync(sw)
      BY <1>2, <1>w DEF EndRender, onFirstScreenTreeReady
    <2>. QED  BY <1>2, <1>s, <2>1 DEF EndRender, bgVars
  <1>3. CASE MarkOnMain \/ ReceiveSyncReady
    <2>1. syncFirstScreen(swap, phase = "idle") \/ noSync(swap)
      BY <1>3 DEF MarkOnMain, ReceiveSyncReady, onFirstScreenSyncReady
    <2>2. UNCHANGED <<bVersion, mVersion>> /\ (phase = "idle") \in BOOLEAN
      BY <1>3 DEF MarkOnMain, ReceiveSyncReady, bgVars
    <2>. QED  BY <1>s, <1>w, <2>1, <2>2
  <1>4. CASE FireEvent
    <2>1. EventMsg \in BackgroundMessages /\ EventMsg.type # "appReload" /\ EventMsg.version = mVersion
      BY MessageTypes DEF EventMsg
    <2>. QED  BY <1>4, <1>a, <2>1 DEF FireEvent, mainVars, bgVars
  <1>5. CASE BeginReload
    <2> DEFINE m == AppReloadMsg(mVersion + 1)
    <2>1. m \in BackgroundMessages /\ m.type = "appReload" /\ m.version = mVersion + 1
      BY <1>t, MessageTypes DEF AppReloadMsg
    <2>2. InStep(Append(toBackground, m), bVersion, mVersion + 1)
      BY <1>t, <2>1, InStepAppend DEF VersionsInStep, VersionAfter
    <2>. QED  BY <1>5, <2>2 DEF BeginReload, VersionsInStep, bgVars
  <1>6. CASE EndReload
    <2>1. FirstScreenMsg({}, FALSE, TRUE) \in BackgroundMessages
      BY MessageTypes
    <2>2. /\ FirstScreenMsg({}, FALSE, TRUE).type # "appReload"
          /\ FirstScreenMsg({}, FALSE, TRUE).version = mVersion
      BY DEF FirstScreenMsg
    <2>. QED  BY <1>6, <1>a, <1>q, <2>1, <2>2 DEF EndReload, bgVars
  <1>7. CASE ReceiveFirstScreen \/ ReceiveEvent
    <2>1. /\ toBackground # <<>> /\ Head(toBackground).type # "appReload"
          /\ toBackground' = Tail(toBackground) /\ UNCHANGED <<bVersion, mVersion>>
      BY <1>7 DEF ReceiveFirstScreen, ReceiveEvent, mainVars
    <2>. QED  BY <1>t, <2>1, InStepTail DEF VersionsInStep, VersionAfter
  <1>8. CASE ReceiveAppReload
    <2>1. /\ toBackground # <<>> /\ Head(toBackground).type = "appReload"
          /\ toBackground' = Tail(toBackground) /\ bVersion' = bVersion + 1
          /\ mVersion' = mVersion
      BY <1>8 DEF ReceiveAppReload, mainVars
    <2>. QED  BY <1>t, <2>1, InStepTail DEF VersionsInStep, VersionAfter
  <1>9. CASE UNCHANGED vars
    BY <1>9, <1>q DEF vars, mainVars, bgVars
  <1>. QED  BY <1>1, <1>2, <1>3, <1>4, <1>5, <1>6, <1>7, <1>8, <1>9
            DEF Next, Main, Background

LEMMA InAppend ==
  ASSUME NEW S, NEW q \in Seq(S), NEW m \in S
  PROVE  In(Append(q, m)) = In(q) \cup {m}
  <1>1. /\ Len(Append(q, m)) = Len(q) + 1 /\ Append(q, m)[Len(q) + 1] = m
        /\ \A i \in 1..Len(q) : Append(q, m)[i] = q[i]
        /\ Len(q) \in Nat
    OBVIOUS
  <1>. QED  BY <1>1 DEF In

LEMMA InTail ==
  ASSUME NEW S, NEW q \in Seq(S), q # <<>>
  PROVE  Head(q) \in In(q) /\ In(Tail(q)) \subseteq In(q) /\ In(q) \subseteq S
  <1>1. Len(q) \in Nat \ {0} /\ Head(q) = q[1] /\ \A i \in 1..Len(q) : q[i] \in S
    OBVIOUS
  <1>2. Len(Tail(q)) = Len(q) - 1 /\ \A i \in 1..Len(Tail(q)) : Tail(q)[i] = q[i + 1]
    BY HeadTailProperties
  <1>. QED  BY <1>1, <1>2 DEF In

LEMMA InEmpty == In(<<>>) = {}
  BY DEF In

\* A latch sends a firstScreen message for the present root, or nothing.
LEMMA SyncSends ==
  ASSUME TypeOK, NEW sw \in SUBSET (Ids \X Ids), NEW settled \in BOOLEAN,
         syncFirstScreen(sw, settled) \/ noSync(sw)
  PROVE  \/ /\ synced' = TRUE /\ handovers' = handovers + 1
            /\ In(toBackground') = In(toBackground) \cup {FirstScreenMsg(sw, TRUE, settled)}
         \/ synced' = synced /\ toBackground' = toBackground /\ handovers' = handovers
  <1>1. /\ FirstScreenMsg(sw, TRUE, settled) \in BackgroundMessages
        /\ toBackground \in Seq(BackgroundMessages)
    BY MessageTypes DEF TypeOK
  <1>2. In(Append(toBackground, FirstScreenMsg(sw, TRUE, settled)))
          = In(toBackground) \cup {FirstScreenMsg(sw, TRUE, settled)}
    <2> DEFINE m == FirstScreenMsg(sw, TRUE, settled)
    <2>1. m \in BackgroundMessages /\ toBackground \in Seq(BackgroundMessages)
      BY <1>1
    <2> HIDE DEF m
    <2>2. In(Append(toBackground, m)) = In(toBackground) \cup {m}
      BY <2>1, InAppend
    <2>. QED  BY <2>2 DEF m
  <1>. QED  BY <1>2 DEF syncFirstScreen, noSync

\* What the steps that may close a latch do.
LEMMA LatchSteps ==
  ASSUME TypeOK, EndRender \/ MarkOnMain \/ ReceiveSyncReady
  PROVE  \E sw \in SUBSET (Ids \X Ids), settled \in BOOLEAN :
           /\ syncFirstScreen(sw, settled) \/ noSync(sw)
           /\ UNCHANGED <<mVersion, mRoot, mIds, bVersion, bPatching, bRoot, delayedScreens>>
  <1>1. swap \in SUBSET (Ids \X Ids) /\ SwapAfterHydrate \in SUBSET (Ids \X Ids)
    <2>1. <<mRoot - 1, mRoot>> \in Ids \X Ids
      BY DEF TypeOK, Ids
    <2>2. swap \in SUBSET (Ids \X Ids)
      BY DEF TypeOK
    <2>. QED  BY <2>1, <2>2 DEF SwapAfterHydrate
  <1>2. CASE EndRender
    <2>1. PICK sw \in SUBSET (Ids \X Ids) : syncFirstScreen(sw, TRUE) \/ noSync(sw)
      BY <1>2, <1>1 DEF EndRender, onFirstScreenTreeReady
    <2>. QED  BY <1>2, <2>1 DEF EndRender, bgVars
  <1>3. CASE MarkOnMain \/ ReceiveSyncReady
    <2>1. syncFirstScreen(swap, phase = "idle") \/ noSync(swap)
      BY <1>3 DEF MarkOnMain, ReceiveSyncReady, onFirstScreenSyncReady
    <2>2. /\ UNCHANGED <<mVersion, mRoot, mIds, bVersion, bPatching, bRoot, delayedScreens>>
          /\ (phase = "idle") \in BOOLEAN
      BY <1>3 DEF MarkOnMain, ReceiveSyncReady, bgVars
    <2>. QED  BY <1>1, <2>1, <2>2
  <1>. QED  BY <1>2, <1>3

LEMMA PatchAppended ==
  ASSUME TypeOK, NEW q \in Seq(MainMessages), NEW id \in Ids, NEW h \in BOOLEAN, NEW p \in BOOLEAN
  PROVE  In(Append(q, PatchMsg(id, h, p))) = In(q) \cup {PatchMsg(id, h, p)}
  <1> DEFINE m == PatchMsg(id, h, p)
  <1>1. m \in MainMessages
    BY MessageTypes
  <1> HIDE DEF m
  <1>2. In(Append(q, m)) = In(q) \cup {m}
    BY <1>1, InAppend
  <1>. QED  BY <1>2 DEF m

\* Hydration sends one patch at most, for the root and version it was given.
LEMMA HydrateSends ==
  ASSUME TypeOK, NEW m \in BackgroundMessages, NEW tree, NEW queue \in Seq(MainMessages),
         HydrateFirstScreen(m, tree, queue)
  PROVE  /\ bPatching' = TRUE /\ bRoot' = m.id
         /\ \E p \in BOOLEAN :
              In(toMain') \subseteq In(queue) \cup {PatchMsg(m.id, TRUE, p)}
  <1>1. m.id \in Ids
    BY DEF BackgroundMessages
  <1>2. PatchMsg(m.id, TRUE, tree = "empty") \in MainMessages
    BY <1>1, MessageTypes
  <1>3. In(Append(queue, PatchMsg(m.id, TRUE, tree = "empty")))
          = In(queue) \cup {PatchMsg(m.id, TRUE, tree = "empty")}
    BY <1>1, PatchAppended
  <1>. QED  BY <1>3 DEF HydrateFirstScreen

LEMMA BeforeHandoverInductive == TypeOK /\ BeforeHandover /\ [Next]_vars => BeforeHandover'
  <1> SUFFICES ASSUME TypeOK, BeforeHandover, [Next]_vars PROVE BeforeHandover'
    OBVIOUS
  <1>t. /\ toBackground \in Seq(BackgroundMessages) /\ toMain \in Seq(MainMessages)
        /\ mRoot \in Int /\ synced \in BOOLEAN
    BY DEF TypeOK, Ids
  <1>b. toBackground # <<>> => /\ Head(toBackground) \in In(toBackground)
                               /\ In(Tail(toBackground)) \subseteq In(toBackground)
    BY <1>t, InTail
  <1>m. toMain # <<>> => In(Tail(toMain)) \subseteq In(toMain)
    BY <1>t, InTail
  <1>r. In(Append(toMain, SyncReadyMsg)) = In(toMain) \cup {SyncReadyMsg} /\ SyncReadyMsg.type # "patch"
    BY <1>t, MessageTypes, InAppend DEF SyncReadyMsg
  <1>1. CASE ProcessData
    BY <1>1 DEF ProcessData, BeforeHandover, bgVars
  <1>2. CASE BeginRender
    BY <1>2, <1>t DEF BeginRender, BeforeHandover, bgVars
  <1>3. CASE EndRender
    <2>1. \/ synced' = TRUE
          \/ synced' = synced /\ toBackground' = toBackground
      BY <1>3, LatchSteps, SyncSends
    <2>2. mRoot' = mRoot /\ phase' = "idle" /\ phase = "render"
          /\ UNCHANGED <<toMain, bPatching, delayedScreens>>
      BY <1>3 DEF EndRender, bgVars
    <2>. QED  BY <2>1, <2>2, <1>t DEF BeforeHandover
  <1>4. CASE MarkOnMain \/ ReceiveSyncReady
    <2>1. \/ MaySyncOnMark /\ synced' = TRUE
          \/ synced' = synced /\ toBackground' = toBackground
      BY <1>4 DEF MarkOnMain, ReceiveSyncReady, onFirstScreenSyncReady, syncFirstScreen, noSync
    <2>2. /\ UNCHANGED <<mRoot, phase, treeReady, bPatching, delayedScreens>>
          /\ In(toMain') \subseteq In(toMain)
      BY <1>4, <1>m DEF MarkOnMain, ReceiveSyncReady, bgVars
    <2>. QED  BY <2>1, <2>2 DEF BeforeHandover, MaySyncOnMark
  <1>5. CASE FireEvent
    <2>1. In(Append(toBackground, EventMsg)) = In(toBackground) \cup {EventMsg}
          /\ EventMsg.type # "firstScreen"
      BY <1>t, MessageTypes, InAppend DEF EventMsg
    <2>. QED  BY <1>5, <2>1 DEF FireEvent, BeforeHandover, mainVars, bgVars
  <1>6. CASE BeginReload
    <2> DEFINE m == AppReloadMsg(mVersion + 1)
    <2>1. m \in BackgroundMessages /\ m.type = "appReload"
      BY MessageTypes DEF AppReloadMsg, TypeOK
    <2>2. In(Append(toBackground, m)) = In(toBackground) \cup {m}
      BY <1>t, <2>1, InAppend
    <2>. QED  BY <1>6, <1>t, <2>1, <2>2 DEF BeginReload, BeforeHandover, bgVars
  <1>7. CASE EndReload
    <2>1. /\ UNCHANGED <<mRoot, synced, treeReady, bPatching, delayedScreens, toMain>>
          /\ phase' = "idle" /\ phase = "reload"
          /\ ~synced => UNCHANGED toBackground
      BY <1>7 DEF EndReload, bgVars
    <2>. QED  BY <2>1 DEF BeforeHandover
  <1>8. CASE updateMainThread
    BY <1>8, <1>m DEF updateMainThread, BeforeHandover, bgVars
  <1>9. CASE RootRender
    <2>1. CASE ~synced
      <3>1. ~bPatching /\ delayedScreens = <<>>
        BY <2>1 DEF BeforeHandover
      <3>2. toMain' \in {toMain, Append(toMain, SyncReadyMsg)} /\ UNCHANGED <<bPatching, delayedScreens>>
        BY <1>9, <3>1 DEF RootRender
      <3>. QED  BY <1>9, <2>1, <3>2, <1>r DEF RootRender, BeforeHandover, mainVars
    <2>2. CASE synced
      BY <1>9, <2>2 DEF RootRender, BeforeHandover, mainVars
    <2>. QED  BY <1>t, <2>1, <2>2
  <1>10. CASE ReceiveFirstScreen
    <2>1. synced
      BY <1>10, <1>b DEF ReceiveFirstScreen, BeforeHandover
    <2>. QED  BY <1>10, <2>1 DEF ReceiveFirstScreen, BeforeHandover, mainVars
  <1>11. CASE ReceiveAppReload
    BY <1>11, <1>b DEF ReceiveAppReload, BeforeHandover, mainVars
  <1>12. CASE ReceiveEvent
    BY <1>12, <1>b DEF ReceiveEvent, BeforeHandover, mainVars
  <1>13. CASE Commit
    BY <1>13 DEF Commit, BeforeHandover, mainVars, bgVars
  <1>14. CASE TearDown
    BY <1>14 DEF TearDown, BeforeHandover, mainVars
  <1>15. CASE MarkOnBackground
    BY <1>15, <1>r DEF MarkOnBackground, BeforeHandover, mainVars, bgVars
  <1>16. CASE UNCHANGED vars
    BY <1>16 DEF vars, mainVars, bgVars, BeforeHandover
  <1>. QED  BY <1>1, <1>2, <1>3, <1>4, <1>5, <1>6, <1>7, <1>8, <1>9, <1>10, <1>11,
                <1>12, <1>13, <1>14, <1>15, <1>16 DEF Next, Main, Background

\* Queues keep naming the present root when only messages about it are added.
LEMMA SameRootInductive == ReloadInv /\ [Next]_vars => SameLifeSameRoot'
  <1> SUFFICES ASSUME TypeOK, VersionsInStep, BeforeHandover, SameLifeSameRoot, [Next]_vars
               PROVE SameLifeSameRoot'
    BY DEF ReloadInv
  <1>t. /\ toBackground \in Seq(BackgroundMessages) /\ toMain \in Seq(MainMessages)
        /\ delayedScreens \in Seq(BackgroundMessages)
        /\ mRoot \in Int /\ mVersion \in Nat /\ bVersion \in Nat /\ synced \in BOOLEAN
        /\ bVersion <= mVersion /\ bRoot \in Ids
    BY DEF TypeOK, Ids, VersionsInStep, InStep
  <1>b. toBackground # <<>> =>
          /\ Head(toBackground) \in In(toBackground) /\ Head(toBackground) \in BackgroundMessages
          /\ In(Tail(toBackground)) \subseteq In(toBackground)
          /\ Head(toBackground).version = VersionAfter(bVersion, Head(toBackground))
          /\ Head(toBackground).version <= mVersion
    <2>1. ASSUME toBackground # <<>>
          PROVE  /\ Head(toBackground) \in In(toBackground) /\ In(toBackground) \subseteq BackgroundMessages
                 /\ In(Tail(toBackground)) \subseteq In(toBackground)
      BY <2>1, <1>t, InTail
    <2>2. toBackground # <<>> =>
            /\ Head(toBackground).version = VersionAfter(bVersion, Head(toBackground))
            /\ Head(toBackground).version <= mVersion
      BY <1>t, InStepTail DEF VersionsInStep, InStep
    <2>. QED  BY <2>1, <2>2
  <1>m. toMain # <<>> => In(Tail(toMain)) \subseteq In(toMain)
    BY <1>t, InTail
  <1>r. In(Append(toMain, SyncReadyMsg)) = In(toMain) \cup {SyncReadyMsg} /\ SyncReadyMsg.type # "patch"
    BY ZenonT(40), <1>t, MessageTypes, InAppend DEF SyncReadyMsg
  <1>p. \A id \in Ids, h, p \in BOOLEAN :
          PatchMsg(id, h, p).id = id /\ PatchMsg(id, h, p).version = bVersion
    BY DEF PatchMsg
  <1>1. CASE ProcessData \/ TearDown \/ FireEvent \/ UNCHANGED vars
    <2>1. In(Append(toBackground, EventMsg)) = In(toBackground) \cup {EventMsg}
          /\ EventMsg.type # "firstScreen"
      BY ZenonT(60), <1>t, MessageTypes, InAppend DEF EventMsg
    <2>2. In(toBackground') \subseteq In(toBackground) \cup {EventMsg}
      BY <1>1, <2>1 DEF ProcessData, TearDown, FireEvent, vars
    <2>3. UNCHANGED <<mVersion, mRoot, mIds, bVersion, bPatching, bRoot, delayedScreens, toMain>>
      BY <1>1 DEF ProcessData, TearDown, FireEvent, vars, mainVars, bgVars
    <2>. QED  BY <2>1, <2>2, <2>3 DEF SameLifeSameRoot, RootInstalled, ScreensNameRoot,
                DelayedNameRoot, BackgroundNamesRoot, PatchesNameRoot
  <1>2. CASE BeginRender
    <2>1. /\ \A m \in In(toBackground) : m.type # "firstScreen"
          /\ delayedScreens = <<>> /\ ~bPatching /\ \A m \in In(toMain) : m.type # "patch"
      BY <1>2 DEF BeginRender, BeforeHandover
    <2>2. mRoot' \in mIds'
          /\ UNCHANGED <<mVersion, bVersion, bPatching, bRoot, delayedScreens, toMain, toBackground>>
      BY <1>2 DEF BeginRender, bgVars
    <2>. QED  BY <2>1, <2>2, InEmpty DEF SameLifeSameRoot, RootInstalled, ScreensNameRoot,
                DelayedNameRoot, BackgroundNamesRoot, PatchesNameRoot
  <1>3. CASE EndRender \/ MarkOnMain \/ ReceiveSyncReady
    <2>1. PICK sw \in SUBSET (Ids \X Ids), settled \in BOOLEAN :
            /\ syncFirstScreen(sw, settled) \/ noSync(sw)
            /\ UNCHANGED <<mVersion, mRoot, mIds, bVersion, bPatching, bRoot, delayedScreens>>
      BY <1>3, LatchSteps
    <2>2. In(toBackground') \subseteq In(toBackground) \cup {FirstScreenMsg(sw, TRUE, settled)}
      BY <2>1, SyncSends
    <2>3. FirstScreenMsg(sw, TRUE, settled).id = mRoot
      BY DEF FirstScreenMsg
    <2>4. In(toMain') \subseteq In(toMain)
      BY <1>3, <1>m DEF EndRender, MarkOnMain, ReceiveSyncReady
    <2>. QED  BY <2>1, <2>2, <2>3, <2>4 DEF SameLifeSameRoot, RootInstalled, ScreensNameRoot,
                DelayedNameRoot, BackgroundNamesRoot, PatchesNameRoot
  <1>4. CASE BeginReload
    <2> DEFINE m == AppReloadMsg(mVersion + 1)
    <2>1. m \in BackgroundMessages /\ m.type = "appReload"
      BY MessageTypes DEF AppReloadMsg, TypeOK
    <2>2. In(toBackground') = In(toBackground) \cup {m}
      BY <1>4, <1>t, <2>1, InAppend DEF BeginReload
    <2>3. /\ mVersion' = mVersion + 1 /\ mRoot' \in mIds'
          /\ UNCHANGED <<bVersion, bPatching, bRoot, delayedScreens, toMain>>
      BY <1>4 DEF BeginReload, bgVars
    <2>4. \A n \in In(toBackground) : n.version \in Nat /\ n.version <= mVersion
      <3>1. \A i \in 1..Len(toBackground) : toBackground[i] \in BackgroundMessages
        BY <1>t
      <3>. QED  BY <3>1 DEF In, VersionsInStep, InStep, BackgroundMessages
    <2>5. RootInstalled'
      BY <2>3 DEF RootInstalled
    <2>6. ScreensNameRoot'
      BY <1>t, <2>1, <2>2, <2>3, <2>4 DEF ScreensNameRoot
    <2>7. DelayedNameRoot' /\ BackgroundNamesRoot'
      BY <1>t, <2>3 DEF SameLifeSameRoot, DelayedNameRoot, BackgroundNamesRoot
    <2>8. PatchesNameRoot'
      <3>1. \A n \in In(toMain) : n.version \in Nat
        <4>1. \A i \in 1..Len(toMain) : toMain[i] \in MainMessages
          BY <1>t
        <4>. QED  BY <4>1 DEF In, MainMessages
      <3>. QED  BY <1>t, <2>3, <3>1 DEF SameLifeSameRoot, PatchesNameRoot
    <2>. QED  BY <2>5, <2>6, <2>7, <2>8 DEF SameLifeSameRoot
  <1>5. CASE EndReload
    <2>1. In(Append(toBackground, FirstScreenMsg({}, FALSE, TRUE)))
            = In(toBackground) \cup {FirstScreenMsg({}, FALSE, TRUE)}
      BY <1>t, MessageTypes, InAppend
    <2>2. FirstScreenMsg({}, FALSE, TRUE).id = mRoot
      BY DEF FirstScreenMsg
    <2>3. /\ In(toBackground') \subseteq In(toBackground) \cup {FirstScreenMsg({}, FALSE, TRUE)}
          /\ UNCHANGED <<mVersion, mRoot, mIds, bVersion, bPatching, bRoot, delayedScreens, toMain>>
      BY <1>5, <2>1 DEF EndReload, bgVars
    <2>. QED  BY <2>2, <2>3 DEF SameLifeSameRoot, RootInstalled, ScreensNameRoot,
                DelayedNameRoot, BackgroundNamesRoot, PatchesNameRoot
  <1>6. CASE updateMainThread
    <2>1. /\ In(toMain') \subseteq In(toMain)
          /\ UNCHANGED <<mVersion, mRoot, mIds, bVersion, bPatching, bRoot, delayedScreens, toBackground>>
      BY <1>6, <1>m DEF updateMainThread, bgVars
    <2>. QED  BY <2>1 DEF SameLifeSameRoot, RootInstalled, ScreensNameRoot,
                DelayedNameRoot, BackgroundNamesRoot, PatchesNameRoot
  <1>7. CASE RootRender
    <2> DEFINE sent == IF bPatching THEN Append(toMain, PatchMsg(bRoot, FALSE, FALSE)) ELSE toMain
    <2>1. /\ UNCHANGED <<mVersion, mRoot, mIds, bVersion, toBackground>>
      BY <1>7 DEF RootRender, mainVars
    <2>2. /\ sent \in Seq(MainMessages)
          /\ \A m \in In(sent) : m \in In(toMain) \/ (bPatching /\ m.id = bRoot /\ m.version = bVersion)
      <3>1. PatchMsg(bRoot, FALSE, FALSE) \in MainMessages
        BY <1>t, MessageTypes
      <3>2. In(Append(toMain, PatchMsg(bRoot, FALSE, FALSE)))
              = In(toMain) \cup {PatchMsg(bRoot, FALSE, FALSE)}
        BY <1>t, PatchAppended
      <3>3. Append(toMain, PatchMsg(bRoot, FALSE, FALSE)) \in Seq(MainMessages)
        BY <1>t, <3>1, ChannelTypes
      <3>. QED  BY <1>t, <1>p, <3>2, <3>3
    <2>3. CASE timing = "jsReady" \/ delayedScreens = <<>>
      <3>1. In(Append(sent, SyncReadyMsg)) = In(sent) \cup {SyncReadyMsg} /\ SyncReadyMsg.type # "patch"
        <4>1. SyncReadyMsg \in MainMessages /\ SyncReadyMsg.type # "patch"
          BY MessageTypes DEF SyncReadyMsg
        <4> HIDE DEF sent
        <4>. QED  BY <2>2, <4>1, InAppend
      <3>2. toMain' \in {sent, Append(sent, SyncReadyMsg)} /\ UNCHANGED <<bPatching, bRoot, delayedScreens>>
        BY <1>7, <2>3 DEF RootRender
      <3>3. PatchesNameRoot'
        BY <1>t, <2>1, <2>2, <3>1, <3>2 DEF SameLifeSameRoot, PatchesNameRoot, BackgroundNamesRoot
      <3>. QED  BY <2>1, <3>2, <3>3 DEF SameLifeSameRoot, RootInstalled, ScreensNameRoot,
                DelayedNameRoot, BackgroundNamesRoot
    <2>4. CASE ~(timing = "jsReady" \/ delayedScreens = <<>>)
      <3> DEFINE m == Head(delayedScreens)
      <3>1. /\ m \in In(delayedScreens) /\ m \in BackgroundMessages
            /\ In(Tail(delayedScreens)) \subseteq In(delayedScreens)
        BY <1>t, <2>4, InTail
      <3>2. HydrateFirstScreen(m, "rendered", sent) /\ delayedScreens' = Tail(delayedScreens)
        BY <1>7, <2>4 DEF RootRender
      <3>3. /\ bPatching' = TRUE /\ bRoot' = m.id
            /\ \E p \in BOOLEAN : In(toMain') \subseteq In(sent) \cup {PatchMsg(m.id, TRUE, p)}
        BY <2>2, <3>1, <3>2, HydrateSends
      <3>4. m.id \in Ids /\ (bVersion = mVersion => m.id = mRoot)
        BY <3>1 DEF SameLifeSameRoot, DelayedNameRoot, BackgroundMessages
      <3>5. PatchesNameRoot'
        <4>1. PICK p \in BOOLEAN : In(toMain') \subseteq In(sent) \cup {PatchMsg(m.id, TRUE, p)}
          BY <3>3
        <4>2. PatchMsg(m.id, TRUE, p).id = m.id /\ PatchMsg(m.id, TRUE, p).version = bVersion
          BY <3>4, <1>p
        <4> HIDE DEF m, sent
        <4>. QED  BY <1>t, <2>1, <2>2, <3>4, <4>1, <4>2
                  DEF SameLifeSameRoot, PatchesNameRoot, BackgroundNamesRoot
      <3>. QED  BY <2>1, <3>1, <3>2, <3>3, <3>4, <3>5
                DEF SameLifeSameRoot, RootInstalled, ScreensNameRoot, DelayedNameRoot, BackgroundNamesRoot
    <2>. QED  BY <2>3, <2>4
  <1>8. CASE ReceiveFirstScreen
    <2> DEFINE m == Head(toBackground)
    <2>1. /\ UNCHANGED <<mVersion, mRoot, mIds, bVersion>>
          /\ In(toBackground') \subseteq In(toBackground)
      BY <1>8, <1>b DEF ReceiveFirstScreen, mainVars
    <2>2. /\ m \in BackgroundMessages /\ m.id \in Ids /\ m.version = bVersion
          /\ bVersion = mVersion => m.id = mRoot
      BY <1>8, <1>b DEF ReceiveFirstScreen, SameLifeSameRoot, ScreensNameRoot, VersionAfter,
                        BackgroundMessages
    <2>3. CASE bTree = "none"
      <3>1. In(Append(delayedScreens, m)) = In(delayedScreens) \cup {m}
        BY <1>t, <2>2, InAppend
      <3>2. delayedScreens' = Append(delayedScreens, m) /\ UNCHANGED <<bPatching, bRoot, toMain>>
        BY <1>8, <2>3 DEF ReceiveFirstScreen
      <3>. QED  BY <2>1, <2>2, <3>1, <3>2 DEF SameLifeSameRoot, RootInstalled, ScreensNameRoot,
                DelayedNameRoot, BackgroundNamesRoot, PatchesNameRoot
    <2>4. CASE bTree # "none"
      <3>1. HydrateFirstScreen(m, bTree, toMain) /\ UNCHANGED delayedScreens
        BY <1>8, <2>4 DEF ReceiveFirstScreen
      <3>2. /\ bPatching' = TRUE /\ bRoot' = m.id
            /\ \E p \in BOOLEAN : In(toMain') \subseteq In(toMain) \cup {PatchMsg(m.id, TRUE, p)}
        BY <1>t, <2>2, <3>1, HydrateSends
      <3>3. PatchesNameRoot'
        <4>1. PICK p \in BOOLEAN : In(toMain') \subseteq In(toMain) \cup {PatchMsg(m.id, TRUE, p)}
          BY <3>2
        <4>2. PatchMsg(m.id, TRUE, p).id = m.id /\ PatchMsg(m.id, TRUE, p).version = bVersion
          BY <2>2, <1>p
        <4> HIDE DEF m
        <4>. QED  BY <1>t, <2>1, <2>2, <4>1, <4>2 DEF SameLifeSameRoot, PatchesNameRoot
      <3>. QED  BY <2>1, <2>2, <3>1, <3>2, <3>3 DEF SameLifeSameRoot, RootInstalled, ScreensNameRoot,
                DelayedNameRoot, BackgroundNamesRoot
    <2>. QED  BY <2>3, <2>4
  <1>9. CASE ReceiveAppReload
    <2>1. /\ UNCHANGED <<mVersion, mRoot, mIds, toMain>> /\ bPatching' = FALSE
          /\ delayedScreens' = <<>> /\ In(toBackground') \subseteq In(toBackground)
      BY <1>9, <1>b DEF ReceiveAppReload, mainVars
    <2>. QED  BY <2>1, InEmpty DEF SameLifeSameRoot, RootInstalled, ScreensNameRoot,
                DelayedNameRoot, BackgroundNamesRoot, PatchesNameRoot
  <1>10. CASE ReceiveEvent
    <2>1. /\ UNCHANGED <<mVersion, mRoot, mIds, bVersion, bPatching, bRoot, delayedScreens, toMain>>
          /\ In(toBackground') \subseteq In(toBackground)
      BY <1>10, <1>b DEF ReceiveEvent, mainVars
    <2>. QED  BY <2>1 DEF SameLifeSameRoot, RootInstalled, ScreensNameRoot,
                DelayedNameRoot, BackgroundNamesRoot, PatchesNameRoot
  <1>11. CASE Commit
    <2>1. In(Append(toMain, PatchMsg(bRoot, FALSE, FALSE)))
            = In(toMain) \cup {PatchMsg(bRoot, FALSE, FALSE)}
      BY <1>t, PatchAppended
    <2>2. /\ UNCHANGED <<mVersion, mRoot, mIds, bVersion, bPatching, bRoot, delayedScreens, toBackground>>
          /\ bPatching /\ In(toMain') = In(toMain) \cup {PatchMsg(bRoot, FALSE, FALSE)}
      BY <1>11, <2>1 DEF Commit, mainVars, bgVars
    <2>3. PatchesNameRoot'
      BY <1>t, <1>p, <2>2 DEF SameLifeSameRoot, PatchesNameRoot, BackgroundNamesRoot
    <2>. QED  BY <2>2, <2>3 DEF SameLifeSameRoot, RootInstalled, ScreensNameRoot,
                DelayedNameRoot, BackgroundNamesRoot
  <1>12. CASE MarkOnBackground
    <2>1. /\ UNCHANGED <<mVersion, mRoot, mIds, bVersion, bPatching, bRoot, delayedScreens, toBackground>>
          /\ In(toMain') = In(toMain) \cup {SyncReadyMsg}
      BY <1>12, <1>r DEF MarkOnBackground, mainVars, bgVars
    <2>. QED  BY <2>1, <1>r DEF SameLifeSameRoot, RootInstalled, ScreensNameRoot,
                DelayedNameRoot, BackgroundNamesRoot, PatchesNameRoot
  <1>. QED  BY <1>1, <1>2, <1>3, <1>4, <1>5, <1>6, <1>7, <1>8, <1>9, <1>10, <1>11, <1>12
            DEF Next, Main, Background

LEMMA ReloadInductive == ReloadInv /\ [Next]_vars => ReloadInv'
  BY TypeInductive, VersionsInductive, BeforeHandoverInductive, SameRootInductive DEF ReloadInv

LEMMA ReloadInitial == Init => ReloadInv
  <1> SUFFICES ASSUME Init PROVE ReloadInv
    OBVIOUS
  <1>1. TypeOK
    BY TypeInitial
  <1>2. VersionsInStep
    BY DEF Init, VersionsInStep, InStep
  <1>3. BeforeHandover /\ SameLifeSameRoot
    BY InEmpty DEF Init, BeforeHandover, SameLifeSameRoot, RootInstalled, ScreensNameRoot,
                   DelayedNameRoot, BackgroundNamesRoot, PatchesNameRoot
  <1>. QED  BY <1>1, <1>2, <1>3 DEF ReloadInv

LEMMA ReloadInvImplies == ReloadInv => AcceptedPatchesMatchRoot
  <1> SUFFICES ASSUME ReloadInv, NEW i \in DOMAIN toMain,
                      toMain[i].type = "patch", ~StalePatch(toMain[i])
               PROVE  toMain[i].id = mRoot /\ mRoot \in mIds
    BY DEF AcceptedPatchesMatchRoot
  <1>1. toMain \in Seq(MainMessages) /\ mVersion \in Nat
    BY DEF ReloadInv, TypeOK
  <1>2. i \in 1..Len(toMain) /\ toMain[i] \in MainMessages
    BY <1>1
  <1>3. toMain[i] \in In(toMain) /\ toMain[i].version \in Nat
    BY <1>2 DEF In, MainMessages
  <1>4. toMain[i].id = mRoot
    BY <1>1, <1>3 DEF ReloadInv, SameLifeSameRoot, PatchesNameRoot, StalePatch
  <1>5. mRoot # 0
    BY <1>3 DEF ReloadInv, BeforeHandover
  <1>. QED  BY <1>4, <1>5 DEF ReloadInv, SameLifeSameRoot, RootInstalled

\* Whatever reloads, marks and renders interleave, a patch that passes the version
\* check of updateMainThread addresses the root on show.
THEOREM PatchesSafe == Spec => []AcceptedPatchesMatchRoot
  BY ReloadInitial, ReloadInductive, ReloadInvImplies, PTL DEF Spec

-----------------------------------------------------------------------------
(* The latches of the hand-over, when no mark is made while a reload renders. *)

Latches ==
  /\ timing = "manual" /\ phase = "render" => ~treeReady
  /\ phase = "render" => ~synced
  /\ ~synced \/ phase = "reload" => handovers = 0
  /\ handovers <= 1

ScreensSettled ==
  /\ \A m \in In(toBackground) : m.type = "firstScreen" => m.settled
  /\ \A m \in In(delayedScreens) : m.type = "firstScreen" => m.settled

HandoverInv == TypeOK /\ BeforeHandover /\ Latches /\ ScreensSettled

LEMMA HandoverInductive ==
  ASSUME ~app.markInReload, HandoverInv, [Next]_vars
  PROVE  HandoverInv'
  <1> USE DEF HandoverInv
  <1>1. TypeOK' /\ BeforeHandover'
    BY TypeInductive, BeforeHandoverInductive
  <1>t. /\ toBackground \in Seq(BackgroundMessages) /\ delayedScreens \in Seq(BackgroundMessages)
        /\ handovers \in Nat /\ phase \in {"idle", "data", "render", "reload"}
    BY DEF TypeOK
  <1>u. UNCHANGED <<timing, phase, treeReady, synced, handovers>> => Latches'
    BY DEF Latches
  <1>v. In(toBackground') \subseteq In(toBackground) /\ In(delayedScreens') \subseteq In(delayedScreens)
          => ScreensSettled'
    BY DEF ScreensSettled
  <1>s. ASSUME NEW sw \in SUBSET (Ids \X Ids), NEW settled \in BOOLEAN, UNCHANGED delayedScreens,
               (syncFirstScreen(sw, settled) /\ settled) \/ noSync(sw)
        PROVE  ScreensSettled'
    <2>1. CASE syncFirstScreen(sw, settled) /\ settled
      <3>1. \/ In(toBackground') = In(toBackground) \cup {FirstScreenMsg(sw, TRUE, settled)}
            \/ toBackground' = toBackground
        BY <2>1, SyncSends
      <3>2. FirstScreenMsg(sw, TRUE, settled).settled = settled
        BY DEF FirstScreenMsg
      <3>. QED  BY <1>s, <2>1, <3>1, <3>2 DEF ScreensSettled
    <2>2. CASE noSync(sw)
      BY <1>s, <1>v, <2>2 DEF noSync
    <2>. QED  BY <1>s, <2>1, <2>2
  <1>2. CASE ProcessData
    BY <1>1, <1>2, <1>v DEF ProcessData, Latches, bgVars
  <1>3. CASE BeginRender
    <2>1. Latches'
      BY <1>3 DEF BeginRender, Latches, TreeReadyWhileRendering, BeforeHandover
    <2>. QED  BY <1>1, <1>3, <1>v, <2>1 DEF BeginRender, bgVars
  <1>4. CASE EndRender
    <2>1. PICK sw \in SUBSET (Ids \X Ids) : syncFirstScreen(sw, TRUE) \/ noSync(sw)
      <3>1. <<mRoot - 1, mRoot>> \in Ids \X Ids /\ swap \in SUBSET (Ids \X Ids)
        BY DEF TypeOK, Ids
      <3>2. SwapAfterHydrate \in SUBSET (Ids \X Ids)
        BY <3>1 DEF SwapAfterHydrate
      <3>. QED  BY <1>4, <3>1, <3>2 DEF EndRender, onFirstScreenTreeReady
    <2>2. /\ phase' = "idle" /\ ~synced /\ handovers = 0
          /\ (synced' = TRUE /\ handovers' = handovers + 1) \/ UNCHANGED <<synced, handovers>>
      BY <1>4, <2>1 DEF EndRender, Latches, syncFirstScreen, noSync
    <2>3. ScreensSettled'
      BY <1>4, <1>s, <2>1 DEF EndRender, bgVars
    <2>. QED  BY <1>1, <2>2, <2>3 DEF Latches
  <1>5. CASE MarkOnMain \/ ReceiveSyncReady
    <2>1. /\ phase # "reload"
          /\ \/ MaySyncOnMark /\ syncFirstScreen(swap, phase = "idle")
             \/ noSync(swap)
          /\ UNCHANGED <<timing, phase, treeReady, delayedScreens>>
          /\ timing = "manual" \/ phase = "idle"
      BY <1>5 DEF MarkOnMain, ReceiveSyncReady, onFirstScreenSyncReady, bgVars
    <2>2. swap \in SUBSET (Ids \X Ids) /\ (phase = "idle") \in BOOLEAN
      BY DEF TypeOK
    <2>3. MaySyncOnMark => phase = "idle" /\ handovers = 0 /\ ~synced
      BY <1>t, <2>1 DEF MaySyncOnMark, Latches
    <2>4. ScreensSettled'
      BY <1>s, <2>1, <2>2, <2>3
    <2>5. Latches'
      <3>1. CASE MaySyncOnMark /\ syncFirstScreen(swap, phase = "idle")
        <4>1. synced' = TRUE /\ handovers' = 1 /\ phase' = "idle"
          BY <2>1, <2>3, <3>1 DEF syncFirstScreen
        <4>. QED  BY <4>1 DEF Latches
      <3>2. CASE noSync(swap)
        BY <1>u, <2>1, <3>2 DEF noSync
      <3>. QED  BY <2>1, <3>1, <3>2
    <2>. QED  BY <1>1, <2>4, <2>5
  <1>6. CASE FireEvent
    <2>1. In(Append(toBackground, EventMsg)) = In(toBackground) \cup {EventMsg}
          /\ EventMsg.type # "firstScreen"
      BY ZenonT(60), <1>t, MessageTypes, InAppend DEF EventMsg
    <2>2. ScreensSettled'
      BY <1>6, <2>1 DEF FireEvent, ScreensSettled, bgVars
    <2>. QED  BY <1>1, <1>6, <1>u, <2>2 DEF FireEvent, mainVars
  <1>7. CASE BeginReload
    <2> DEFINE m == AppReloadMsg(mVersion + 1)
    <2>1. m \in BackgroundMessages /\ m.type = "appReload"
      BY MessageTypes DEF AppReloadMsg, TypeOK
    <2>2. In(Append(toBackground, m)) = In(toBackground) \cup {m}
      BY <1>t, <2>1, InAppend
    <2>3. ScreensSettled'
      BY <1>7, <2>1, <2>2 DEF BeginReload, ScreensSettled, bgVars
    <2>. QED  BY <1>1, <1>7, <2>3 DEF BeginReload, Latches
  <1>8. CASE EndReload
    <2>1. In(Append(toBackground, FirstScreenMsg({}, FALSE, TRUE)))
            = In(toBackground) \cup {FirstScreenMsg({}, FALSE, TRUE)}
      BY ZenonT(60), <1>t, MessageTypes, InAppend
    <2>2. FirstScreenMsg({}, FALSE, TRUE).settled = TRUE
      BY DEF FirstScreenMsg
    <2>3. ScreensSettled'
      BY <1>8, <2>1, <2>2 DEF EndReload, ScreensSettled, bgVars
    <2>4. Latches'
      <3>1. handovers = 0 /\ phase' = "idle" /\ UNCHANGED <<timing, treeReady, synced>>
        BY <1>8 DEF EndReload, Latches
      <3>2. CASE synced
        <4>1. handovers' = handovers + 1
          BY <1>8, <3>2 DEF EndReload
        <4>. QED  BY <3>1, <3>2, <4>1 DEF Latches
      <3>3. CASE ~synced
        <4>1. handovers' = handovers
          BY <1>8, <3>3 DEF EndReload
        <4>. QED  BY <3>1, <3>3, <4>1 DEF Latches
      <3>. QED  BY <3>2, <3>3
    <2>. QED  BY <1>1, <2>3, <2>4
  <1>9. CASE updateMainThread \/ Commit \/ TearDown \/ MarkOnBackground \/ UNCHANGED vars
    <2>1. UNCHANGED <<timing, phase, treeReady, synced, handovers, toBackground, delayedScreens>>
      BY <1>9 DEF updateMainThread, Commit, TearDown, MarkOnBackground, vars, mainVars, bgVars
    <2>. QED  BY <1>1, <1>u, <1>v, <2>1
  <1>10. CASE RootRender
    <2>1. UNCHANGED <<timing, phase, treeReady, synced, handovers, toBackground>>
      BY <1>10 DEF RootRender, mainVars
    <2>2. In(delayedScreens') \subseteq In(delayedScreens)
      BY <1>10, <1>t, InTail DEF RootRender
    <2>. QED  BY <1>1, <1>u, <1>v, <2>1, <2>2
  <1>11. CASE ReceiveFirstScreen \/ ReceiveAppReload \/ ReceiveEvent
    <2>1. UNCHANGED <<timing, phase, treeReady, synced, handovers>>
      BY <1>11 DEF ReceiveFirstScreen, ReceiveAppReload, ReceiveEvent, mainVars
    <2>2. /\ Head(toBackground) \in In(toBackground) /\ Head(toBackground) \in BackgroundMessages
          /\ In(toBackground') \subseteq In(toBackground)
      BY <1>11, <1>t, InTail DEF ReceiveFirstScreen, ReceiveAppReload, ReceiveEvent
    <2>3. In(Append(delayedScreens, Head(toBackground))) = In(delayedScreens) \cup {Head(toBackground)}
      BY <1>t, <2>2, InAppend
    <2>4. In(delayedScreens') \subseteq In(delayedScreens) \cup {Head(toBackground)}
      BY <1>11, <2>3, InEmpty DEF ReceiveFirstScreen, ReceiveAppReload, ReceiveEvent
    <2>5. ScreensSettled'
      BY <2>2, <2>4 DEF ScreensSettled
    <2>. QED  BY <1>1, <1>u, <2>1, <2>5
  <1>. QED  BY <1>2, <1>3, <1>4, <1>5, <1>6, <1>7, <1>8, <1>9, <1>10, <1>11
            DEF Next, Main, Background

LEMMA HandoverInitial == Init => HandoverInv
  <1> SUFFICES ASSUME Init PROVE HandoverInv
    OBVIOUS
  <1>1. TypeOK /\ BeforeHandover
    BY ReloadInitial DEF ReloadInv
  <1>2. Latches /\ ScreensSettled
    BY InEmpty DEF Init, Latches, ScreensSettled
  <1>. QED  BY <1>1, <1>2 DEF HandoverInv

LEMMA HandoverInvImplies == HandoverInv => HandedOverOnce
  <1> SUFFICES ASSUME HandoverInv PROVE HandedOverOnce
    OBVIOUS
  <1>1. handovers <= 1
    BY DEF HandoverInv, Latches
  <1>2. ASSUME NEW q \in {toBackground, delayedScreens}, NEW i \in DOMAIN q,
               q[i].type = "firstScreen"
        PROVE  q[i].settled
    <2>1. q \in Seq(BackgroundMessages)
      BY DEF HandoverInv, TypeOK
    <2>2. q[i] \in In(q)
      BY <2>1 DEF In
    <2>. QED  BY <1>2, <2>2 DEF HandoverInv, ScreensSettled
  <1>. QED  BY <1>1, <1>2 DEF HandedOverOnce

HandoverInvForApp == ~app.markInReload => HandoverInv

LEMMA HandoverForApp ==
  /\ Init => HandoverInvForApp
  /\ HandoverInvForApp /\ [Next]_vars => HandoverInvForApp'
  /\ HandoverInvForApp => HandedOverOnce
  <1>1. [Next]_vars => app' = app
    BY DEF Next, Main, Background, ProcessData, BeginRender, EndRender, MarkOnMain, FireEvent,
           BeginReload, EndReload, ReceiveSyncReady, updateMainThread, RootRender,
           ReceiveFirstScreen, ReceiveAppReload, ReceiveEvent, Commit, TearDown,
           MarkOnBackground, vars
  <1>2. HandoverInvForApp /\ [Next]_vars => HandoverInvForApp'
    BY <1>1, HandoverInductive DEF HandoverInvForApp
  <1>3. HandoverInvForApp => HandedOverOnce
    BY HandoverInvImplies DEF HandoverInvForApp, HandedOverOnce
  <1>. QED  BY <1>2, <1>3, HandoverInitial DEF HandoverInvForApp

\* As long as the app makes no mark while a reload renders, the main thread hands its
\* tree over at most once in each life of the page, and never half rendered.
THEOREM HandoverOnce == Spec => []HandedOverOnce
  BY HandoverForApp, PTL DEF Spec

-----------------------------------------------------------------------------
(* The inductive invariant behind HydrationCompletes.  A message without a *)
(* swap is sent at the end of a reload only, and between the appReload     *)
(* message and the end of the reload no event is fired; so nothing waits   *)
(* to be replayed when it is hydrated.                                     *)

\* Every event among the first n messages of q is followed by a reload among them.
EventsBeforeReload(q, n) ==
  \A k \in 1..n : q[k].type = "event" => \E j \in (k + 1)..n : q[j].type = "appReload"
NoReload(q, n) == \A k \in 1..n : q[k].type # "appReload"

\* No event will wait once the first n messages of q are received.
NothingWaits == delayedEvents = <<>> /\ bTree # "none"
Quiet(q, n) == EventsBeforeReload(q, n) /\ (NoReload(q, n) => NothingWaits)

\* A message without a swap follows the first n messages of q, or will.
WithoutSwapAfter(q, n, ph) ==
  IF n = Len(q) THEN ph = "reload" ELSE q[n + 1].type = "firstScreen" /\ ~q[n + 1].hasSwap

QuietReloads ==
  \A n \in 0..Len(toBackground) :
    WithoutSwapAfter(toBackground, n, phase) => Quiet(toBackground, n)
DelayedHaveSwap == \A m \in In(delayedScreens) : m.hasSwap

ReplayInv == TypeOK /\ QuietReloads /\ DelayedHaveSwap /\ HydrationCompletes

\* Sending a message: what was said of the messages before it stays true.
LEMMA QuietAppend ==
  ASSUME NEW q \in Seq(BackgroundMessages), NEW m \in BackgroundMessages, NEW ph, NEW n \in 0..Len(q)
  PROVE  /\ n < Len(q) => (WithoutSwapAfter(Append(q, m), n, ph) <=> WithoutSwapAfter(q, n, ph))
         /\ WithoutSwapAfter(Append(q, m), Len(q), ph) <=> (m.type = "firstScreen" /\ ~m.hasSwap)
         /\ EventsBeforeReload(q, n) <=> EventsBeforeReload(Append(q, m), n)
         /\ NoReload(q, n) <=> NoReload(Append(q, m), n)
  <1>1. /\ Len(Append(q, m)) = Len(q) + 1 /\ Append(q, m)[Len(q) + 1] = m
        /\ \A i \in 1..Len(q) : Append(q, m)[i] = q[i]
        /\ Len(q) \in Nat
    OBVIOUS
  <1> DEFINE r == Append(q, m)
  <1>2. n < Len(q) => (WithoutSwapAfter(r, n, ph) <=> WithoutSwapAfter(q, n, ph))
    <2> SUFFICES ASSUME n < Len(q) PROVE WithoutSwapAfter(r, n, ph) <=> WithoutSwapAfter(q, n, ph)
      OBVIOUS
    <2>1. n # Len(r) /\ n # Len(q) /\ n + 1 \in 1..Len(q)
      BY <1>1
    <2>2. r[n + 1] = q[n + 1]
      BY <1>1, <2>1
    <2>. QED  BY <2>1, <2>2 DEF WithoutSwapAfter
  <1>3. WithoutSwapAfter(r, Len(q), ph) <=> (m.type = "firstScreen" /\ ~m.hasSwap)
    BY <1>1 DEF WithoutSwapAfter
  <1>4. \A k \in 1..n : r[k] = q[k]
    BY <1>1
  <1>5. \A k \in 1..n : \A j \in (k + 1)..n : r[j] = q[j]
    BY <1>1
  <1> HIDE DEF r
  <1>6. EventsBeforeReload(q, n) <=> EventsBeforeReload(r, n)
    BY <1>4, <1>5 DEF EventsBeforeReload
  <1>7. NoReload(q, n) <=> NoReload(r, n)
    BY <1>4 DEF NoReload
  <1>. QED  BY <1>2, <1>3, <1>6, <1>7 DEF r

\* ... and what it adds to them.
LEMMA QuietAppended ==
  ASSUME NEW q \in Seq(BackgroundMessages), NEW m \in BackgroundMessages, NEW n, n = Len(q)
  PROVE  /\ m.type = "appReload" => /\ EventsBeforeReload(Append(q, m), n + 1)
                                    /\ ~NoReload(Append(q, m), n + 1)
         /\ m.type = "firstScreen" /\ EventsBeforeReload(q, n)
              => EventsBeforeReload(Append(q, m), n + 1)
         /\ NoReload(Append(q, m), n + 1) => NoReload(q, n)
  <1>1. /\ Append(q, m)[n + 1] = m /\ n \in Nat
        /\ \A i \in 1..n : Append(q, m)[i] = q[i]
    OBVIOUS
  <1> DEFINE r == Append(q, m)
  <1>2. r[n + 1] = m /\ \A k \in 1..(n + 1) : k = n + 1 \/ (k \in 1..n /\ r[k] = q[k])
    BY <1>1
  <1> HIDE DEF r
  <1>3. ASSUME m.type = "appReload"
        PROVE  EventsBeforeReload(r, n + 1) /\ ~NoReload(r, n + 1)
    <2>1. ASSUME NEW k \in 1..(n + 1), r[k].type = "event"
          PROVE  \E j \in (k + 1)..(n + 1) : r[j].type = "appReload"
      <3>1. k # n + 1
        BY <1>2, <1>3, <2>1
      <3>2. n + 1 \in (k + 1)..(n + 1)
        BY <1>1, <3>1
      <3>. QED  BY <1>2, <1>3, <3>2
    <2>2. n + 1 \in 1..(n + 1)
      BY <1>1
    <2>. QED  BY <1>2, <1>3, <2>1, <2>2 DEF EventsBeforeReload, NoReload
  <1>4. ASSUME m.type = "firstScreen", EventsBeforeReload(q, n)
        PROVE  EventsBeforeReload(r, n + 1)
    <2>1. SUFFICES ASSUME NEW k \in 1..(n + 1), r[k].type = "event"
          PROVE  \E j \in (k + 1)..(n + 1) : r[j].type = "appReload"
      BY DEF EventsBeforeReload
    <2>2. k \in 1..n /\ q[k].type = "event"
      BY <1>2, <1>4, <2>1
    <2>3. PICK j \in (k + 1)..n : q[j].type = "appReload"
      BY <1>4, <2>2 DEF EventsBeforeReload
    <2>4. j \in 1..n /\ j \in (k + 1)..(n + 1)
      BY <1>1, <2>2
    <2>5. r[j] = q[j]
      BY <1>1, <2>4 DEF r
    <2>. QED  BY <2>3, <2>4, <2>5
  <1>5. NoReload(r, n + 1) => NoReload(q, n)
    <2>1. \A k \in 1..n : k \in 1..(n + 1) /\ r[k] = q[k]
      BY <1>1 DEF r
    <2>. QED  BY <2>1 DEF NoReload
  <1>. QED  BY <1>3, <1>4, <1>5 DEF r

\* Receiving the first message.
LEMMA QuietTail ==
  ASSUME NEW q \in Seq(BackgroundMessages), q # <<>>, NEW ph, NEW n \in 0..Len(Tail(q)),
         WithoutSwapAfter(Tail(q), n, ph)
  PROVE  /\ n + 1 \in 0..Len(q) /\ WithoutSwapAfter(q, n + 1, ph)
         /\ EventsBeforeReload(q, n + 1) =>
              /\ EventsBeforeReload(Tail(q), n)
              /\ Head(q).type = "event" => ~NoReload(Tail(q), n)
         /\ Head(q).type # "appReload" /\ NoReload(Tail(q), n) => NoReload(q, n + 1)
  <1> DEFINE r == Tail(q)
  <1>1. /\ Len(r) = Len(q) - 1 /\ \A i \in 1..Len(r) : r[i] = q[i + 1]
        /\ Len(q) \in Nat \ {0} /\ Head(q) = q[1] /\ Len(r) \in Nat
    <2>1. Len(q) \in Nat \ {0} /\ Head(q) = q[1]
      OBVIOUS
    <2>. QED  BY <2>1, HeadTailProperties
  <1> HIDE DEF r
  <1>0. n \in 0..Len(r)
    BY DEF r
  <1>2. n + 1 \in 0..Len(q) /\ (n = Len(r) <=> n + 1 = Len(q))
    BY <1>0, <1>1
  <1>3. WithoutSwapAfter(q, n + 1, ph)
    <2>1. CASE n = Len(r)
      <3>1. ph = "reload"
        BY <2>1 DEF WithoutSwapAfter, r
      <3>. QED  BY <1>2, <2>1, <3>1 DEF WithoutSwapAfter
    <2>2. CASE n # Len(r)
      <3>1. n + 1 \in 1..Len(r) /\ n + 1 # Len(q)
        BY <1>0, <1>1, <1>2, <2>2
      <3>2. r[n + 1] = q[n + 1 + 1]
        BY <1>1, <3>1
      <3>. QED  BY <2>2, <3>1, <3>2 DEF WithoutSwapAfter, r
    <2>. QED  BY <2>1, <2>2
  <1>4. \A k \in 1..n : r[k] = q[k + 1]
    BY <1>1 DEF r
  <1>5. ASSUME EventsBeforeReload(q, n + 1)
        PROVE  EventsBeforeReload(r, n) /\ (Head(q).type = "event" => ~NoReload(r, n))
    <2>1. ASSUME NEW k \in 1..n, r[k].type = "event"
          PROVE  \E j \in (k + 1)..n : r[j].type = "appReload"
      <3>1. k + 1 \in 1..(n + 1) /\ q[k + 1].type = "event"
        BY <1>4, <2>1
      <3>2. PICK j \in (k + 1 + 1)..(n + 1) : q[j].type = "appReload"
        BY <1>5, <3>1 DEF EventsBeforeReload
      <3>3. j - 1 \in (k + 1)..n /\ j - 1 \in 1..n /\ j = (j - 1) + 1
        BY <3>2
      <3>. QED  BY <1>4, <3>2, <3>3
    <2>2. ASSUME q[1].type = "event" PROVE ~NoReload(r, n)
      <3>1. 1 \in 1..(n + 1)
        OBVIOUS
      <3>2. PICK j \in (1 + 1)..(n + 1) : q[j].type = "appReload"
        BY <1>5, <2>2, <3>1 DEF EventsBeforeReload
      <3>3. j - 1 \in 1..n /\ j = (j - 1) + 1
        BY <3>2
      <3>. QED  BY <1>4, <3>2, <3>3 DEF NoReload
    <2>. QED  BY <1>1, <2>1, <2>2 DEF EventsBeforeReload
  <1>6. ASSUME Head(q).type # "appReload", NoReload(r, n)
        PROVE  NoReload(q, n + 1)
    <2>1. SUFFICES ASSUME NEW k \in 1..(n + 1) PROVE q[k].type # "appReload"
      BY DEF NoReload
    <2>2. CASE k = 1
      BY <1>1, <1>6, <2>2
    <2>3. CASE k # 1
      <3>1. k - 1 \in 1..n /\ k = (k - 1) + 1
        BY <2>3
      <3>. QED  BY <1>4, <1>6, <3>1 DEF NoReload
    <2>. QED  BY <2>2, <2>3
  <1>. QED  BY <1>2, <1>3, <1>5, <1>6 DEF r
LEMMA ReplayInductive == ReplayInv /\ [Next]_vars => ReplayInv'
  <1> SUFFICES ASSUME TypeOK, QuietReloads, DelayedHaveSwap, HydrationCompletes, [Next]_vars
               PROVE ReplayInv'
    BY DEF ReplayInv
  <1>0. TypeOK'
    BY TypeInductive
  <1>t. /\ toBackground \in Seq(BackgroundMessages) /\ delayedScreens \in Seq(BackgroundMessages)
        /\ delayedEvents \in Seq(Ids) /\ Len(toBackground) \in Nat
        /\ phase \in {"idle", "data", "render", "reload"}
    BY DEF TypeOK
  \* Steps that send nothing to the background thread and receive nothing there.
  <1>a. ASSUME UNCHANGED <<toBackground, delayedEvents, bTree, delayedScreens, aborted>>,
               phase' = phase \/ phase' # "reload"
        PROVE  ReplayInv'
    <2>1. QuietReloads'
      <3>1. \A n \in 0..Len(toBackground) :
              /\ WithoutSwapAfter(toBackground, n, phase') => WithoutSwapAfter(toBackground, n, phase)
              /\ Quiet(toBackground, n) => Quiet(toBackground, n)'
        BY <1>a DEF WithoutSwapAfter, Quiet, NothingWaits, EventsBeforeReload, NoReload
      <3>. QED  BY <1>a, <3>1 DEF QuietReloads
    <2>. QED  BY <1>0, <1>a, <2>1 DEF ReplayInv, DelayedHaveSwap, HydrationCompletes
  \* Steps that send a message.
  <1>b. ASSUME NEW m \in BackgroundMessages, toBackground' = Append(toBackground, m),
               UNCHANGED <<delayedEvents, bTree, delayedScreens, aborted>>,
               m.type = "firstScreen" /\ ~m.hasSwap => phase = "reload",
               phase' = "reload" => \/ m.type = "appReload"
                                    \/ m.type = "firstScreen" /\ phase = "reload"
        PROVE  ReplayInv'
    <2>1. QuietReloads'
      <3>1. SUFFICES ASSUME NEW n \in 0..Len(toBackground'),
                            WithoutSwapAfter(toBackground', n, phase')
                     PROVE  EventsBeforeReload(toBackground', n)
                            /\ (NoReload(toBackground', n) => NothingWaits)
        BY <1>b DEF QuietReloads, Quiet, NothingWaits
      <3>2. Len(toBackground') = Len(toBackground) + 1
        BY <1>b, <1>t
      <3>3. CASE n < Len(toBackground)
        <4>1. n \in 0..Len(toBackground)
          BY <3>1, <3>3, <1>t
        <4>2. WithoutSwapAfter(toBackground, n, phase)
          <5>1. WithoutSwapAfter(toBackground, n, phase')
            BY <1>b, <1>t, <3>1, <3>3, <4>1, QuietAppend
          <5>. QED  BY <3>3, <5>1 DEF WithoutSwapAfter
        <4>. QED  BY <1>b, <1>t, <4>1, <4>2, QuietAppend DEF QuietReloads, Quiet
      <3>4. CASE n = Len(toBackground)
        <4>1. n \in 0..Len(toBackground) /\ phase = "reload"
          BY <1>b, <1>t, <3>1, <3>4, QuietAppend
        <4>2. WithoutSwapAfter(toBackground, n, phase)
          BY <3>4, <4>1 DEF WithoutSwapAfter
        <4>. QED  BY <1>b, <1>t, <4>1, <4>2, QuietAppend DEF QuietReloads, Quiet
      <3>5. CASE n = Len(toBackground) + 1
        <4> DEFINE k == Len(toBackground)
        <4>1. phase' = "reload"
          BY <3>1, <3>2, <3>5 DEF WithoutSwapAfter
        <4>2. CASE m.type = "appReload"
          BY <1>b, <1>t, <3>5, <4>2, QuietAppended
        <4>3. CASE m.type = "firstScreen" /\ phase = "reload"
          <5>1. k \in 0..Len(toBackground) /\ WithoutSwapAfter(toBackground, k, phase)
            BY <1>t, <4>3 DEF WithoutSwapAfter
          <5>2. Quiet(toBackground, k)
            BY <5>1 DEF QuietReloads
          <5>. QED  BY <1>b, <1>t, <3>5, <4>3, <5>2, QuietAppended DEF Quiet
        <4>. QED  BY <1>b, <4>1, <4>2, <4>3
      <3>. QED  BY <1>t, <3>1, <3>2, <3>3, <3>4, <3>5
    <2>. QED  BY <1>0, <1>b, <2>1 DEF ReplayInv, DelayedHaveSwap, HydrationCompletes
  \* The latches.
  <1>s. ASSUME NEW sw \in SUBSET (Ids \X Ids), NEW settled \in BOOLEAN,
               syncFirstScreen(sw, settled) \/ noSync(sw),
               UNCHANGED <<delayedEvents, bTree, delayedScreens, aborted>>,
               phase' = phase \/ phase' = "idle"
        PROVE  ReplayInv'
    <2>1. CASE syncFirstScreen(sw, settled)
      <3> DEFINE m == FirstScreenMsg(sw, TRUE, settled)
      <3>1. m \in BackgroundMessages /\ m.type = "firstScreen" /\ m.hasSwap
        BY MessageTypes DEF FirstScreenMsg
      <3>2. toBackground' = Append(toBackground, m)
        BY <2>1 DEF syncFirstScreen
      <3> HIDE DEF m
      <3>. QED  BY <1>b, <1>s, <3>1, <3>2
    <2>2. CASE noSync(sw)
      BY <1>a, <1>s, <2>2 DEF noSync
    <2>. QED  BY <1>s, <2>1, <2>2
  <1>1. CASE ProcessData \/ BeginRender \/ updateMainThread \/ Commit \/ TearDown
             \/ MarkOnBackground \/ UNCHANGED vars
    <2>1. UNCHANGED <<toBackground, delayedEvents, bTree, delayedScreens, aborted>>
      BY <1>1 DEF ProcessData, BeginRender, updateMainThread, Commit, TearDown,
                  MarkOnBackground, vars, mainVars, bgVars
    <2>2. phase' = phase \/ phase' # "reload"
      BY <1>1 DEF ProcessData, BeginRender, updateMainThread, Commit, TearDown,
                  MarkOnBackground, vars, mainVars, bgVars
    <2>. QED  BY <1>a, <2>1, <2>2
  <1>2. CASE EndRender
    <2>1. swap \in SUBSET (Ids \X Ids) /\ SwapAfterHydrate \in SUBSET (Ids \X Ids)
      <3>1. <<mRoot - 1, mRoot>> \in Ids \X Ids /\ swap \in SUBSET (Ids \X Ids)
        BY DEF TypeOK, Ids
      <3>. QED  BY <3>1 DEF SwapAfterHydrate
    <2>2. PICK sw \in SUBSET (Ids \X Ids) : syncFirstScreen(sw, TRUE) \/ noSync(sw)
      BY <1>2, <2>1 DEF EndRender, onFirstScreenTreeReady
    <2>. QED  BY <1>2, <1>s, <2>2 DEF EndRender, bgVars
  <1>3. CASE MarkOnMain \/ ReceiveSyncReady
    <2>1. /\ syncFirstScreen(swap, phase = "idle") \/ noSync(swap)
          /\ phase' = phase /\ UNCHANGED <<delayedEvents, bTree, delayedScreens, aborted>>
      BY <1>3 DEF MarkOnMain, ReceiveSyncReady, onFirstScreenSyncReady, bgVars
    <2>2. swap \in SUBSET (Ids \X Ids) /\ (phase = "idle") \in BOOLEAN
      BY DEF TypeOK
    <2>. QED  BY <1>s, <2>1, <2>2
  <1>4. CASE FireEvent
    <2>1. EventMsg \in BackgroundMessages /\ EventMsg.type = "event"
      BY MessageTypes DEF EventMsg
    <2>2. /\ toBackground' = Append(toBackground, EventMsg) /\ phase' = "idle"
          /\ UNCHANGED <<delayedEvents, bTree, delayedScreens, aborted>>
      BY <1>4 DEF FireEvent, mainVars, bgVars
    <2>. QED  BY <1>b, <2>1, <2>2
  <1>5. CASE BeginReload
    <2> DEFINE m == AppReloadMsg(mVersion + 1)
    <2>1. m \in BackgroundMessages /\ m.type = "appReload"
      BY MessageTypes DEF AppReloadMsg, TypeOK
    <2>2. /\ toBackground' = Append(toBackground, m)
          /\ UNCHANGED <<delayedEvents, bTree, delayedScreens, aborted>>
      BY <1>5 DEF BeginReload, bgVars
    <2> HIDE DEF m
    <2>. QED  BY <1>b, <2>1, <2>2
  <1>6. CASE EndReload
    <2>1. /\ phase = "reload" /\ phase' = "idle"
          /\ UNCHANGED <<delayedEvents, bTree, delayedScreens, aborted>>
      BY <1>6 DEF EndReload, bgVars
    <2>2. CASE synced
      <3> DEFINE m == FirstScreenMsg({}, FALSE, TRUE)
      <3>1. m \in BackgroundMessages /\ m.type = "firstScreen" /\ ~m.hasSwap
        BY MessageTypes DEF FirstScreenMsg
      <3>2. toBackground' = Append(toBackground, m)
        BY <1>6, <2>2 DEF EndReload
      <3> HIDE DEF m
      <3>. QED  BY <1>b, <2>1, <3>1, <3>2
    <2>3. CASE ~synced
      BY <1>6, <1>a, <2>1, <2>3 DEF EndReload
    <2>. QED  BY <2>2, <2>3
  <1>7. CASE RootRender
    <2>1. /\ bTree' = "rendered" /\ UNCHANGED <<toBackground, phase>>
      BY <1>7 DEF RootRender, mainVars
    <2>2. /\ delayedEvents' = delayedEvents \/ delayedEvents' = <<>>
          /\ In(delayedScreens') \subseteq In(delayedScreens) /\ aborted' = aborted
      <3>1. CASE timing = "jsReady" \/ delayedScreens = <<>>
        BY <1>7, <3>1 DEF RootRender
      <3>2. CASE ~(timing = "jsReady" \/ delayedScreens = <<>>)
        <4>1. /\ \E queue : HydrateFirstScreen(Head(delayedScreens), "rendered", queue)
              /\ delayedScreens' = Tail(delayedScreens)
          BY <1>7, <3>2 DEF RootRender
        <4>2. Head(delayedScreens) \in In(delayedScreens) /\ In(Tail(delayedScreens)) \subseteq In(delayedScreens)
          BY <1>t, <3>2, InTail
        <4>3. ~ReplayThrows(Head(delayedScreens))
          BY <4>2 DEF DelayedHaveSwap, ReplayThrows
        <4>. QED  BY <4>1, <4>2, <4>3 DEF HydrateFirstScreen
      <3>. QED  BY <3>1, <3>2
    <2>3. QuietReloads'
      <3>1. NothingWaits => NothingWaits'
        BY <2>1, <2>2 DEF NothingWaits
      <3>2. \A n : Quiet(toBackground, n) => Quiet(toBackground, n)'
        BY <2>1, <3>1 DEF Quiet, EventsBeforeReload, NoReload
      <3>. QED  BY <2>1, <3>2 DEF QuietReloads
    <2>. QED  BY <1>0, <2>2, <2>3 DEF ReplayInv, DelayedHaveSwap, HydrationCompletes
  \* Steps that receive a message.
  <1>c. ASSUME toBackground # <<>>, toBackground' = Tail(toBackground), phase' = phase,
               Head(toBackground).type = "appReload" => NothingWaits',
               Head(toBackground).type = "firstScreen" => (NothingWaits => NothingWaits'),
               Head(toBackground).type \in {"event", "firstScreen", "appReload"}
        PROVE  QuietReloads'
    <2>1. SUFFICES ASSUME NEW n \in 0..Len(Tail(toBackground)),
                          WithoutSwapAfter(Tail(toBackground), n, phase)
                   PROVE  /\ EventsBeforeReload(Tail(toBackground), n)
                          /\ NoReload(Tail(toBackground), n) => NothingWaits'
      BY <1>c DEF QuietReloads, Quiet
    <2>2. /\ n + 1 \in 0..Len(toBackground) /\ WithoutSwapAfter(toBackground, n + 1, phase)
          /\ EventsBeforeReload(toBackground, n + 1) =>
               /\ EventsBeforeReload(Tail(toBackground), n)
               /\ Head(toBackground).type = "event" => ~NoReload(Tail(toBackground), n)
          /\ Head(toBackground).type # "appReload" /\ NoReload(Tail(toBackground), n)
               => NoReload(toBackground, n + 1)
      BY <1>c, <1>t, <2>1, QuietTail
    <2>3. Quiet(toBackground, n + 1)
      BY <2>2 DEF QuietReloads
    <2>. QED  BY <1>c, <2>2, <2>3 DEF Quiet
  <1>8. CASE ReceiveFirstScreen
    <2> DEFINE m == Head(toBackground)
    <2>1. /\ toBackground # <<>> /\ toBackground' = Tail(toBackground) /\ phase' = phase
          /\ m.type = "firstScreen" /\ bTree' = bTree /\ m \in BackgroundMessages
      BY <1>8, <1>t, ChannelTypes DEF ReceiveFirstScreen, mainVars
    <2>2. ~m.hasSwap => NothingWaits
      <3>1. m = toBackground[0 + 1] /\ 0 \in 0..Len(toBackground) /\ 0 # Len(toBackground)
        BY <1>t, <2>1
      <3>2. ~m.hasSwap => WithoutSwapAfter(toBackground, 0, phase)
        BY <2>1, <3>1 DEF WithoutSwapAfter
      <3>3. NoReload(toBackground, 0)
        BY DEF NoReload
      <3>. QED  BY <3>1, <3>2, <3>3 DEF QuietReloads, Quiet
    <2>3. /\ delayedEvents' = delayedEvents \/ delayedEvents' = <<>>
          /\ \A d \in In(delayedScreens') : d.hasSwap
          /\ aborted' = aborted
      <3>1. CASE bTree = "none"
        <4>1. m.hasSwap
          BY <2>2, <3>1 DEF NothingWaits
        <4>2. /\ delayedScreens' = Append(delayedScreens, m)
              /\ UNCHANGED <<delayedEvents, aborted>>
          BY <1>8, <3>1 DEF ReceiveFirstScreen
        <4>3. In(Append(delayedScreens, m)) = In(delayedScreens) \cup {m}
          BY <1>t, <2>1, InAppend
        <4>. QED  BY <4>1, <4>2, <4>3 DEF DelayedHaveSwap
      <3>2. CASE bTree # "none"
        <4>1. HydrateFirstScreen(m, bTree, toMain) /\ UNCHANGED delayedScreens
          BY <1>8, <3>2 DEF ReceiveFirstScreen
        <4>2. ~ReplayThrows(m)
          BY <2>2 DEF ReplayThrows, NothingWaits
        <4>. QED  BY <4>1, <4>2 DEF HydrateFirstScreen, DelayedHaveSwap
      <3>. QED  BY <3>1, <3>2
    <2>4. QuietReloads'
      BY <1>c, <2>1, <2>3 DEF NothingWaits
    <2>. QED  BY <1>0, <2>3, <2>4 DEF ReplayInv, DelayedHaveSwap, HydrationCompletes
  <1>9. CASE ReceiveAppReload
    <2>1. /\ toBackground # <<>> /\ toBackground' = Tail(toBackground) /\ phase' = phase
          /\ Head(toBackground).type = "appReload" /\ aborted' = aborted
          /\ delayedScreens' = <<>>
      BY <1>9 DEF ReceiveAppReload, mainVars
    <2>2. NothingWaits'
      BY <1>9 DEF ReceiveAppReload, DelayedEventsAfterReload, NothingWaits
    <2>3. QuietReloads'
      BY <1>c, <2>1, <2>2
    <2>. QED  BY <1>0, <2>1, <2>3, InEmpty DEF ReplayInv, DelayedHaveSwap, HydrationCompletes
  <1>10. CASE ReceiveEvent
    <2>1. /\ toBackground # <<>> /\ toBackground' = Tail(toBackground) /\ phase' = phase
          /\ Head(toBackground).type = "event" /\ UNCHANGED <<aborted, delayedScreens>>
      BY <1>10 DEF ReceiveEvent, mainVars
    <2>2. QuietReloads'
      BY <1>c, <2>1
    <2>. QED  BY <1>0, <2>1, <2>2 DEF ReplayInv, DelayedHaveSwap, HydrationCompletes
  <1>. QED  BY <1>1, <1>2, <1>3, <1>4, <1>5, <1>6, <1>7, <1>8, <1>9, <1>10
            DEF Next, Main, Background

LEMMA ReplayInitial == Init => ReplayInv
  <1> SUFFICES ASSUME Init PROVE ReplayInv
    OBVIOUS
  <1>1. QuietReloads
    BY DEF Init, QuietReloads, WithoutSwapAfter
  <1>. QED  BY <1>1, TypeInitial, InEmpty DEF Init, ReplayInv, DelayedHaveSwap, HydrationCompletes

\* Whatever is reloaded, marked and fired in between, no event waits for a hydration
\* whose message has no firstScreenEventIdSwap, so that none ends with an exception.
THEOREM NoHydrationAborts == Spec => []HydrationCompletes
  BY ReplayInitial, ReplayInductive, PTL DEF Spec, ReplayInv

-----------------------------------------------------------------------------
(* The while loop that follows a swap.                                     *)

\* A non-empty set of natural numbers has a smallest element: there is a smallest of the
\* intervals 1..n, because inclusion is well-founded on finite sets.
LEMMA LeastNumber ==
  ASSUME NEW T, T \subseteq Nat, T # {}
  PROVE  \E n \in T : \A m \in T : n <= m
  <1> DEFINE U == {1..n : n \in T}
  <1>1. U \subseteq FiniteSubsetsOf(Nat) /\ U # {}
    <2>1. \A n \in T : 1..n \in SUBSET Nat /\ IsFiniteSet(1..n)
      BY FS_Interval
    <2>. QED  BY <2>1 DEF FiniteSubsetsOf
  <1>2. PICK x \in U : \A y \in U : ~ (<<y, x>> \in StrictSubsetOrdering(Nat))
    <2> HIDE DEF U
    <2>. QED  BY <1>1, WFMin, FS_StrictSubsetOrderingWellFounded
  <1>3. PICK n \in T : x = 1..n
    BY <1>2
  <1>4. ASSUME NEW m \in T, m < n PROVE FALSE
    <2>1. 1..m \in U /\ 1..m \subseteq 1..n /\ 1..m # 1..n
      <3>1. n \in 1..n /\ n \notin 1..m
        BY <1>4
      <3>. QED  BY <3>1, <1>4
    <2>2. 1..m \in SUBSET Nat /\ 1..n \in SUBSET Nat
      OBVIOUS
    <2>. QED  BY <1>2, <1>3, <2>1, <2>2 DEF StrictSubsetOrdering
  <1>. QED  BY <1>4

\* The ids that updatePage gives the root one after the other.
Chain(a, b) == {<<k, k + 1>> : k \in a..(b - 1)}

\* sw leads from id to last.
Follows(sw, id, last) == \E a \in Int : a <= id /\ id <= last /\ sw = Chain(a, last)

LEMMA FollowsSelf ==
  ASSUME NEW last \in Int
  PROVE  Follows({}, last, last)
  <1>1. Chain(last, last) = {}
    BY DEF Chain
  <1>. QED  BY <1>1 DEF Follows

LEMMA FollowsFurther ==
  ASSUME NEW sw, NEW id \in Int, NEW last \in Int, Follows(sw, id, last)
  PROVE  /\ Follows(sw \cup {<<last, last + 1>>}, id, last + 1)
         /\ Follows(sw \cup {<<last, last + 1>>}, last + 1, last + 1)
  <1>1. PICK a \in Int : a <= id /\ id <= last /\ sw = Chain(a, last)
    BY DEF Follows
  <1>2. a..(last + 1 - 1) = a..(last - 1) \cup {last}
    BY <1>1
  <1>3. Chain(a, last + 1) = sw \cup {<<last, last + 1>>}
    BY <1>1, <1>2 DEF Chain
  <1>. QED  BY <1>1, <1>3 DEF Follows

\* The loop ends at the last id.
LEMMA ResolveFollows ==
  ASSUME NEW sw, NEW id \in Int, NEW last \in Int, Follows(sw, id, last)
  PROVE  Resolve(sw, id) = last
  <1>1. PICK a \in Int : a <= id /\ id <= last /\ sw = Chain(a, last)
    BY DEF Follows
  <1> DEFINE S == {id} \cup {p[2] : p \in sw}
             Step(f, i) == IF \E p \in sw : p[1] = i THEN f[(CHOOSE p \in sw : p[1] = i)[2]] ELSE i
  <1>2. ASSUME NEW i \in Int, a <= i, i < last
        PROVE  /\ \E p \in sw : p[1] = i
               /\ (CHOOSE p \in sw : p[1] = i)[2] = i + 1
               /\ i + 1 \in S
    <2>1. <<i, i + 1>> \in sw
      <3>1. i \in a..(last - 1)
        BY <1>1, <1>2
      <3>. QED  BY <1>1, <3>1 DEF Chain
    <2>2. \A p \in sw : p[1] = i => p = <<i, i + 1>>
      BY <1>1 DEF Chain
    <2> DEFINE c == CHOOSE p \in sw : p[1] = i
    <2>3. c = <<i, i + 1>>
      BY <2>1, <2>2
    <2> HIDE DEF c
    <2>4. c[2] = i + 1
      BY <2>3
    <2>5. \E p \in sw : p[1] = i
      BY <2>1
    <2>6. i + 1 \in S
      BY <2>1
    <2>. QED  BY <2>4, <2>5, <2>6 DEF c
  <1>3. ~ \E p \in sw : p[1] = last
    BY <1>1 DEF Chain
  <1>4. S \subseteq id..last \cup a..last /\ id \in S
    BY <1>1 DEF Chain
  <1>5. \A i \in S : i \in Int /\ a <= i /\ i <= last
    BY <1>1, <1>4
  <1> HIDE DEF S
  <1> DEFINE f == [i \in S |-> last]
  <1>6. f = [i \in S |-> Step(f, i)]
    <2>1. ASSUME NEW i \in S PROVE Step(f, i) = last
      <3>1. CASE i = last
        BY <1>3, <3>1
      <3>2. CASE i # last
        <4>1. i \in Int /\ a <= i /\ i < last
          BY <1>5, <3>2
        <4>2. /\ \E p \in sw : p[1] = i
              /\ (CHOOSE p \in sw : p[1] = i)[2] = i + 1 /\ i + 1 \in S
          BY <1>2, <4>1
        <4>. QED  BY <4>2
      <3>. QED  BY <3>1, <3>2
    <2>. QED  BY <2>1
  <1>7. ASSUME NEW g, g = [i \in S |-> Step(g, i)] PROVE g[id] = last
    <2> DEFINE T == {n \in Nat : last - n \in S /\ g[last - n] # last}
    <2>1. SUFFICES ASSUME T # {} PROVE FALSE
      <3>1. last - id \in Nat /\ last - (last - id) = id
        BY <1>1
      <3>. QED  BY <3>1, <1>4
    <2>2. PICK n \in T : \A m \in T : n <= m
      <3>1. T \subseteq Nat
        OBVIOUS
      <3> HIDE DEF T
      <3>. QED  BY <2>1, <3>1, LeastNumber
    <2> DEFINE i == last - n
    <2>3. i \in S /\ i \in Int /\ a <= i /\ i <= last /\ g[i] # last /\ n \in Nat
      BY <2>2, <1>5
    <2>4. g[i] = Step(g, i)
      BY <1>7, <2>3
    <2>5. i # last
      BY <1>3, <2>3, <2>4
    <2>6. i < last /\ n # 0 /\ n - 1 \in Nat /\ i + 1 = last - (n - 1)
      BY <2>3, <2>5
    <2>7. g[i] = g[i + 1] /\ i + 1 \in S
      <3>1. /\ \E p \in sw : p[1] = i
            /\ (CHOOSE p \in sw : p[1] = i)[2] = i + 1 /\ i + 1 \in S
        BY <1>2, <2>3, <2>6
      <3>. QED  BY <2>4, <3>1
    <2>8. n - 1 \in T
      BY <2>3, <2>6, <2>7
    <2>. QED  BY <2>2, <2>6, <2>8
  <1>8. Resolve(sw, id) = (CHOOSE g : g = [i \in S |-> Step(g, i)])[id]
    BY DEF Resolve, S
  <1> HIDE DEF Step, f
  <1>9. \E g : g = [i \in S |-> Step(g, i)]
    BY <1>6
  <1>. QED  BY <1>7, <1>8, <1>9

-----------------------------------------------------------------------------
(* The inductive invariant behind EventsFindTheirHandler.                  *)

\* Facts about the phases of the hand-over.
RenderingUnsynced == phase = "render" => ~synced /\ (timing = "manual" => ~treeReady)
BeforeRoot ==
  mRoot = 0 => /\ ~shown /\ toBackground = <<>> /\ delayedEvents = <<>> /\ swap = {}
               /\ mVersion = 0
DirectAfterRender == direct => synced /\ bTree # "none"
JsReadyWaits ==
  timing = "jsReady" /\ bTree = "none" =>
    ~synced /\ ~marked /\ \A m \in In(toMain) : m.type # "syncReady"
VersionsAscend ==
  \A i, j \in 1..Len(toBackground) : i <= j => toBackground[i].version <= toBackground[j].version

PhaseInv == RenderingUnsynced /\ BeforeRoot /\ DirectAfterRender /\ JsReadyWaits /\ VersionsAscend

\* What a step does to the channel to the background thread.
LEMMA QueueSteps ==
  ASSUME TypeOK, [Next]_vars
  PROVE  \/ toBackground' = toBackground
         \/ \E m \in BackgroundMessages :
              /\ m.version = mVersion' /\ mVersion <= mVersion'
              /\ toBackground' = Append(toBackground, m)
         \/ toBackground # <<>> /\ toBackground' = Tail(toBackground)
  <1>t. mVersion \in Nat
    BY DEF TypeOK
  <1>1. CASE ProcessData \/ BeginRender \/ updateMainThread \/ RootRender \/ Commit
             \/ TearDown \/ MarkOnBackground \/ UNCHANGED vars
    BY <1>1 DEF ProcessData, BeginRender, updateMainThread, RootRender, Commit,
                TearDown, MarkOnBackground, vars, mainVars, bgVars
  <1>s. ASSUME NEW sw \in SUBSET (Ids \X Ids), NEW settled \in BOOLEAN, mVersion' = mVersion,
               syncFirstScreen(sw, settled) \/ noSync(sw)
        PROVE  \/ toBackground' = toBackground
               \/ \E m \in BackgroundMessages :
                    /\ m.version = mVersion' /\ mVersion <= mVersion'
                    /\ toBackground' = Append(toBackground, m)
    <2>1. CASE syncFirstScreen(sw, settled)
      <3> DEFINE m == FirstScreenMsg(sw, TRUE, settled)
      <3>1. m \in BackgroundMessages /\ m.version = mVersion
        BY MessageTypes DEF FirstScreenMsg
      <3>2. toBackground' = Append(toBackground, m)
        BY <2>1 DEF syncFirstScreen
      <3> HIDE DEF m
      <3>. QED  BY <1>t, <1>s, <3>1, <3>2
    <2>2. CASE noSync(sw)
      BY <2>2 DEF noSync
    <2>. QED  BY <1>s, <2>1, <2>2
  <1>2. CASE EndRender \/ MarkOnMain \/ ReceiveSyncReady
    BY <1>2, <1>s, LatchSteps
  <1>3. CASE FireEvent
    <2>1. EventMsg \in BackgroundMessages /\ EventMsg.version = mVersion
      BY MessageTypes DEF EventMsg
    <2>. QED  BY <1>t, <1>3, <2>1 DEF FireEvent, mainVars
  <1>4. CASE BeginReload
    <2>1. /\ AppReloadMsg(mVersion + 1) \in BackgroundMessages
          /\ AppReloadMsg(mVersion + 1).version = mVersion + 1
      BY <1>t, MessageTypes DEF AppReloadMsg
    <2>. QED  BY <1>t, <1>4, <2>1 DEF BeginReload
  <1>5. CASE EndReload
    <2> DEFINE m == FirstScreenMsg({}, FALSE, TRUE)
    <2>1. m \in BackgroundMessages /\ m.version = mVersion
      BY MessageTypes DEF FirstScreenMsg
    <2>2. toBackground' \in {toBackground, Append(toBackground, m)} /\ mVersion' = mVersion
      BY <1>5 DEF EndReload
    <2> HIDE DEF m
    <2>. QED  BY <1>t, <2>1, <2>2
  <1>6. CASE ReceiveFirstScreen \/ ReceiveAppReload \/ ReceiveEvent
    BY <1>6 DEF ReceiveFirstScreen, ReceiveAppReload, ReceiveEvent
  <1>. QED  BY <1>1, <1>2, <1>3, <1>4, <1>5, <1>6 DEF Next, Main, Background

LEMMA AscendInductive ==
  ASSUME TypeOK, VersionsInStep, VersionsAscend, [Next]_vars
  PROVE  VersionsAscend'
  <1>t. toBackground \in Seq(BackgroundMessages) /\ mVersion \in Nat /\ Len(toBackground) \in Nat
    BY DEF TypeOK
  <1>v. \A i \in 1..Len(toBackground) :
          toBackground[i].version \in Nat /\ toBackground[i].version <= mVersion
    <2>1. \A i \in 1..Len(toBackground) : toBackground[i] \in BackgroundMessages
      BY <1>t
    <2>. QED  BY <2>1 DEF VersionsInStep, InStep, BackgroundMessages
  <1>1. CASE toBackground' = toBackground
    BY <1>1 DEF VersionsAscend
  <1>2. ASSUME NEW m \in BackgroundMessages, m.version = mVersion', mVersion <= mVersion',
               toBackground' = Append(toBackground, m)
        PROVE  VersionsAscend'
    <2> DEFINE r == Append(toBackground, m)
               n == Len(toBackground)
    <2>1. Len(r) = n + 1 /\ r[n + 1] = m /\ \A i \in 1..n : r[i] = toBackground[i]
      BY <1>t
    <2>2. m.version \in Nat
      BY DEF BackgroundMessages
    <2>3. SUFFICES ASSUME NEW i \in 1..(n + 1), NEW j \in 1..(n + 1), i <= j
                   PROVE  r[i].version <= r[j].version
      BY <1>2, <2>1 DEF VersionsAscend
    <2> HIDE DEF r
    <2>4. CASE j = n + 1
      <3>1. CASE i = n + 1
        BY <2>1, <2>2, <2>4, <3>1
      <3>2. CASE i # n + 1
        <4>1. i \in 1..n
          BY <1>t, <3>2
        <4>. QED  BY <1>2, <1>t, <1>v, <2>1, <2>2, <2>4, <4>1
      <3>. QED  BY <3>1, <3>2
    <2>5. CASE j # n + 1
      <3>1. i \in 1..n /\ j \in 1..n
        BY <1>t, <2>3, <2>5
      <3>. QED  BY <2>1, <2>3, <3>1 DEF VersionsAscend
    <2>. QED  BY <2>4, <2>5
  <1>3. CASE toBackground # <<>> /\ toBackground' = Tail(toBackground)
    <2>1. /\ Len(Tail(toBackground)) = Len(toBackground) - 1
          /\ \A i \in 1..Len(Tail(toBackground)) : Tail(toBackground)[i] = toBackground[i + 1]
      BY <1>t, <1>3, HeadTailProperties
    <2>2. \A i \in 1..Len(Tail(toBackground)) : i + 1 \in 1..Len(toBackground)
      BY <1>t, <2>1
    <2>3. SUFFICES ASSUME NEW i \in 1..Len(Tail(toBackground)),
                          NEW j \in 1..Len(Tail(toBackground)), i <= j
                   PROVE  Tail(toBackground)[i].version <= Tail(toBackground)[j].version
      BY <1>3 DEF VersionsAscend
    <2>4. i + 1 <= j + 1
      BY <2>3
    <2>. QED  BY <2>1, <2>2, <2>4 DEF VersionsAscend
  <1>. QED  BY <1>1, <1>2, <1>3, QueueSteps

LEMMA PhaseInductive ==
  ASSUME TypeOK, VersionsInStep, BeforeHandover, PhaseInv, [Next]_vars
  PROVE  PhaseInv'
  <1> USE DEF PhaseInv
  <1>a. VersionsAscend'
    BY AscendInductive
  <1>t. /\ toBackground \in Seq(BackgroundMessages) /\ toMain \in Seq(MainMessages)
        /\ delayedScreens \in Seq(BackgroundMessages)
        /\ mRoot \in Int /\ mRoot >= 0 /\ synced \in BOOLEAN /\ mVersion \in Nat
    BY DEF TypeOK, Ids, BeforeHandover
  <1>b. toBackground # <<>> => Head(toBackground) \in In(toBackground)
    BY <1>t, InTail
  <1>m. toMain # <<>> => Head(toMain) \in In(toMain) /\ In(Tail(toMain)) \subseteq In(toMain)
    BY <1>t, InTail
  <1>r. In(Append(toMain, SyncReadyMsg)) = In(toMain) \cup {SyncReadyMsg}
    BY <1>t, MessageTypes, InAppend
  <1>1. CASE ProcessData
    BY <1>1, <1>a DEF ProcessData, RenderingUnsynced, BeforeRoot, DirectAfterRender, JsReadyWaits, bgVars
  <1>2. CASE BeginRender
    <2>1. RenderingUnsynced'
      BY <1>2 DEF BeginRender, RenderingUnsynced, TreeReadyWhileRendering, BeforeHandover
    <2>2. mRoot' # 0
      BY <1>2, <1>t DEF BeginRender
    <2>. QED  BY <1>2, <1>a, <2>1, <2>2 DEF BeginRender, BeforeRoot, DirectAfterRender, JsReadyWaits, bgVars
  <1>3. CASE EndRender
    <2>1. /\ phase' = "idle" /\ mRoot' = mRoot /\ mRoot # 0
          /\ UNCHANGED <<timing, marked, bTree, direct, toMain>>
      BY <1>3 DEF EndRender, BeforeHandover, bgVars
    <2>2. synced' = synced \/ synced' = TRUE
      BY <1>3 DEF EndRender, onFirstScreenTreeReady, syncFirstScreen, noSync
    <2>3. timing = "jsReady" /\ ~marked => synced' = synced
      BY <1>3 DEF EndRender, onFirstScreenTreeReady, noSync
    <2>. QED  BY <1>a, <2>1, <2>2, <2>3 DEF RenderingUnsynced, BeforeRoot, DirectAfterRender, JsReadyWaits
  <1>4. CASE MarkOnMain \/ ReceiveSyncReady
    <2>1. UNCHANGED <<timing, phase, mVersion, mRoot, shown, treeReady, bgVars>>
      BY <1>4 DEF MarkOnMain, ReceiveSyncReady
    <2>2. \/ MaySyncOnMark /\ synced' = TRUE
          \/ UNCHANGED <<synced, toBackground, swap>>
      BY <1>4 DEF MarkOnMain, ReceiveSyncReady, onFirstScreenSyncReady, syncFirstScreen, noSync
    <2>3. timing = "jsReady" => bTree # "none"
      BY <1>4, <1>m DEF MarkOnMain, ReceiveSyncReady, JsReadyWaits
    <2>4. RenderingUnsynced'
      <3>1. phase = "render" => timing = "manual"
        BY <1>4 DEF MarkOnMain, ReceiveSyncReady
      <3>. QED  BY <2>1, <2>2, <3>1 DEF RenderingUnsynced, MaySyncOnMark
    <2>5. BeforeRoot'
      BY <2>1, <2>2 DEF BeforeRoot, MaySyncOnMark, BeforeHandover, bgVars
    <2>. QED  BY <1>a, <2>1, <2>2, <2>3, <2>4, <2>5 DEF DirectAfterRender, JsReadyWaits, bgVars
  <1>5. CASE FireEvent
    BY <1>5, <1>a DEF FireEvent, RenderingUnsynced, BeforeRoot, DirectAfterRender, JsReadyWaits, mainVars, bgVars
  <1>6. CASE BeginReload
    <2>1. mRoot' # 0 /\ phase' = "reload"
      BY <1>6, <1>t DEF BeginReload
    <2>. QED  BY <1>6, <1>a, <2>1 DEF BeginReload, RenderingUnsynced, BeforeRoot, DirectAfterRender, JsReadyWaits, bgVars
  <1>7. CASE EndReload
    <2>1. mRoot # 0
      BY <1>7 DEF EndReload, BeforeHandover
    <2>. QED  BY <1>7, <1>a, <2>1 DEF EndReload, RenderingUnsynced, BeforeRoot, DirectAfterRender, JsReadyWaits, bgVars
  <1>8. CASE updateMainThread
    <2>1. ~shown => ~shown'
      BY <1>8 DEF updateMainThread
    <2>2. UNCHANGED <<timing, phase, synced, treeReady, mRoot, toBackground, delayedEvents, swap,
                      mVersion, marked, bTree, direct>>
      BY <1>8 DEF updateMainThread, bgVars
    <2>3. In(toMain') \subseteq In(toMain)
      BY <1>8, <1>m DEF updateMainThread
    <2>. QED  BY <1>a, <2>1, <2>2, <2>3 DEF RenderingUnsynced, BeforeRoot, DirectAfterRender, JsReadyWaits
  <1>9. CASE RootRender
    <2>1. bTree' = "rendered" /\ UNCHANGED <<timing, mainVars, toBackground>>
      BY <1>9 DEF RootRender
    <2>2. \/ UNCHANGED <<direct, delayedEvents>>
          \/ /\ delayedScreens # <<>> /\ delayedEvents' \in {delayedEvents, <<>>}
      BY <1>9 DEF RootRender, HydrateFirstScreen
    <2>3. delayedScreens # <<>> => synced
      BY DEF BeforeHandover
    <2>. QED  BY <1>a, <2>1, <2>2, <2>3 DEF RenderingUnsynced, BeforeRoot, DirectAfterRender, JsReadyWaits, mainVars
  <1>10. CASE ReceiveFirstScreen
    <2>1. /\ synced /\ mRoot # 0
      BY <1>10, <1>b DEF ReceiveFirstScreen, BeforeHandover
    <2>2. /\ UNCHANGED <<timing, mainVars, bTree>>
          /\ bTree = "none" => UNCHANGED <<direct, toMain>>
      BY <1>10 DEF ReceiveFirstScreen
    <2>. QED  BY <1>a, <2>1, <2>2 DEF RenderingUnsynced, BeforeRoot, DirectAfterRender, JsReadyWaits, mainVars
  <1>11. CASE ReceiveAppReload
    <2>1. mRoot # 0 /\ bTree' # "none" /\ UNCHANGED <<timing, mainVars, direct, toMain>>
      BY <1>11 DEF ReceiveAppReload, BeforeRoot
    <2>. QED  BY <1>a, <2>1 DEF RenderingUnsynced, BeforeRoot, DirectAfterRender, JsReadyWaits, mainVars
  <1>12. CASE ReceiveEvent
    <2>1. mRoot # 0 /\ UNCHANGED <<timing, mainVars, direct, bTree, toMain>>
      BY <1>12 DEF ReceiveEvent, BeforeRoot
    <2>. QED  BY <1>a, <2>1 DEF RenderingUnsynced, BeforeRoot, DirectAfterRender, JsReadyWaits, mainVars
  <1>13. CASE Commit
    <2>1. UNCHANGED <<timing, mainVars, bgVars, toBackground>> /\ bTree = "rendered"
      BY <1>13 DEF Commit
    <2>. QED  BY <1>a, <2>1 DEF RenderingUnsynced, BeforeRoot, DirectAfterRender, JsReadyWaits, mainVars, bgVars
  <1>14. CASE TearDown
    BY <1>14, <1>a DEF TearDown, RenderingUnsynced, BeforeRoot, DirectAfterRender, JsReadyWaits, mainVars
  <1>15. CASE MarkOnBackground
    <2>1. UNCHANGED <<timing, mainVars, bgVars, toBackground>> /\ timing = "manual"
      BY <1>15 DEF MarkOnBackground
    <2>. QED  BY <1>a, <2>1 DEF RenderingUnsynced, BeforeRoot, DirectAfterRender, JsReadyWaits, mainVars, bgVars
  <1>16. CASE UNCHANGED vars
    BY <1>16, <1>a DEF vars, mainVars, bgVars, RenderingUnsynced, BeforeRoot, DirectAfterRender, JsReadyWaits
  <1>. QED  BY <1>1, <1>2, <1>3, <1>4, <1>5, <1>6, <1>7, <1>8, <1>9, <1>10, <1>11,
                <1>12, <1>13, <1>14, <1>15, <1>16 DEF Next, Main, Background

-----------------------------------------------------------------------------
\* Unless the page is reloaded before root.render, no reload finds an empty tree.
RenderedBeforeReload == bTree # "empty" /\ (bTree = "none" => mVersion = 0)

\* The root that the swap leads to: a render that has begun adds its root at its end.
Top == IF phase = "render" /\ mRoot # 1 THEN mRoot - 1 ELSE mRoot

\* sw leads every event of reload version v that may be replayed to last.
Covers(sw, last, v) ==
  /\ Follows(sw, last, last)
  /\ \A m \in In(toBackground) : m.type = "event" /\ m.version = v => Follows(sw, m.id, last)
  /\ bVersion = v => \A id \in In(delayedEvents) : Follows(sw, id, last)

SwapCovers == ~synced /\ mRoot # 0 => Covers(swap, Top, mVersion)
ScreensCover ==
  \A m \in In(toBackground) : m.type = "firstScreen" /\ m.hasSwap => Covers(m.swap, m.id, m.version)
DelayedCover == \A m \in In(delayedScreens) : Covers(m.swap, m.id, m.version)

CoverInv == RenderedBeforeReload /\ SwapCovers /\ ScreensCover /\ DelayedCover

\* The first message has the version that its receiver is in afterwards.
LEMMA HeadVersion ==
  ASSUME TypeOK, VersionsInStep, toBackground # <<>>
  PROVE  /\ Head(toBackground) \in In(toBackground) /\ Head(toBackground) \in BackgroundMessages
         /\ Head(toBackground) = toBackground[1] /\ 1 \in 1..Len(toBackground)
         /\ In(Tail(toBackground)) \subseteq In(toBackground)
         /\ Head(toBackground).type # "appReload" => Head(toBackground).version = bVersion
         /\ Head(toBackground).type = "appReload" => /\ Head(toBackground).version = bVersion + 1
                                                     /\ bVersion < mVersion
  <1>t. toBackground \in Seq(BackgroundMessages) /\ mVersion \in Nat /\ bVersion \in Nat
    BY DEF TypeOK
  <1>1. /\ Head(toBackground) \in In(toBackground) /\ In(Tail(toBackground)) \subseteq In(toBackground)
        /\ Head(toBackground) \in BackgroundMessages
    BY <1>t, InTail, ChannelTypes
  <1>2. /\ Head(toBackground).version = VersionAfter(bVersion, Head(toBackground))
        /\ InStep(Tail(toBackground), Head(toBackground).version, mVersion)
    BY <1>t, InStepTail DEF VersionsInStep
  <1>3. Head(toBackground).version <= mVersion
    BY <1>2 DEF InStep
  <1>4. Head(toBackground) = toBackground[1] /\ 1 \in 1..Len(toBackground)
    BY <1>t
  <1>. QED  BY <1>t, <1>1, <1>2, <1>3, <1>4 DEF VersionAfter

LEMMA RenderedInductive ==
  ASSUME TypeOK, VersionsInStep, RenderedBeforeReload, ~app.earlyReload, [Next]_vars
  PROVE  RenderedBeforeReload'
  <1>1. CASE BeginReload
    BY <1>1 DEF BeginReload, RenderedBeforeReload, bgVars
  <1>2. CASE ReceiveAppReload
    <2>1. bVersion < mVersion /\ bVersion \in Nat /\ mVersion \in Nat
      BY <1>2, HeadVersion DEF ReceiveAppReload, TypeOK
    <2>. QED  BY <1>2, <2>1 DEF ReceiveAppReload, RenderedBeforeReload, mainVars
  <1>3. CASE RootRender
    BY <1>3 DEF RootRender, RenderedBeforeReload, mainVars
  <1>4. CASE ~(BeginReload \/ ReceiveAppReload \/ RootRender)
    <2>1. UNCHANGED <<bTree, mVersion>>
      BY <1>4 DEF Next, Main, Background, ProcessData, BeginRender, EndRender, MarkOnMain, FireEvent,
           EndReload, ReceiveSyncReady, updateMainThread,
           ReceiveFirstScreen, ReceiveEvent, Commit, TearDown,
           MarkOnBackground, vars, mainVars, bgVars
    <2>. QED  BY <2>1 DEF RenderedBeforeReload
  <1>. QED  BY <1>1, <1>2, <1>3, <1>4

\* What waits to be replayed grows by the events of the receiver's version only.
LEMMA DelayedSteps ==
  ASSUME TypeOK, [Next]_vars
  PROVE  \/ In(delayedEvents') \subseteq In(delayedEvents) /\ bVersion' = bVersion
         \/ delayedEvents' = <<>>
         \/ /\ ReceiveEvent /\ bVersion' = bVersion
            /\ In(delayedEvents') = In(delayedEvents) \cup {Head(toBackground).id}
  <1>t. delayedEvents \in Seq(Ids) /\ toBackground \in Seq(BackgroundMessages)
    BY DEF TypeOK
  <1>1. CASE ProcessData \/ BeginRender \/ EndRender \/ MarkOnMain \/ FireEvent \/ BeginReload
             \/ EndReload \/ ReceiveSyncReady \/ updateMainThread \/ Commit \/ TearDown
             \/ MarkOnBackground \/ UNCHANGED vars
    <2>1. UNCHANGED <<delayedEvents, bVersion>>
      BY <1>1 DEF ProcessData, BeginRender, EndRender, MarkOnMain, FireEvent, BeginReload,
                  EndReload, ReceiveSyncReady, updateMainThread, Commit, TearDown,
                  MarkOnBackground, vars, bgVars
    <2>. QED  BY <2>1
  <1>2. CASE RootRender \/ ReceiveFirstScreen
    <2>1. bVersion' = bVersion /\ delayedEvents' \in {delayedEvents, <<>>}
      BY <1>2 DEF RootRender, ReceiveFirstScreen, HydrateFirstScreen
    <2>. QED  BY <2>1
  <1>3. CASE ReceiveAppReload
    BY <1>3 DEF ReceiveAppReload, DelayedEventsAfterReload
  <1>4. CASE ReceiveEvent
    <2> DEFINE id == Head(toBackground).id
    <2>1. toBackground # <<>>
      BY <1>4 DEF ReceiveEvent
    <2>2. Head(toBackground) \in BackgroundMessages
      BY <1>t, <2>1, ChannelTypes
    <2>2a. id \in Ids
      BY <2>2 DEF BackgroundMessages
    <2>3. bVersion' = bVersion /\ delayedEvents' \in {delayedEvents, Append(delayedEvents, id)}
      BY <1>4 DEF ReceiveEvent
    <2> HIDE DEF id
    <2>4. In(Append(delayedEvents, id)) = In(delayedEvents) \cup {id}
      BY <1>t, <2>2a, InAppend
    <2>. QED  BY <1>4, <2>3, <2>4 DEF id
  <1>. QED  BY <1>1, <1>2, <1>3, <1>4 DEF Next, Main, Background

\* What is sent to the background thread, by kind.
LEMMA SentSteps ==
  ASSUME TypeOK, [Next]_vars
  PROVE  \/ In(toBackground') \subseteq In(toBackground)
         \/ FireEvent /\ In(toBackground') = In(toBackground) \cup {EventMsg}
         \/ BeginReload /\ In(toBackground') = In(toBackground) \cup {AppReloadMsg(mVersion + 1)}
         \/ EndReload /\ In(toBackground') = In(toBackground) \cup {FirstScreenMsg({}, FALSE, TRUE)}
         \/ /\ EndRender \/ MarkOnMain \/ ReceiveSyncReady
            /\ \E sw \in SUBSET (Ids \X Ids), settled \in BOOLEAN :
                 /\ syncFirstScreen(sw, settled)
                 /\ In(toBackground') = In(toBackground) \cup {FirstScreenMsg(sw, TRUE, settled)}
  <1>t. toBackground \in Seq(BackgroundMessages) /\ mVersion \in Nat
    BY DEF TypeOK
  <1>1. CASE ProcessData \/ BeginRender \/ updateMainThread \/ RootRender \/ Commit
             \/ TearDown \/ MarkOnBackground \/ UNCHANGED vars
    <2>1. toBackground' = toBackground
      BY <1>1 DEF ProcessData, BeginRender, updateMainThread, RootRender, Commit,
                TearDown, MarkOnBackground, vars, mainVars, bgVars
    <2>. QED  BY <2>1
  <1>2. CASE EndRender \/ MarkOnMain \/ ReceiveSyncReady
    <2>1. PICK sw \in SUBSET (Ids \X Ids), settled \in BOOLEAN :
            syncFirstScreen(sw, settled) \/ noSync(sw)
      BY <1>2, LatchSteps
    <2>2. CASE syncFirstScreen(sw, settled)
      <3> DEFINE m == FirstScreenMsg(sw, TRUE, settled)
      <3>1. m \in BackgroundMessages
        BY MessageTypes
      <3>2. toBackground' = Append(toBackground, m)
        BY <2>2 DEF syncFirstScreen
      <3> HIDE DEF m
      <3>3. In(toBackground') = In(toBackground) \cup {m}
        BY <1>t, <3>1, <3>2, InAppend
      <3>. QED  BY <1>2, <2>2, <3>3 DEF m
    <2>3. CASE noSync(sw)
      BY <2>3 DEF noSync
    <2>. QED  BY <2>1, <2>2, <2>3
  <1>3. CASE FireEvent
    <2>1. EventMsg \in BackgroundMessages /\ toBackground' = Append(toBackground, EventMsg)
      BY <1>3, MessageTypes DEF FireEvent
    <2>2. In(toBackground') = In(toBackground) \cup {EventMsg}
      BY <1>t, <2>1, InAppend
    <2>. QED  BY <1>3, <2>2
  <1>4. CASE BeginReload
    <2> DEFINE m == AppReloadMsg(mVersion + 1)
    <2>1. m \in BackgroundMessages
      BY <1>t, MessageTypes
    <2>2. toBackground' = Append(toBackground, m)
      BY <1>4 DEF BeginReload
    <2> HIDE DEF m
    <2>3. In(toBackground') = In(toBackground) \cup {m}
      BY <1>t, <2>1, <2>2, InAppend
    <2>. QED  BY <1>4, <2>3 DEF m
  <1>5. CASE EndReload
    <2> DEFINE m == FirstScreenMsg({}, FALSE, TRUE)
    <2>1. m \in BackgroundMessages
      BY MessageTypes
    <2>2. toBackground' \in {toBackground, Append(toBackground, m)}
      BY <1>5 DEF EndReload
    <2> HIDE DEF m
    <2>3. In(Append(toBackground, m)) = In(toBackground) \cup {m}
      BY <1>t, <2>1, InAppend
    <2>. QED  BY <1>5, <2>2, <2>3 DEF m
  <1>6. CASE ReceiveFirstScreen \/ ReceiveAppReload \/ ReceiveEvent
    <2>1. toBackground # <<>> /\ toBackground' = Tail(toBackground)
      BY <1>6 DEF ReceiveFirstScreen, ReceiveAppReload, ReceiveEvent
    <2>. QED  BY <1>t, <2>1, InTail
  <1>. QED  BY <1>1, <1>2, <1>3, <1>4, <1>5, <1>6 DEF Next, Main, Background

\* No step but an event of version v puts anything on its way that sw does not cover.
LEMMA CoversKept ==
  ASSUME TypeOK, VersionsInStep, [Next]_vars, NEW sw, NEW last \in Int, NEW v \in Nat,
         Covers(sw, last, v), FireEvent /\ v = mVersion => last = mRoot
  PROVE  Covers(sw, last, v)'
  <1>1. Follows(sw, last, last)
    BY DEF Covers
  <1>2. ASSUME NEW m \in In(toBackground'), m.type = "event", m.version = v
        PROVE  Follows(sw, m.id, last)
    <2>1. CASE m \in In(toBackground)
      BY <1>2, <2>1 DEF Covers
    <2>2. CASE m \notin In(toBackground)
      <3>1. /\ AppReloadMsg(mVersion + 1).type # "event" /\ FirstScreenMsg({}, FALSE, TRUE).type # "event"
            /\ \A sw2, settled : FirstScreenMsg(sw2, TRUE, settled).type # "event"
        BY DEF AppReloadMsg, FirstScreenMsg
      <3>2. FireEvent /\ m = EventMsg
        BY <1>2, <2>2, <3>1, SentSteps
      <3>3. m.version = mVersion /\ m.id = mRoot
        BY <3>2 DEF EventMsg
      <3>. QED  BY <1>1, <1>2, <3>2, <3>3
    <2>. QED  BY <2>1, <2>2
  <1>3. ASSUME bVersion' = v, NEW id \in In(delayedEvents')
        PROVE  Follows(sw, id, last)
    <2>1. CASE In(delayedEvents') \subseteq In(delayedEvents) /\ bVersion' = bVersion
      BY <1>3, <2>1 DEF Covers
    <2>2. CASE delayedEvents' = <<>>
      BY <1>3, <2>2, InEmpty
    <2>3. CASE /\ ReceiveEvent /\ bVersion' = bVersion
               /\ In(delayedEvents') = In(delayedEvents) \cup {Head(toBackground).id}
      <3> DEFINE m == Head(toBackground)
      <3>1. m.type = "event" /\ m.version = bVersion /\ m \in In(toBackground)
        BY <2>3, HeadVersion DEF ReceiveEvent
      <3> HIDE DEF m
      <3>2. Follows(sw, m.id, last)
        BY <1>3, <2>3, <3>1 DEF Covers
      <3>. QED  BY <1>3, <2>3, <3>2 DEF Covers, m
    <2>. QED  BY <2>1, <2>2, <2>3, DelayedSteps
  <1>. QED  BY <1>1, <1>2, <1>3 DEF Covers

-----------------------------------------------------------------------------
\* A message without a swap at the head finds nothing to replay, and a rendered tree.
LEMMA HeadHasSwap ==
  ASSUME TypeOK, QuietReloads, toBackground # <<>>, Head(toBackground).type = "firstScreen"
  PROVE  ~Head(toBackground).hasSwap => NothingWaits
  <1>t. toBackground \in Seq(BackgroundMessages)
    BY DEF TypeOK
  <1>1. Len(toBackground) \in Nat \ {0} /\ Head(toBackground) = toBackground[1] /\ 0 + 1 = 1
    BY <1>t
  <1>2. ~Head(toBackground).hasSwap => WithoutSwapAfter(toBackground, 0, phase)
    BY <1>1 DEF WithoutSwapAfter
  <1>3. 0 \in 0..Len(toBackground) /\ NoReload(toBackground, 0)
    BY <1>1 DEF NoReload
  <1>. QED  BY <1>2, <1>3 DEF QuietReloads, Quiet

\* When a render ends, the swap it leaves leads everything to the root.
LEMMA SwapAfterRender ==
  ASSUME TypeOK, BeforeHandover, RenderingUnsynced, SwapCovers, phase = "render"
  PROVE  /\ mRoot = 1 => Covers(swap, mRoot, mVersion)
         /\ mRoot # 1 => Covers(SwapAfterHydrate, mRoot, mVersion)
  <1>t. mRoot \in Int /\ mRoot # 0
    BY DEF TypeOK, Ids, BeforeHandover
  <1>1. Covers(swap, Top, mVersion)
    BY <1>t DEF SwapCovers, RenderingUnsynced
  <1>2. CASE mRoot = 1
    BY <1>1, <1>2 DEF Top
  <1>3. CASE mRoot # 1
    <2> DEFINE top == mRoot - 1
    <2>1. Top = top /\ top \in Int /\ top + 1 = mRoot
      BY <1>t, <1>3 DEF Top
    <2>2. SwapAfterHydrate = swap \cup {<<top, top + 1>>}
      BY <2>1 DEF SwapAfterHydrate
    <2> HIDE DEF top
    <2>3. \A id \in Int : Follows(swap, id, top) => Follows(SwapAfterHydrate, id, mRoot)
      BY <2>1, <2>2, FollowsFurther
    <2>4. Follows(SwapAfterHydrate, mRoot, mRoot)
      BY <1>1, <2>1, <2>2, FollowsFurther DEF Covers
    <2>5. /\ \A m \in In(toBackground) : m.id \in Int
          /\ \A id \in In(delayedEvents) : id \in Int
      <3>1. toBackground \in Seq(BackgroundMessages) /\ delayedEvents \in Seq(Int)
        BY DEF TypeOK, Ids
      <3>2. In(toBackground) \subseteq BackgroundMessages /\ In(delayedEvents) \subseteq Int
        BY <3>1 DEF In
      <3>. QED  BY <3>2 DEF BackgroundMessages, Ids
    <2>. QED  BY <1>1, <1>3, <2>1, <2>3, <2>4, <2>5 DEF Covers
  <1>. QED  BY <1>2, <1>3

\* A latch that closes sends a swap that leads everything to the root.
LEMMA SyncCovers ==
  ASSUME TypeOK, BeforeHandover, RenderingUnsynced, SwapCovers,
         EndRender \/ MarkOnMain \/ ReceiveSyncReady
  PROVE  \E sw \in SUBSET (Ids \X Ids), settled \in BOOLEAN :
           \/ noSync(sw)
           \/ syncFirstScreen(sw, settled) /\ Covers(sw, mRoot, mVersion)
  <1>t. swap \in SUBSET (Ids \X Ids) /\ SwapAfterHydrate \in SUBSET (Ids \X Ids)
    <2>1. <<mRoot - 1, mRoot>> \in Ids \X Ids
      BY DEF TypeOK, Ids
    <2>2. swap \in SUBSET (Ids \X Ids)
      BY DEF TypeOK
    <2>. QED  BY <2>1, <2>2 DEF SwapAfterHydrate
  <1>1. CASE EndRender
    <2>1. phase = "render"
      BY <1>1 DEF EndRender
    <2>2. CASE mRoot = 1
      <3>1. noSync(swap) \/ syncFirstScreen(swap, TRUE)
        BY <1>1, <2>2 DEF EndRender, onFirstScreenTreeReady
      <3>. QED  BY <1>t, <2>1, <2>2, <3>1, SwapAfterRender
    <2>3. CASE mRoot # 1
      <3>1. noSync(SwapAfterHydrate) \/ syncFirstScreen(SwapAfterHydrate, TRUE)
        BY <1>1, <2>3 DEF EndRender, onFirstScreenTreeReady
      <3>. QED  BY <1>t, <2>1, <2>3, <3>1, SwapAfterRender
    <2>. QED  BY <2>2, <2>3
  <1>2. CASE MarkOnMain \/ ReceiveSyncReady
    <2>1. CASE MaySyncOnMark
      <3>1. syncFirstScreen(swap, phase = "idle") /\ (phase = "idle") \in BOOLEAN
        BY <1>2, <2>1 DEF MarkOnMain, ReceiveSyncReady, onFirstScreenSyncReady
      <3>2. phase # "render" /\ mRoot # 0 /\ ~synced
        BY <1>2, <2>1 DEF MaySyncOnMark, MarkOnMain, ReceiveSyncReady, RenderingUnsynced, BeforeHandover
      <3>3. Covers(swap, mRoot, mVersion)
        BY <3>2 DEF SwapCovers, Top
      <3>. QED  BY <1>t, <3>1, <3>3
    <2>2. CASE ~MaySyncOnMark
      <3>1. noSync(swap)
        BY <1>2, <2>2 DEF MarkOnMain, ReceiveSyncReady, onFirstScreenSyncReady
      <3>. QED  BY <1>t, <3>1
    <2>. QED  BY <2>1, <2>2
  <1>. QED  BY <1>1, <1>2

LEMMA SwapCoversInductive ==
  ASSUME TypeOK, VersionsInStep, BeforeHandover, PhaseInv, SwapCovers, [Next]_vars
  PROVE  SwapCovers'
  <1>t. /\ mRoot \in Int /\ mRoot >= 0 /\ mVersion \in Nat /\ bVersion \in Nat /\ synced \in BOOLEAN
        /\ bVersion <= mVersion /\ toBackground \in Seq(BackgroundMessages)
    BY DEF TypeOK, Ids, BeforeHandover, VersionsInStep, InStep
  <1>p. RenderingUnsynced /\ BeforeRoot
    BY DEF PhaseInv
  <1> SUFFICES ASSUME ~synced', mRoot' # 0 PROVE Covers(swap, Top, mVersion)'
    BY DEF SwapCovers
  <1>s. ~synced
    <2>1. CASE EndRender \/ MarkOnMain \/ ReceiveSyncReady
      BY <2>1, <1>t, LatchSteps DEF syncFirstScreen, noSync
    <2>2. CASE ~(EndRender \/ MarkOnMain \/ ReceiveSyncReady)
      BY <2>2 DEF Next, Main, Background, ProcessData, BeginRender, FireEvent, BeginReload, EndReload,
           updateMainThread, RootRender, ReceiveFirstScreen, ReceiveAppReload, ReceiveEvent, Commit,
           TearDown, MarkOnBackground, vars, mainVars
    <2>. QED  BY <2>1, <2>2
  <1>1. CASE BeginRender
    <2>1. /\ phase = "data" /\ phase' = "render" /\ mRoot' = mRoot + 1
          /\ UNCHANGED <<swap, mVersion>>
      BY <1>1 DEF BeginRender
    <2>2. ~FireEvent
      BY <2>1 DEF FireEvent
    <2>3. CASE mRoot = 0
      <3>1. swap = {} /\ In(toBackground) = {} /\ In(delayedEvents) = {} /\ Top' = 1
        BY <1>p, <2>1, <2>3, InEmpty DEF BeforeRoot, Top
      <3>2. Covers({}, 1, mVersion)
        BY <3>1, FollowsSelf DEF Covers
      <3>3. ASSUME NEW v, v = mVersion PROVE Covers({}, 1, v)'
        BY <1>t, <2>2, <3>2, <3>3, CoversKept
      <3>. QED  BY <2>1, <3>1, <3>3 DEF Covers
    <2>4. CASE mRoot # 0
      <3>1. Top = mRoot /\ Top' = mRoot
        BY <1>t, <2>1, <2>4 DEF Top
      <3>2. ASSUME NEW sw, sw = swap, NEW v, v = mVersion, NEW last, last = Top
            PROVE Covers(sw, last, v)'
        <4>1. Covers(sw, last, v)
          BY <1>s, <2>4, <3>2 DEF SwapCovers
        <4>. QED  BY <1>t, <2>2, <3>1, <3>2, <4>1, CoversKept
      <3>. QED  BY <2>1, <3>1, <3>2 DEF Covers
    <2>. QED  BY <2>3, <2>4
  <1>2. CASE EndRender
    <2>1. /\ phase = "render" /\ phase' = "idle" /\ UNCHANGED <<mRoot, mVersion>>
      BY <1>2 DEF EndRender
    <2>2. ~FireEvent
      BY <2>1 DEF FireEvent
    <2>3. IF mRoot = 1 THEN swap' = swap ELSE swap' = SwapAfterHydrate
      BY <1>2 DEF EndRender, onFirstScreenTreeReady, syncFirstScreen, noSync
    <2>4. Top' = mRoot
      BY <2>1 DEF Top
    <2>5. ASSUME NEW sw, sw = swap', NEW v, v = mVersion, NEW last, last = mRoot
          PROVE Covers(sw, last, v)'
      <3>1. Covers(sw, last, v)
        BY <1>p, <2>1, <2>3, <2>5, SwapAfterRender
      <3>. QED  BY <1>t, <2>2, <2>5, <3>1, CoversKept
    <2>. QED  BY <2>1, <2>4, <2>5 DEF Covers
  <1>3. CASE BeginReload
    <2>1. /\ swap' = {} /\ mVersion' = mVersion + 1 /\ phase' = "reload" /\ mRoot' = mRoot + 1
      BY <1>3 DEF BeginReload
    <2>2. Top' = mRoot + 1
      BY <2>1 DEF Top
    <2>3. \A m \in In(toBackground) : m.version <= mVersion /\ m.version \in Nat
      <3>1. \A i \in 1..Len(toBackground) : toBackground[i] \in BackgroundMessages
        BY <1>t
      <3>. QED  BY <3>1 DEF In, VersionsInStep, InStep, BackgroundMessages
    <2>4. Covers({}, mRoot + 1, mVersion + 1)
      BY <1>t, <2>3, FollowsSelf DEF Covers
    <2>5. ASSUME NEW v, v = mVersion + 1, NEW last, last = mRoot + 1
          PROVE Covers({}, last, v)'
      BY <1>t, <2>1, <2>4, <2>5, CoversKept
    <2>. QED  BY <2>1, <2>2, <2>5 DEF Covers
  <1>4. CASE ~(BeginRender \/ EndRender \/ BeginReload)
    <2>1. UNCHANGED <<mRoot, mVersion, swap>> /\ Top' = Top
      <3>1. CASE MarkOnMain \/ ReceiveSyncReady
        <4>1. UNCHANGED <<mRoot, mVersion, swap, phase>>
          BY <3>1 DEF MarkOnMain, ReceiveSyncReady, onFirstScreenSyncReady, syncFirstScreen, noSync
        <4>. QED  BY <4>1 DEF Top
      <3>2. CASE ProcessData \/ EndReload
        <4>1. UNCHANGED <<mRoot, mVersion, swap>> /\ phase # "render" /\ phase' # "render"
          BY <3>2 DEF ProcessData, EndReload
        <4>. QED  BY <4>1 DEF Top
      <3>3. CASE ~(MarkOnMain \/ ReceiveSyncReady \/ ProcessData \/ EndReload)
        <4>1. UNCHANGED <<mRoot, mVersion, swap, phase>>
          BY <1>4, <3>3 DEF Next, Main, Background, FireEvent,
            updateMainThread, RootRender, ReceiveFirstScreen, ReceiveAppReload, ReceiveEvent, Commit,
            TearDown, MarkOnBackground, vars, mainVars
        <4>. QED  BY <4>1 DEF Top
      <3>. QED  BY <3>1, <3>2, <3>3
    <2>2. FireEvent => Top = mRoot
      BY DEF FireEvent, Top
    <2>3. ASSUME NEW sw, sw = swap, NEW v, v = mVersion, NEW last, last = Top
          PROVE Covers(sw, last, v)'
      <3>1. Covers(sw, last, v) /\ last \in Int
        BY <1>s, <1>t, <2>1, <2>3 DEF SwapCovers, Top
      <3>. QED  BY <1>t, <2>2, <2>3, <3>1, CoversKept
    <2>. QED  BY <2>1, <2>3 DEF Covers
  <1>. QED  BY <1>1, <1>2, <1>3, <1>4

\* The messages on their way to the background thread keep covering their life of the page.
LEMMA ScreensCoverInductive ==
  ASSUME ReloadInv, PhaseInv, SwapCovers, ScreensCover, [Next]_vars
  PROVE  ScreensCover'
  <1>t. /\ TypeOK /\ VersionsInStep /\ BeforeHandover /\ ScreensNameRoot /\ RenderingUnsynced
        /\ mRoot \in Int /\ mVersion \in Nat /\ toBackground \in Seq(BackgroundMessages)
    BY DEF ReloadInv, SameLifeSameRoot, PhaseInv, TypeOK, Ids
  <1>b. \A m \in In(toBackground) : m.id \in Int /\ m.version \in Nat
    <2>1. In(toBackground) \subseteq BackgroundMessages
      BY <1>t DEF In
    <2>. QED  BY <2>1 DEF BackgroundMessages, Ids
  <1> SUFFICES ASSUME NEW m \in In(toBackground'), m.type = "firstScreen", m.hasSwap
               PROVE  Covers(m.swap, m.id, m.version)'
    BY DEF ScreensCover
  <1>1. CASE m \in In(toBackground)
    <2>1. Covers(m.swap, m.id, m.version)
      BY <1>1 DEF ScreensCover
    <2>2. m.version = mVersion => m.id = mRoot
      BY <1>1, <1>t DEF ScreensNameRoot
    <2>. QED  BY <1>1, <1>b, <1>t, <2>1, <2>2, CoversKept
  <1>2. CASE m \notin In(toBackground)
    <2>1. EndRender \/ MarkOnMain \/ ReceiveSyncReady
      <3>1. EventMsg.type # "firstScreen" /\ AppReloadMsg(mVersion + 1).type # "firstScreen"
            /\ ~FirstScreenMsg({}, FALSE, TRUE).hasSwap
        BY DEF EventMsg, AppReloadMsg, FirstScreenMsg
      <3>. QED  BY <1>2, <1>t, <3>1, SentSteps
    <2>2. PICK sw \in SUBSET (Ids \X Ids), settled \in BOOLEAN :
            \/ noSync(sw)
            \/ syncFirstScreen(sw, settled) /\ Covers(sw, mRoot, mVersion)
      BY <2>1, <1>t, SyncCovers
    <2>3. /\ syncFirstScreen(sw, settled) /\ Covers(sw, mRoot, mVersion)
          /\ m = FirstScreenMsg(sw, TRUE, settled)
      BY <1>2, <1>t, <2>2, SyncSends DEF noSync
    <2>4. m.swap = sw /\ m.id = mRoot /\ m.version = mVersion
      BY <2>3 DEF FirstScreenMsg
    <2>. QED  BY <1>t, <2>3, <2>4, CoversKept
  <1>. QED  BY <1>1, <1>2

\* So do those that wait for root.render.
LEMMA DelayedCoverInductive ==
  ASSUME ReloadInv, ReplayInv, ScreensCover, DelayedCover, [Next]_vars
  PROVE  DelayedCover'
  <1>t. /\ TypeOK /\ VersionsInStep /\ DelayedNameRoot /\ QuietReloads
        /\ toBackground \in Seq(BackgroundMessages) /\ delayedScreens \in Seq(BackgroundMessages)
        /\ mVersion \in Nat
    BY DEF ReloadInv, SameLifeSameRoot, ReplayInv, TypeOK
  <1>b. /\ \A m \in BackgroundMessages : m.id \in Int /\ m.version \in Nat
        /\ In(delayedScreens) \subseteq BackgroundMessages
    <2>1. In(delayedScreens) \subseteq BackgroundMessages
      BY <1>t DEF In
    <2>. QED  BY <2>1 DEF BackgroundMessages, Ids
  <1> SUFFICES ASSUME NEW m \in In(delayedScreens') PROVE Covers(m.swap, m.id, m.version)'
    BY DEF DelayedCover
  <1>1. CASE m \in In(delayedScreens)
    <2>1. Covers(m.swap, m.id, m.version)
      BY <1>1 DEF DelayedCover
    <2>2. m.version = mVersion => m.id = mRoot
      BY <1>1, <1>t DEF DelayedNameRoot
    <2>. QED  BY <1>1, <1>b, <1>t, <2>1, <2>2, CoversKept
  <1>2. CASE m \notin In(delayedScreens)
    <2>1. CASE ReceiveFirstScreen
      <3> DEFINE h == Head(toBackground)
      <3>1. /\ toBackground # <<>> /\ h.type = "firstScreen" /\ ~FireEvent
            /\ h \in In(toBackground) /\ h \in BackgroundMessages
        BY <2>1, <1>t, HeadVersion DEF ReceiveFirstScreen, FireEvent, mainVars, TypeOK
      <3>2. bTree = "none" /\ delayedScreens' = Append(delayedScreens, h)
        BY <1>2, <2>1 DEF ReceiveFirstScreen
      <3>3. h.hasSwap
        BY <1>t, <3>1, <3>2, HeadHasSwap DEF NothingWaits
      <3> HIDE DEF h
      <3>4. m = h
        BY <1>2, <1>t, <3>1, <3>2, InAppend
      <3>5. Covers(m.swap, m.id, m.version)
        BY <3>1, <3>3, <3>4 DEF ScreensCover
      <3>. QED  BY <1>b, <1>t, <3>1, <3>4, <3>5, CoversKept
    <2>2. CASE ~ReceiveFirstScreen
      <3>1. delayedScreens' \in {delayedScreens, Tail(delayedScreens), <<>>}
            /\ (delayedScreens' = Tail(delayedScreens) => delayedScreens' = delayedScreens \/ delayedScreens # <<>>)
        BY <2>2 DEF Next, Main, Background, ProcessData, BeginRender, EndRender, MarkOnMain, FireEvent,
             BeginReload, EndReload, ReceiveSyncReady, updateMainThread, RootRender,
             ReceiveAppReload, ReceiveEvent, Commit, TearDown, MarkOnBackground, vars, bgVars
      <3>. QED  BY <1>2, <1>t, <3>1, InTail, InEmpty
    <2>. QED  BY <2>1, <2>2
  <1>. QED  BY <1>1, <1>2

-----------------------------------------------------------------------------
(* The handler of an event is found: the message that hydrates the tree    *)
(* the event was fired on is received before the event, or the event is    *)
(* received before any hydration.                                          *)

\* The live element has id, or will have it as soon as root.render is called.
HydratedTo(id) == direct /\ bElement = id /\ id \in bIds
WaitsFor(id) == bTree = "none" /\ delayedScreens # <<>> /\ \A m \in In(delayedScreens) : m.id = id
Ready(id) == HydratedTo(id) \/ WaitsFor(id)

\* Once the first n messages of q are received, id names the live element of version v.
ScreenOf(m, v) == m.type = "firstScreen" /\ m.version = v
Handled(q, n, v, id) ==
  /\ \A k \in 1..n : ScreenOf(q[k], v) => q[k].id = id
  /\ (\A k \in 1..n : ~ScreenOf(q[k], v)) => v = bVersion /\ Ready(id)

\* Nothing is hydrated once the first n messages of q are received.
Unhydrated == ~direct /\ delayedScreens = <<>>
Unhandled(q, n) == Unhydrated /\ \A k \in 1..n : q[k].type # "firstScreen"

EventsHandled ==
  \A n \in 0..(Len(toBackground) - 1) : toBackground[n + 1].type = "event" =>
    \/ Handled(toBackground, n, toBackground[n + 1].version, toBackground[n + 1].id)
    \/ Unhandled(toBackground, n)
RootHandled ==
  synced /\ phase # "reload" => Handled(toBackground, Len(toBackground), mVersion, mRoot)

BaseInv == ReloadInv /\ ReplayInv /\ PhaseInv /\ CoverInv

\* A hydration finds the handler of every event that it replays.
LEMMA HydrateFinds ==
  ASSUME TypeOK, NEW m \in BackgroundMessages, NEW queue, HydrateFirstScreen(m, "rendered", queue),
         ~m.hasSwap => delayedEvents = <<>>,
         m.hasSwap => \A id \in In(delayedEvents) : Follows(m.swap, id, m.id)
  PROVE  missed' = missed /\ HydratedTo(m.id)'
  <1>t. m.id \in Int /\ delayedEvents \in Seq(Int)
    BY DEF TypeOK, BackgroundMessages, Ids
  <1>1. ~ReplayThrows(m)
    BY DEF ReplayThrows
  <1>2. \A j \in DOMAIN delayedEvents : Resolve(m.swap, delayedEvents[j]) = m.id
    <2> SUFFICES ASSUME NEW j \in DOMAIN delayedEvents PROVE Resolve(m.swap, delayedEvents[j]) = m.id
      OBVIOUS
    <2>1. j \in 1..Len(delayedEvents) /\ delayedEvents[j] \in Int /\ delayedEvents # <<>>
      BY <1>t
    <2>2. delayedEvents[j] \in In(delayedEvents)
      BY <2>1 DEF In
    <2>. QED  BY <1>t, <2>1, <2>2, ResolveFollows
  <1>3. m.id \in HydratedIds(m, "rendered") /\ HydratedElement(m, "rendered") = m.id
    BY DEF HydratedIds, HydratedElement
  <1>4. {delayedEvents[i] : i \in {j \in DOMAIN delayedEvents :
            Resolve(m.swap, delayedEvents[j]) \notin HydratedIds(m, "rendered")}} = {}
    BY <1>2, <1>3
  <1>5. /\ direct' = TRUE
        /\ bElement' = HydratedElement(m, "rendered") /\ bIds' = HydratedIds(m, "rendered")
        /\ missed' = missed \cup {delayedEvents[i] : i \in {j \in DOMAIN delayedEvents :
            Resolve(m.swap, delayedEvents[j]) \notin HydratedIds(m, "rendered")}}
    BY <1>1 DEF HydrateFirstScreen
  <1>. QED  BY <1>3, <1>4, <1>5 DEF HydratedTo

\* Once a firstScreen message is received, its root is the live element or will be.
LEMMA ReceiveHydrates ==
  ASSUME BaseInv, ReceiveFirstScreen, NEW m, m = Head(toBackground)
  PROVE  missed' = missed /\ Ready(m.id)' /\ bVersion' = bVersion
  <1>t. /\ TypeOK /\ VersionsInStep /\ QuietReloads /\ RenderedBeforeReload /\ ScreensCover
        /\ ScreensNameRoot /\ DelayedNameRoot
        /\ delayedScreens \in Seq(BackgroundMessages) /\ mVersion \in Nat /\ bVersion \in Nat
        /\ bVersion <= mVersion /\ bTree \in {"none", "empty", "rendered"}
    BY DEF BaseInv, ReloadInv, SameLifeSameRoot, ReplayInv, CoverInv, TypeOK, VersionsInStep, InStep
  <1>1. /\ toBackground # <<>> /\ m.type = "firstScreen" /\ bVersion' = bVersion
        /\ bTree' = bTree
    BY DEF ReceiveFirstScreen
  <1>2. m \in In(toBackground) /\ m \in BackgroundMessages /\ m.version = bVersion
    BY <1>t, <1>1, HeadVersion
  <1>3. ~m.hasSwap => NothingWaits
    BY <1>t, <1>1, HeadHasSwap
  <1>4. CASE bTree = "none"
    <2>1. bVersion = mVersion
      BY <1>t, <1>4 DEF RenderedBeforeReload
    <2>2. m.id = mRoot /\ \A d \in In(delayedScreens) : d.id = mRoot
      BY <1>t, <1>1, <1>2, <2>1 DEF ScreensNameRoot, DelayedNameRoot
    <2>3. delayedScreens' = Append(delayedScreens, m) /\ missed' = missed
      BY <1>4 DEF ReceiveFirstScreen
    <2>4. In(delayedScreens') = In(delayedScreens) \cup {m} /\ delayedScreens' # <<>>
      BY <1>t, <1>2, <2>3, InAppend
    <2>5. WaitsFor(m.id)'
      BY <1>1, <1>4, <2>2, <2>4 DEF WaitsFor
    <2>. QED  BY <1>1, <2>3, <2>5 DEF Ready
  <1>5. CASE bTree # "none"
    <2>1. bTree = "rendered"
      BY <1>t, <1>5 DEF RenderedBeforeReload
    <2>2. HydrateFirstScreen(m, "rendered", toMain)
      BY <1>5, <2>1 DEF ReceiveFirstScreen
    <2>3. m.hasSwap => \A id \in In(delayedEvents) : Follows(m.swap, id, m.id)
      BY <1>t, <1>1, <1>2 DEF ScreensCover, Covers
    <2>4. missed' = missed /\ HydratedTo(m.id)'
      BY <1>t, <1>2, <1>3, <2>2, <2>3, HydrateFinds DEF NothingWaits
    <2>. QED  BY <1>1, <2>4 DEF Ready
  <1>. QED  BY <1>4, <1>5

\* root.render hydrates the tree with the message that waited for it.
LEMMA RenderHydrates ==
  ASSUME BaseInv, RootRender
  PROVE  /\ missed' = missed /\ bVersion' = bVersion
         /\ \A id : Ready(id) => Ready(id)'
         /\ Unhydrated => Unhydrated'
  <1>t. /\ TypeOK /\ BeforeHandover /\ RenderedBeforeReload /\ DelayedCover /\ DelayedHaveSwap
        /\ DelayedNameRoot /\ DirectAfterRender /\ JsReadyWaits
        /\ delayedScreens \in Seq(BackgroundMessages) /\ bTree \in {"none", "empty", "rendered"}
    BY DEF BaseInv, ReloadInv, SameLifeSameRoot, ReplayInv, PhaseInv, CoverInv, TypeOK
  <1>1. bTree = "none" /\ ~direct /\ bVersion' = bVersion
    BY <1>t DEF RootRender, RenderedBeforeReload, DirectAfterRender
  <1>2. CASE timing = "jsReady" \/ delayedScreens = <<>>
    <2>1. delayedScreens = <<>>
      BY <1>t, <1>1, <1>2 DEF JsReadyWaits, BeforeHandover
    <2>2. UNCHANGED <<missed, direct, delayedScreens>>
      BY <1>2 DEF RootRender
    <2>. QED  BY <1>1, <2>1, <2>2 DEF Ready, HydratedTo, WaitsFor, Unhydrated
  <1>3. CASE ~(timing = "jsReady" \/ delayedScreens = <<>>)
    <2> DEFINE sent == IF bPatching THEN Append(toMain, PatchMsg(bRoot, FALSE, FALSE)) ELSE toMain
    <2>1. PICK m : m = Head(delayedScreens)
      OBVIOUS
    <2>2. HydrateFirstScreen(m, "rendered", sent)
      BY <1>3, <2>1 DEF RootRender
    <2>3. m \in In(delayedScreens) /\ m \in BackgroundMessages
      BY <1>t, <1>3, <2>1, InTail, ChannelTypes
    <2>4. m.hasSwap /\ m.version = bVersion
      BY <1>t, <2>3 DEF DelayedHaveSwap, DelayedNameRoot
    <2>5. \A id \in In(delayedEvents) : Follows(m.swap, id, m.id)
      BY <1>t, <2>3, <2>4 DEF DelayedCover, Covers
    <2>6. missed' = missed /\ HydratedTo(m.id)'
      BY <1>t, <2>2, <2>3, <2>4, <2>5, HydrateFinds
    <2>7. \A id : Ready(id) => id = m.id
      BY <1>1, <2>3 DEF Ready, HydratedTo, WaitsFor
    <2>8. ~Unhydrated
      BY <1>3 DEF Unhydrated
    <2>. QED  BY <1>1, <2>6, <2>7, <2>8 DEF Ready
  <1>. QED  BY <1>2, <1>3

\* The other steps leave what is hydrated as it is, but for a reload.
LEMMA ReadyKept ==
  ASSUME BaseInv, [Next]_vars, ~ReceiveFirstScreen
  PROVE  /\ Unhydrated => Unhydrated'
         /\ ~ReceiveAppReload => bVersion' = bVersion /\ \A id : Ready(id) => Ready(id)'
  <1>1. CASE RootRender
    BY <1>1, RenderHydrates
  <1>2. CASE ReceiveAppReload
    BY <1>2 DEF ReceiveAppReload, Unhydrated
  <1>3. CASE TearDown
    <2>1. UNCHANGED <<bTree, bVersion, bElement, direct, delayedScreens>>
          /\ (bElement \in bIds => bElement \in bIds')
      BY <1>3 DEF TearDown
    <2>. QED  BY <1>3, <2>1 DEF Unhydrated, Ready, HydratedTo, WaitsFor
  <1>4. CASE ~(RootRender \/ ReceiveAppReload \/ TearDown)
    <2>1. UNCHANGED <<bTree, bVersion, bElement, bIds, direct, delayedScreens>>
      BY <1>4 DEF Next, Main, Background, ProcessData, BeginRender, EndRender, MarkOnMain, FireEvent,
           BeginReload, EndReload, ReceiveSyncReady, updateMainThread,
           ReceiveEvent, Commit, MarkOnBackground, vars, bgVars
    <2>. QED  BY <2>1 DEF Unhydrated, Ready, HydratedTo, WaitsFor
  <1>. QED  BY <1>1, <1>2, <1>3, <1>4

-----------------------------------------------------------------------------
\* A step that receives nothing leaves the events that have their handler as they are.
LEMMA HandledKept ==
  ASSUME BaseInv, [Next]_vars, NEW q, NEW r, NEW n \in Nat, \A k \in 1..n : r[k] = q[k],
         ~(ReceiveFirstScreen \/ ReceiveAppReload)
  PROVE  /\ \A v, id : Handled(q, n, v, id) => Handled(r, n, v, id)'
         /\ Unhandled(q, n) => Unhandled(r, n)'
  <1>1. /\ Unhydrated => Unhydrated'
        /\ bVersion' = bVersion /\ \A id : Ready(id) => Ready(id)'
    BY ReadyKept
  <1>2. ASSUME NEW v, NEW id, Handled(q, n, v, id) PROVE Handled(r, n, v, id)'
    BY <1>1, <1>2 DEF Handled
  <1>3. Unhandled(q, n) => Unhandled(r, n)'
    BY <1>1 DEF Unhandled
  <1>. QED  BY <1>2, <1>3

\* Receiving the first message leaves them so with the rest of the queue.
LEMMA HandledReceived ==
  ASSUME BaseInv, [Next]_vars, NEW q, q = toBackground, NEW r, r = Tail(q),
         ReceiveFirstScreen \/ ReceiveAppReload \/ ReceiveEvent,
         NEW n \in Nat, n + 1 <= Len(q)
  PROVE  /\ \A v \in Nat : \A id : q[1].version <= v /\ Handled(q, n + 1, v, id) => Handled(r, n, v, id)'
         /\ Unhandled(q, n + 1) => Unhandled(r, n)'
  <1>t. TypeOK /\ VersionsInStep /\ bVersion \in Nat /\ toBackground \in Seq(BackgroundMessages)
    BY DEF BaseInv, ReloadInv, TypeOK
  <1>1. /\ toBackground # <<>> /\ Head(toBackground) = q[1]
        /\ Len(r) = Len(q) - 1 /\ \A k \in 1..n : r[k] = q[k + 1] /\ k + 1 \in 1..(n + 1)
    <2>1. toBackground # <<>>
      BY DEF ReceiveFirstScreen, ReceiveAppReload, ReceiveEvent
    <2>2. Len(q) \in Nat /\ Len(r) = Len(q) - 1 /\ \A k \in 1..Len(r) : r[k] = q[k + 1]
      BY <1>t, <2>1, HeadTailProperties
    <2>. QED  BY <1>t, <2>1, <2>2
  <1>2. \A k \in 1..(n + 1) : k = 1 \/ (k - 1 \in 1..n /\ k - 1 + 1 = k)
    OBVIOUS
  <1>3. PICK m : m = q[1]
    OBVIOUS
  <1>h. /\ m.type # "appReload" => m.version = bVersion
        /\ m.type = "appReload" => m.version = bVersion + 1
    BY <1>t, <1>1, <1>3, HeadVersion
  <1>4. ASSUME Unhandled(q, n + 1) PROVE Unhandled(r, n)'
    <2>1. 1 \in 1..(n + 1)
      OBVIOUS
    <2>2. ~ReceiveFirstScreen
      BY <1>1, <1>4, <2>1 DEF Unhandled, ReceiveFirstScreen
    <2>. QED  BY <1>1, <1>4, <2>2, ReadyKept DEF Unhandled
  <1>5. ASSUME NEW v \in Nat, NEW id, q[1].version <= v, Handled(q, n + 1, v, id)
        PROVE  Handled(r, n, v, id)'
    <2>1. \A k \in 1..n : ScreenOf(r[k], v) => r[k].id = id
      BY <1>1, <1>5 DEF Handled
    <2>2. ASSUME \A k \in 1..n : ~ScreenOf(r[k], v) PROVE v = bVersion' /\ Ready(id)'
      <3>1. ScreenOf(m, v) \/ (v = bVersion /\ Ready(id))
        <4>1. SUFFICES ASSUME ~ScreenOf(q[1], v) PROVE \A k \in 1..(n + 1) : ~ScreenOf(q[k], v)
          BY <1>3, <1>5 DEF Handled
        <4>2. ASSUME NEW k \in 1..(n + 1) PROVE ~ScreenOf(q[k], v)
          <5>1. CASE k = 1
            BY <4>1, <5>1
          <5>2. CASE k # 1
            <6>1. k - 1 \in 1..n /\ k - 1 + 1 = k
              BY <1>2, <5>2
            <6>. QED  BY <1>1, <2>2, <6>1
          <5>. QED  BY <5>1, <5>2
        <4>. QED  BY <4>2
      <3>2. CASE ReceiveFirstScreen
        <4>1. m.type = "firstScreen" /\ m.version = bVersion
          BY <1>1, <1>3, <1>h, <3>2 DEF ReceiveFirstScreen
        <4>2. Ready(m.id)' /\ bVersion' = bVersion
          BY <1>1, <1>3, <3>2, ReceiveHydrates
        <4>3. ScreenOf(m, v)
          BY <3>1, <4>1 DEF ScreenOf
        <4>4. 1 \in 1..(n + 1)
          OBVIOUS
        <4>5. m.id = id
          BY <1>3, <1>5, <4>3, <4>4 DEF Handled
        <4>. QED  BY <4>1, <4>2, <4>3, <4>5 DEF ScreenOf
      <3>3. CASE ReceiveAppReload
        <4>1. m.type = "appReload" /\ m.version = bVersion + 1
          BY <1>1, <1>3, <1>h, <3>3 DEF ReceiveAppReload
        <4>2. v = bVersion
          BY <3>1, <4>1 DEF ScreenOf
        <4>. QED  BY <1>3, <1>5, <1>t, <4>1, <4>2
      <3>4. CASE ReceiveEvent
        <4>1. m.type = "event"
          BY <1>1, <1>3, <3>4 DEF ReceiveEvent
        <4>2. v = bVersion /\ Ready(id)
          BY <3>1, <4>1 DEF ScreenOf
        <4>3. ~ReceiveFirstScreen /\ ~ReceiveAppReload
          BY <1>1, <1>3, <4>1 DEF ReceiveFirstScreen, ReceiveAppReload
        <4>. QED  BY <4>2, <4>3, ReadyKept
      <3>. QED  BY <3>2, <3>3, <3>4
    <2>. QED  BY <2>1, <2>2 DEF Handled
  <1>. QED  BY <1>4, <1>5

\* What the steps on the main thread do to the queue, the root and the latch.
LEMMA MainSteps ==
  ASSUME BaseInv, [Next]_vars, ~(ReceiveFirstScreen \/ ReceiveAppReload \/ ReceiveEvent)
  PROVE  \/ /\ toBackground' = toBackground /\ (synced' => synced)
            /\ synced' /\ phase' # "reload" => phase # "reload" /\ UNCHANGED <<mVersion, mRoot>>
         \/ FireEvent /\ toBackground' = Append(toBackground, EventMsg)
         \/ BeginReload /\ toBackground' = Append(toBackground, AppReloadMsg(mVersion + 1))
         \/ /\ UNCHANGED <<mVersion, mRoot>>
            /\ \E m \in BackgroundMessages :
                 /\ m.type = "firstScreen" /\ m.version = mVersion /\ m.id = mRoot
                 /\ toBackground' = Append(toBackground, m)
  <1>t. TypeOK /\ BeforeHandover
    BY DEF BaseInv, ReloadInv
  <1>m. \A sw \in SUBSET (Ids \X Ids), h, s \in BOOLEAN :
          LET m == FirstScreenMsg(sw, h, s)
          IN  /\ m \in BackgroundMessages
              /\ m.type = "firstScreen" /\ m.version = mVersion /\ m.id = mRoot
    BY <1>t, MessageTypes DEF FirstScreenMsg
  <1>1. CASE EndRender \/ MarkOnMain \/ ReceiveSyncReady
    <2>1. PICK sw \in SUBSET (Ids \X Ids), settled \in BOOLEAN :
            /\ syncFirstScreen(sw, settled) \/ noSync(sw)
            /\ UNCHANGED <<mVersion, mRoot>>
      BY <1>1, <1>t, LatchSteps
    <2>2. CASE syncFirstScreen(sw, settled)
      <3>1. PICK m \in BackgroundMessages : m = FirstScreenMsg(sw, TRUE, settled)
        BY <1>m
      <3>2. m.type = "firstScreen" /\ m.version = mVersion /\ m.id = mRoot
        BY <1>m, <3>1
      <3>3. toBackground' = Append(toBackground, m)
        BY <2>2, <3>1 DEF syncFirstScreen
      <3>. QED  BY <2>1, <3>2, <3>3
    <2>3. CASE noSync(sw)
      <3>1. phase = "reload" => phase' = "reload"
        BY <1>1 DEF EndRender, MarkOnMain, ReceiveSyncReady
      <3>. QED  BY <2>1, <2>3, <3>1 DEF noSync
    <2>. QED  BY <2>1, <2>2, <2>3
  <1>2. CASE FireEvent
    BY <1>2 DEF FireEvent
  <1>3. CASE BeginReload
    BY <1>3 DEF BeginReload
  <1>4. CASE EndReload
    <2>1. UNCHANGED <<mVersion, mRoot, synced>>
      BY <1>4 DEF EndReload
    <2>2. CASE synced
      <3>1. PICK m \in BackgroundMessages : m = FirstScreenMsg({}, FALSE, TRUE)
        BY <1>m
      <3>2. m.type = "firstScreen" /\ m.version = mVersion /\ m.id = mRoot
        BY <1>m, <3>1
      <3>3. toBackground' = Append(toBackground, m)
        BY <1>4, <2>2, <3>1 DEF EndReload
      <3>. QED  BY <2>1, <3>2, <3>3
    <2>3. CASE ~synced
      BY <1>4, <2>1, <2>3 DEF EndReload
    <2>. QED  BY <2>2, <2>3
  <1>5. CASE BeginRender
    BY <1>5, <1>t DEF BeginRender, BeforeHandover
  <1>6. CASE ProcessData \/ updateMainThread \/ RootRender \/ Commit \/ TearDown \/ MarkOnBackground
             \/ UNCHANGED vars
    <2>1. UNCHANGED <<toBackground, synced, mVersion, mRoot>> /\ (phase = "reload" => phase' = "reload")
      BY <1>6 DEF ProcessData, updateMainThread, RootRender, Commit, TearDown, MarkOnBackground,
                  vars, mainVars
    <2>. QED  BY <2>1
  <1>. QED  BY <1>1, <1>2, <1>3, <1>4, <1>5, <1>6 DEF Next, Main, Background

LEMMA HandledInductive ==
  ASSUME BaseInv, EventsHandled, RootHandled, ScreensNameRoot', [Next]_vars
  PROVE  EventsHandled' /\ RootHandled'
  <1>t. /\ TypeOK /\ VersionsInStep /\ BeforeHandover /\ ScreensNameRoot /\ VersionsAscend
        /\ DirectAfterRender
        /\ mVersion \in Nat /\ bVersion \in Nat
        /\ toBackground \in Seq(BackgroundMessages) /\ Len(toBackground) \in Nat
    BY DEF BaseInv, ReloadInv, SameLifeSameRoot, PhaseInv, TypeOK
  <1>q. PICK q : q = toBackground
    OBVIOUS
  <1>1. CASE ReceiveFirstScreen \/ ReceiveAppReload \/ ReceiveEvent
    <2>1. PICK r : r = Tail(q)
      OBVIOUS
    <2>2. q # <<>> /\ toBackground' = r /\ UNCHANGED <<mVersion, mRoot, synced, phase>>
      BY <1>1, <1>q, <2>1 DEF ReceiveFirstScreen, ReceiveAppReload, ReceiveEvent, mainVars
    <2>3. /\ Len(r) = Len(q) - 1 /\ Len(q) \in Nat /\ Len(q) >= 1
          /\ \A k \in 1..Len(r) : r[k] = q[k + 1]
      BY <1>q, <1>t, <2>1, <2>2, HeadTailProperties
    <2>4. EventsHandled'
      <3> SUFFICES ASSUME NEW n \in 0..(Len(r) - 1), r[n + 1].type = "event"
                   PROVE  \/ Handled(r, n, r[n + 1].version, r[n + 1].id)'
                          \/ Unhandled(r, n)'
        <4>1. EventsHandled' <=>
                \A n \in 0..(Len(r) - 1) : r[n + 1].type = "event" =>
                  \/ Handled(r, n, r[n + 1].version, r[n + 1].id)'
                  \/ Unhandled(r, n)'
          BY <2>2 DEF EventsHandled, Handled, Unhandled
        <4>. QED  BY <4>1
      <3>1. /\ n \in Nat /\ n + 1 \in 0..(Len(q) - 1) /\ n + 1 + 1 = n + 2 /\ n + 1 <= Len(q)
            /\ 1 \in 1..Len(q) /\ n + 2 \in 1..Len(q) /\ r[n + 1] = q[n + 2]
        BY <2>3
      <3>2. /\ q[n + 2].version \in Nat /\ q[1].version <= q[n + 2].version
        <4>1. q[n + 2] \in BackgroundMessages
          BY <1>q, <1>t, <3>1
        <4>2. 1 <= n + 2
          BY <3>1
        <4>. QED  BY <1>q, <1>t, <3>1, <4>1, <4>2 DEF VersionsAscend, BackgroundMessages
      <3>3. \/ Handled(q, n + 1, q[n + 2].version, q[n + 2].id)
            \/ Unhandled(q, n + 1)
        BY <1>q, <3>1 DEF EventsHandled
      <3>. QED  BY <1>1, <1>q, <2>1, <3>1, <3>2, <3>3, HandledReceived
    <2>5. RootHandled'
      <3> SUFFICES ASSUME synced, phase # "reload" PROVE Handled(r, Len(r), mVersion, mRoot)'
        <4>1. RootHandled' <=> (synced /\ phase # "reload" => Handled(r, Len(r), mVersion, mRoot)')
          BY <2>2 DEF RootHandled, Handled
        <4>. QED  BY <4>1
      <3>1. Len(r) \in Nat /\ Len(r) + 1 = Len(q) /\ 1 \in 1..Len(q)
        BY <2>3
      <3>2. Handled(q, Len(r) + 1, mVersion, mRoot)
        BY <1>q, <3>1 DEF RootHandled
      <3>3. q[1].version <= mVersion
        BY <1>q, <1>t, <3>1 DEF VersionsInStep, InStep
      <3>4. ASSUME NEW v, v = mVersion, NEW id, id = mRoot, NEW n \in Nat, n = Len(r)
            PROVE  Handled(r, n, v, id)'
        <4>1. v \in Nat /\ q[1].version <= v /\ Handled(q, n + 1, v, id) /\ n + 1 <= Len(q)
          BY <1>t, <3>1, <3>2, <3>3, <3>4
        <4>. QED  BY <1>1, <1>q, <2>1, <4>1, HandledReceived
      <3>. QED  BY <2>2, <3>1, <3>4 DEF Handled
    <2>. QED  BY <2>4, <2>5
  <1>r. ASSUME ~(ReceiveFirstScreen \/ ReceiveAppReload \/ ReceiveEvent),
               NEW r, \A k \in 1..Len(q) : r[k] = q[k]
        PROVE  \A n \in 0..Len(q) : /\ \A v, id : Handled(q, n, v, id) => Handled(r, n, v, id)'
                                    /\ Unhandled(q, n) => Unhandled(r, n)'
    <2> SUFFICES ASSUME NEW n \in 0..Len(q)
                 PROVE  /\ \A v, id : Handled(q, n, v, id) => Handled(r, n, v, id)'
                        /\ Unhandled(q, n) => Unhandled(r, n)'
      OBVIOUS
    <2>1. n \in Nat /\ \A k \in 1..n : r[k] = q[k]
      BY <1>q, <1>r, <1>t
    <2>. QED  BY <1>r, <2>1, HandledKept
  <1>a. ASSUME ~(ReceiveFirstScreen \/ ReceiveAppReload \/ ReceiveEvent),
               NEW m \in BackgroundMessages, toBackground' = Append(q, m),
               m.type = "event" => Handled(q, Len(q), m.version, m.id) \/ Unhandled(q, Len(q))
        PROVE  EventsHandled'
    <2>1. PICK r : r = Append(q, m)
      OBVIOUS
    <2>2. /\ Len(r) = Len(q) + 1 /\ r[Len(q) + 1] = m /\ \A k \in 1..Len(q) : r[k] = q[k]
          /\ Len(q) \in Nat
      BY <1>q, <1>t, <2>1
    <2> SUFFICES ASSUME NEW n \in 0..(Len(r) - 1), r[n + 1].type = "event"
                 PROVE  \/ Handled(r, n, r[n + 1].version, r[n + 1].id)'
                        \/ Unhandled(r, n)'
      <3>1. EventsHandled' <=>
              \A n \in 0..(Len(r) - 1) : r[n + 1].type = "event" =>
                \/ Handled(r, n, r[n + 1].version, r[n + 1].id)'
                \/ Unhandled(r, n)'
        BY <1>a, <2>1 DEF EventsHandled, Handled, Unhandled
      <3>. QED  BY <3>1
    <2>3. n \in 0..Len(q)
      BY <2>2
    <2>4. \/ Handled(q, n, r[n + 1].version, r[n + 1].id)
          \/ Unhandled(q, n)
      <3>1. CASE n = Len(q)
        BY <1>a, <2>2, <3>1
      <3>2. CASE n # Len(q)
        <4>1. n \in 0..(Len(q) - 1) /\ r[n + 1] = q[n + 1]
          BY <2>2, <3>2
        <4>. QED  BY <1>q, <4>1 DEF EventsHandled
      <3>. QED  BY <3>1, <3>2
    <2>. QED  BY <1>a, <1>r, <2>2, <2>3, <2>4
  <1>2. ASSUME ~(ReceiveFirstScreen \/ ReceiveAppReload \/ ReceiveEvent),
               toBackground' = q, synced' => synced,
               synced' /\ phase' # "reload" => phase # "reload" /\ UNCHANGED <<mVersion, mRoot>>
        PROVE  EventsHandled' /\ RootHandled'
    <2>1. \A n \in 0..Len(q) : /\ \A v, id : Handled(q, n, v, id) => Handled(q, n, v, id)'
                               /\ Unhandled(q, n) => Unhandled(q, n)'
      BY <1>2, <1>r
    <2>2. EventsHandled'
      <3> SUFFICES ASSUME NEW n \in 0..(Len(q) - 1), q[n + 1].type = "event"
                   PROVE  \/ Handled(q, n, q[n + 1].version, q[n + 1].id)'
                          \/ Unhandled(q, n)'
        <4>1. EventsHandled' <=>
                \A n \in 0..(Len(q) - 1) : q[n + 1].type = "event" =>
                  \/ Handled(q, n, q[n + 1].version, q[n + 1].id)'
                  \/ Unhandled(q, n)'
          BY <1>2 DEF EventsHandled, Handled, Unhandled
        <4>. QED  BY <4>1
      <3>1. n \in 0..Len(q)
        BY <1>q, <1>t
      <3>. QED  BY <1>q, <2>1, <3>1 DEF EventsHandled
    <2>3. RootHandled'
      <3> SUFFICES ASSUME synced', phase' # "reload" PROVE Handled(toBackground, Len(toBackground), mVersion, mRoot)'
        BY DEF RootHandled
      <3>1. UNCHANGED <<mVersion, mRoot>> /\ Handled(q, Len(q), mVersion, mRoot) /\ Len(q) \in 0..Len(q)
        BY <1>2, <1>q, <1>t DEF RootHandled
      <3>2. ASSUME NEW v, v = mVersion, NEW id, id = mRoot, NEW n, n = Len(q) PROVE Handled(q, n, v, id)'
        BY <2>1, <3>1, <3>2
      <3>. QED  BY <1>2, <3>1, <3>2 DEF Handled
    <2>. QED  BY <2>2, <2>3
  <1>3. CASE FireEvent /\ toBackground' = Append(q, EventMsg)
    <2>1. ~(ReceiveFirstScreen \/ ReceiveAppReload \/ ReceiveEvent)
      <3>1. Len(toBackground') = Len(q) + 1
        BY <1>3, <1>q, <1>t, MessageTypes
      <3>2. ASSUME toBackground # <<>>, toBackground' = Tail(toBackground) PROVE FALSE
        <4>1. Len(Tail(toBackground)) = Len(toBackground) - 1
          BY <1>t, <3>2, HeadTailProperties
        <4>. QED  BY <1>q, <1>t, <3>1, <3>2, <4>1
      <3>. QED  BY <3>2 DEF ReceiveFirstScreen, ReceiveAppReload, ReceiveEvent
    <2>2. PICK m \in BackgroundMessages : m = EventMsg
      BY <1>t, MessageTypes
    <2>3. m.type = "event" /\ m.version = mVersion /\ m.id = mRoot
      BY <2>2 DEF EventMsg
    <2>4. phase = "idle" /\ phase' = "idle" /\ UNCHANGED <<mVersion, mRoot, synced>>
      BY <1>3 DEF FireEvent, mainVars
    <2>5. synced => Handled(q, Len(q), mVersion, mRoot)
      BY <1>q, <2>4 DEF RootHandled
    <2>6. ~synced => Unhandled(q, Len(q))
      <3> SUFFICES ASSUME ~synced PROVE Unhandled(q, Len(q))
        OBVIOUS
      <3>1. ~direct /\ delayedScreens = <<>> /\ \A d \in In(toBackground) : d.type # "firstScreen"
        BY <1>t DEF DirectAfterRender, BeforeHandover
      <3>. QED  BY <1>q, <3>1 DEF Unhandled, Unhydrated, In
    <2>7. EventsHandled'
      BY <1>3, <1>a, <2>1, <2>2, <2>3, <2>5, <2>6
    <2>8. RootHandled'
      <3> SUFFICES ASSUME synced PROVE Handled(toBackground, Len(toBackground), mVersion, mRoot)'
        BY <2>4 DEF RootHandled
      <3>1. PICK r : r = Append(q, m)
        OBVIOUS
      <3>2. /\ Len(r) = Len(q) + 1 /\ r[Len(q) + 1] = m /\ \A k \in 1..Len(q) : r[k] = q[k]
            /\ Len(q) \in Nat
        BY <1>q, <1>t, <3>1
      <3>3. Len(q) \in 0..Len(q)
        BY <3>2
      <3>4. ASSUME NEW v, v = mVersion, NEW id, id = mRoot, NEW n, n = Len(q) PROVE Handled(r, n, v, id)'
        BY <1>r, <2>1, <2>5, <3>2, <3>3, <3>4
      <3>5. ASSUME NEW v, v = mVersion, NEW id, id = mRoot, NEW n, n = Len(q) PROVE Handled(r, n + 1, v, id)'
        <4>1. \A k \in 1..(n + 1) : k \in 1..n \/ k = n + 1
          BY <3>2, <3>5
        <4>2. \A k \in 1..n : k \in 1..(n + 1)
          BY <3>2, <3>5
        <4>3. ~ScreenOf(r[n + 1], v)
          BY <2>3, <3>2, <3>5 DEF ScreenOf
        <4>4. Handled(r, n, v, id)'
          BY <3>4, <3>5
        <4>. QED  BY <4>1, <4>2, <4>3, <4>4 DEF Handled
      <3>. QED  BY <1>3, <2>2, <2>4, <3>1, <3>2, <3>5 DEF Handled
    <2>. QED  BY <2>7, <2>8
  <1>4. CASE /\ ~(ReceiveFirstScreen \/ ReceiveAppReload \/ ReceiveEvent)
             /\ BeginReload /\ toBackground' = Append(q, AppReloadMsg(mVersion + 1))
    <2>1. PICK m \in BackgroundMessages : m = AppReloadMsg(mVersion + 1)
      BY <1>t, MessageTypes
    <2>2. m.type # "event" /\ phase' = "reload"
      BY <1>4, <2>1 DEF AppReloadMsg, BeginReload
    <2>. QED  BY <1>4, <1>a, <2>1, <2>2 DEF RootHandled
  <1>5. ASSUME ~(ReceiveFirstScreen \/ ReceiveAppReload \/ ReceiveEvent),
               UNCHANGED <<mVersion, mRoot>>, NEW m \in BackgroundMessages,
               m.type = "firstScreen", m.version = mVersion, m.id = mRoot,
               toBackground' = Append(q, m)
        PROVE  EventsHandled' /\ RootHandled'
    <2>1. EventsHandled'
      BY <1>5, <1>a
    <2>2. PICK r : r = Append(q, m)
      OBVIOUS
    <2>3. /\ Len(r) = Len(q) + 1 /\ r[Len(q) + 1] = m /\ Len(q) + 1 \in 1..Len(r)
      BY <1>q, <1>t, <2>2
    <2>4. \A k \in 1..Len(r) : ScreenOf(r[k], mVersion) => r[k].id = mRoot
      BY <1>5, <2>2 DEF ScreensNameRoot, ScreenOf, In
    <2>5. ScreenOf(r[Len(q) + 1], mVersion)
      BY <1>5, <2>3 DEF ScreenOf
    <2>. QED  BY <1>5, <2>1, <2>2, <2>3, <2>4, <2>5 DEF RootHandled, Handled
  <1>6. CASE ~(ReceiveFirstScreen \/ ReceiveAppReload \/ ReceiveEvent)
    BY <1>2, <1>3, <1>4, <1>5, <1>6, <1>q, MainSteps
  <1>. QED  BY <1>1, <1>6

\* No step misses a handler.
LEMMA NoneMissed ==
  ASSUME BaseInv, EventsHandled, [Next]_vars
  PROVE  missed' = missed
  <1>1. CASE ReceiveFirstScreen
    <2>1. PICK m : m = Head(toBackground)
      OBVIOUS
    <2>. QED  BY <1>1, <2>1, ReceiveHydrates
  <1>2. CASE RootRender
    BY <1>2, RenderHydrates
  <1>3. CASE ReceiveEvent
    <2>1. CASE ~direct
      BY <1>3, <2>1 DEF ReceiveEvent
    <2>2. CASE direct
      <3>1. TypeOK /\ VersionsInStep /\ DirectAfterRender /\ toBackground \in Seq(BackgroundMessages)
        BY DEF BaseInv, ReloadInv, PhaseInv, TypeOK
      <3>2. toBackground # <<>> /\ Head(toBackground).type = "event"
        BY <1>3 DEF ReceiveEvent
      <3>3. /\ Head(toBackground) = toBackground[1] /\ 0 \in 0..(Len(toBackground) - 1)
            /\ 0 + 1 = 1
        BY <3>1, <3>2
      <3>4. Ready(Head(toBackground).id)
        BY <2>2, <3>2, <3>3 DEF EventsHandled, Handled, Unhandled, Unhydrated
      <3>5. Head(toBackground).id \in bIds
        BY <2>2, <3>1, <3>4 DEF Ready, HydratedTo, WaitsFor, DirectAfterRender
      <3>. QED  BY <1>3, <2>2, <3>5 DEF ReceiveEvent
    <2>. QED  BY <2>1, <2>2
  <1>4. CASE ~(ReceiveFirstScreen \/ RootRender \/ ReceiveEvent)
    BY <1>4 DEF Next, Main, Background, ProcessData, BeginRender, EndRender, MarkOnMain, FireEvent,
         BeginReload, EndReload, ReceiveSyncReady, updateMainThread,
         ReceiveAppReload, Commit, TearDown, MarkOnBackground, vars
  <1>. QED  BY <1>1, <1>2, <1>3, <1>4

\* All of it, for the pages that are not reloaded before root.render.
HandlerInv == CoverInv /\ EventsHandled /\ RootHandled /\ missed = {}
EventInv == ReloadInv /\ ReplayInv /\ PhaseInv /\ (~app.earlyReload => HandlerInv)

LEMMA EventInductive == EventInv /\ [Next]_vars => EventInv'
  <1> SUFFICES ASSUME EventInv, [Next]_vars PROVE EventInv'
    OBVIOUS
  <1>1. ReloadInv' /\ ReplayInv'
    BY ReloadInductive, ReplayInductive DEF EventInv
  <1>2. TypeOK /\ VersionsInStep /\ BeforeHandover /\ PhaseInv /\ ReloadInv /\ ReplayInv
    BY DEF EventInv, ReloadInv
  <1>3. PhaseInv'
    BY <1>2, PhaseInductive
  <1>4. app' = app
    BY DEF Next, Main, Background, ProcessData, BeginRender, EndRender, MarkOnMain, FireEvent,
         BeginReload, EndReload, ReceiveSyncReady, updateMainThread, RootRender, ReceiveFirstScreen,
         ReceiveAppReload, ReceiveEvent, Commit, TearDown, MarkOnBackground, vars
  <1>5. ASSUME ~app.earlyReload PROVE HandlerInv'
    <2>1. CoverInv /\ EventsHandled /\ RootHandled /\ missed = {}
      BY <1>5 DEF EventInv, HandlerInv
    <2>2. CoverInv'
      BY <1>2, <1>5, <2>1, RenderedInductive, SwapCoversInductive, ScreensCoverInductive,
         DelayedCoverInductive DEF CoverInv
    <2>3. BaseInv /\ ScreensNameRoot'
      BY <1>1, <1>2, <2>1 DEF BaseInv, ReloadInv, SameLifeSameRoot
    <2>4. EventsHandled' /\ RootHandled'
      BY <2>1, <2>3, HandledInductive
    <2>5. missed' = missed
      BY <2>1, <2>3, NoneMissed
    <2>. QED  BY <2>1, <2>2, <2>4, <2>5 DEF HandlerInv
  <1>. QED  BY <1>1, <1>3, <1>4, <1>5 DEF EventInv

LEMMA EventInitial == Init => EventInv
  <1> SUFFICES ASSUME Init PROVE EventInv
    OBVIOUS
  <1>1. /\ toBackground = <<>> /\ toMain = <<>> /\ delayedScreens = <<>> /\ delayedEvents = <<>>
        /\ phase = "idle" /\ ~synced /\ ~marked /\ ~direct /\ mRoot = 0 /\ mVersion = 0
        /\ bTree = "none" /\ swap = {} /\ ~shown /\ missed = {}
    BY DEF Init
  <1>2. In(toBackground) = {} /\ In(toMain) = {} /\ In(delayedScreens) = {} /\ Len(toBackground) = 0
    BY <1>1, InEmpty
  <1>3. PhaseInv
    BY <1>1, <1>2 DEF PhaseInv, RenderingUnsynced, BeforeRoot, DirectAfterRender, JsReadyWaits,
                      VersionsAscend
  <1>4. CoverInv
    BY <1>1, <1>2 DEF CoverInv, RenderedBeforeReload, SwapCovers, ScreensCover, DelayedCover
  <1>5. EventsHandled /\ RootHandled
    BY <1>1, <1>2 DEF EventsHandled, RootHandled
  <1>. QED  BY <1>1, <1>3, <1>4, <1>5, ReloadInitial, ReplayInitial DEF EventInv, HandlerInv

\* Whatever updatePage replaced and whatever was reloaded after root.render, an event that
\* the background thread receives finds its handler, at once or when it is replayed.
THEOREM EventsReachHandlers == Spec => []EventsFindTheirHandler
  <1>1. EventInv => EventsFindTheirHandler
    BY DEF EventInv, HandlerInv, EventsFindTheirHandler
  <1>. QED  BY <1>1, EventInitial, EventInductive, PTL DEF Spec
=============================================================================
