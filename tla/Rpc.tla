---------------------------------- MODULE Rpc ----------------------------------
(***************************************************************************)
(* The calls between the two threads of a page of the web platform.  A     *)
(* side calls an endpoint of the other; the call waits in a queue until    *)
(* the side has its port, and in a cache until the other side has a        *)
(* handler.  The answer comes as a message that is named after the call.   *)
(* A side that makes a synchronous call is blocked until it is answered.   *)
(*                                                                         *)
(* The code is packages/web-platform/web-worker-rpc/src/Rpc.ts; the main   *)
(* side gets its port from startWebWorker, the background side is created  *)
(* with it.  The answer to call n of a side is named n here.               *)
(***************************************************************************)
EXTENDS Integers, Sequences, SequencesExt

CONSTANTS
  Main, Background,
  Endpoints,
  Returning,    \* endpoints with hasReturn
  Synchronous,  \* endpoints with isSync
  Served,       \* the endpoints that a side registers handlers for
  MaxCalls,     \* bound on the calls of a side
  MaxRemovals   \* bound on the handlers removed

Sides == {Main, Background}
Peer(s) == IF s = Main THEN Background ELSE Main

ASSUME ConstantsAssumption ==
  /\ Main # Background
  /\ Returning \subseteq Endpoints /\ Synchronous \subseteq Endpoints \ Returning
  /\ Served \in [Sides -> SUBSET Endpoints]
  /\ MaxCalls \in Nat /\ MaxRemovals \in Nat

ASSUME NamesAssumption == Endpoints \cap Int = {}

VARIABLES
  port,         \* does the side have its port?
  messageQueue, \* messages of a side that has none
  wire,         \* messages that a side has posted and the other has not received
  messageCache, \* messages without a handler, by name
  handlerMap,   \* names with a handler
  incId,        \* answers named so far
  running,      \* calls of the other side that are being handled
  blocked,      \* the synchronous call that the side waits for, or 0
  \* history and bounds
  made,         \* the endpoints a side has called, in order
  started,      \* its calls that were started on the other side, by endpoint
  promise,      \* what became of the calls that return
  removals

channelVars == <<port, messageQueue, wire>>
handlerVars == <<messageCache, handlerMap, running, started>>
callVars == <<incId, blocked, made, promise>>
vars == <<channelVars, handlerVars, callVars, removals>>

Answers == 0..MaxCalls - 1
NoAnswer == -1
Names == Endpoints \cup Answers
Messages == [name : Names, retId : Answers \cup {NoAnswer}, no : 0..MaxCalls, error : BOOLEAN]

Init ==
  /\ port = [s \in Sides |-> s = Background]
  /\ messageQueue = [s \in Sides |-> <<>>] /\ wire = [s \in Sides |-> <<>>]
  /\ messageCache = [s \in Sides |-> [n \in Names |-> <<>>]]
  /\ handlerMap = [s \in Sides |-> {}] /\ running = [s \in Sides |-> {}]
  /\ incId = [s \in Sides |-> 0] /\ blocked = [s \in Sides |-> 0]
  /\ made = [s \in Sides |-> <<>>] /\ started = [s \in Sides |-> [e \in Endpoints |-> <<>>]]
  /\ promise = [s \in Sides |-> [n \in Answers |-> "none"]] /\ removals = 0

-----------------------------------------------------------------------------
(* Sending *)

postMessage(s, m) ==
  IF port[s]
  THEN wire' = [wire EXCEPT ![s] = Append(@, m)] /\ UNCHANGED messageQueue
  ELSE messageQueue' = [messageQueue EXCEPT ![s] = Append(@, m)] /\ UNCHANGED wire

setMessagePort(s) ==
  /\ ~port[s] /\ blocked[s] = 0
  /\ port' = [port EXCEPT ![s] = TRUE]
  /\ wire' = [wire EXCEPT ![s] = @ \o messageQueue[s]]
  /\ messageQueue' = [messageQueue EXCEPT ![s] = <<>>]
  /\ UNCHANGED <<handlerVars, callVars, removals>>

Call(e, retId, no) == [name |-> e, retId |-> retId, no |-> no, error |-> FALSE]
Answer(retId, error) == [name |-> retId, retId |-> NoAnswer, no |-> 0, error |-> error]

NotRegistered(s, name) == handlerMap[s]
Registered(s, name) == handlerMap[s] \cup {name}

SameRetId(s) == incId[s]
NextRetId(s) == incId[s] + 1

\* The handler of the answer is registered before the call is posted.
invokeReturning(s, e, no) ==
  LET retId == incId[s]
  IN  /\ e \in Returning
      /\ incId' = [incId EXCEPT ![s] = NextRetId(s)]
      /\ handlerMap' = [handlerMap EXCEPT ![s] = Registered(s, retId)]
      /\ promise' = [promise EXCEPT ![s][retId] = "pending"]
      /\ postMessage(s, Call(e, retId, no))
      /\ UNCHANGED blocked

invokeVoid(s, e, no) ==
  /\ e \notin Returning
  /\ blocked' = [blocked EXCEPT ![s] = IF e \in Synchronous THEN no ELSE 0]
  /\ postMessage(s, Call(e, NoAnswer, no))
  /\ UNCHANGED <<incId, handlerMap, promise>>

invoke(s, e) ==
  /\ blocked[s] = 0 /\ Len(made[s]) < MaxCalls /\ e \in Served[Peer(s)]
  /\ made' = [made EXCEPT ![s] = Append(@, e)]
  /\ LET no == Len(made[s]) + 1 IN invokeReturning(s, e, no) \/ invokeVoid(s, e, no)
  /\ UNCHANGED <<port, messageCache, running, started, removals>>

-----------------------------------------------------------------------------
(* Receiving *)

\* The handlers of calls, all to the same endpoint, start at once and in order.
Start(s, name, calls) ==
  /\ running' = [running EXCEPT ![s] = @ \cup ToSet(calls)]
  /\ started' = [started EXCEPT ![Peer(s)][name] = @ \o [i \in DOMAIN calls |-> calls[i].no]]

\* What an answer does to the promise of its call.
Settled(m) == IF m.error THEN "rejected" ELSE "resolved"

\* onmessage with the first message on the wire
onMessage(s) ==
  /\ port[s] /\ blocked[s] = 0 /\ wire[Peer(s)] # <<>>
  /\ LET m == Head(wire[Peer(s)])
     IN  IF m.name \notin handlerMap[s]
         THEN /\ messageCache' = [messageCache EXCEPT ![s][m.name] = Append(@, m)]
              /\ UNCHANGED <<running, started, promise>>
         ELSE IF m.name \in Answers
         THEN /\ promise' = [promise EXCEPT ![s][m.name] = Settled(m)]
              /\ UNCHANGED <<messageCache, running, started>>
         ELSE Start(s, m.name, <<m>>) /\ UNCHANGED <<messageCache, promise>>
  /\ wire' = [wire EXCEPT ![Peer(s)] = Tail(@)]
  /\ UNCHANGED <<port, messageQueue, handlerMap, incId, blocked, made, removals>>

CacheKept(s, e) == messageCache
CacheEmptied(s, e) == [messageCache EXCEPT ![s][e] = <<>>]

registerHandler(s, e) ==
  /\ blocked[s] = 0 /\ e \in Served[s] \ handlerMap[s]
  /\ handlerMap' = [handlerMap EXCEPT ![s] = Registered(s, e)]
  /\ messageCache' = CacheEmptied(s, e)
  /\ Start(s, e, messageCache[s][e])
  /\ UNCHANGED <<channelVars, callVars, removals>>

removeHandler(s, e) ==
  /\ blocked[s] = 0 /\ e \in Served[s] \cap handlerMap[s] /\ removals < MaxRemovals
  /\ handlerMap' = [handlerMap EXCEPT ![s] = @ \ {e}]
  /\ removals' = removals + 1
  /\ UNCHANGED <<channelVars, callVars, messageCache, running, started>>

NeverAnswersErrors(m, error) == m.retId # NoAnswer /\ ~error
IsAnswered(m, error) == m.retId # NoAnswer

ReleasesUnlessError(m, error) == m.name \in Synchronous /\ ~error
ReleasesCaller(m, error) == m.name \in Synchronous

\* A handler has returned, or thrown, and onMessage goes on after its await.
HandlerEnds(s, m, error) ==
  /\ m \in running[s] /\ blocked[s] = 0
  /\ running' = [running EXCEPT ![s] = @ \ {m}]
  /\ IF IsAnswered(m, error) THEN postMessage(s, Answer(m.retId, error))
     ELSE UNCHANGED <<wire, messageQueue>>
  /\ blocked' = IF ReleasesCaller(m, error) THEN [blocked EXCEPT ![Peer(s)] = 0] ELSE blocked
  /\ UNCHANGED <<port, messageCache, handlerMap, started, incId, made, promise, removals>>

-----------------------------------------------------------------------------
Next ==
  \E s \in Sides :
    \/ setMessagePort(s) \/ onMessage(s)
    \/ \E e \in Endpoints : invoke(s, e) \/ registerHandler(s, e) \/ removeHandler(s, e)
    \/ \E m \in running[s], error \in BOOLEAN : HandlerEnds(s, m, error)

Spec == Init /\ [][Next]_vars

\* The main side gets its port, messages arrive, handlers are registered and end.
Fairness ==
  \A s \in Sides :
    /\ WF_vars(setMessagePort(s)) /\ WF_vars(onMessage(s))
    /\ \A e \in Endpoints : WF_vars(registerHandler(s, e))
    /\ WF_vars(\E m \in running[s], error \in BOOLEAN : HandlerEnds(s, m, error))

FairSpec == Spec /\ Fairness

-----------------------------------------------------------------------------
(* Properties *)

\* The queues hold messages, and the answers named so far are those with a promise.
TypeOK ==
  /\ port \in [Sides -> BOOLEAN]
  /\ messageQueue \in [Sides -> Seq(Messages)] /\ wire \in [Sides -> Seq(Messages)]
  /\ messageCache \in [Sides -> [Names -> Seq(Messages)]]
  /\ handlerMap \in [Sides -> SUBSET Names] /\ running \in [Sides -> SUBSET Messages]
  /\ incId \in [Sides -> 0..MaxCalls] /\ blocked \in [Sides -> 0..MaxCalls]
  /\ made \in [Sides -> Seq(Endpoints)] /\ started \in [Sides -> [Endpoints -> Seq(Nat)]]
  /\ promise \in [Sides -> [Answers -> {"none", "pending", "resolved", "rejected"}]]
  /\ \A s \in Sides : \A n \in Answers : promise[s][n] = "none" <=> n >= incId[s]
  /\ removals \in Nat

Numbers(messages) == [i \in DOMAIN messages |-> messages[i].no]

\* The calls to e are those that have arrived and those among the messages sent, each of
\* them once and all in the order of their numbers.
InOrder(arrived, sent, e, calls) ==
  LET next == {j \in DOMAIN sent : sent[j].name = e}
  IN  /\ \A i, j \in DOMAIN arrived : i < j => arrived[i] < arrived[j]
      /\ \A i, j \in next : i < j => sent[i].no < sent[j].no
      /\ \A i \in DOMAIN arrived, j \in next : arrived[i] < sent[j].no
      /\ calls = ToSet(arrived) \cup {sent[j].no : j \in next}

\* The calls of an endpoint are started once each and in the order in which they were made,
\* whenever the port is set and the handler registered, removed and registered again.
CallsInOrder ==
  \A s \in Sides : \A e \in Served[Peer(s)] :
    InOrder(started[s][e] \o Numbers(messageCache[Peer(s)][e]), wire[s] \o messageQueue[s],
            e, {n \in DOMAIN made[s] : made[s][n] = e})

\* An answer finds the handler of its call: none is put into the cache, where nothing would
\* ever take it out.
AnswersFindTheirCall == \A s \in Sides : \A n \in Answers : messageCache[s][n] = <<>>

\* Messages that s has sent and that are not yet handled.
Outstanding(s) ==
  LET cached == {messageCache[Peer(s)][n] : n \in Names}
  IN  (UNION {ToSet(q) : q \in {messageQueue[s], wire[s]} \cup cached}) \cup running[Peer(s)]

\* A call that returns is pending exactly as long as it, or its answer, is on its way: no
\* call is forgotten and none is answered twice.
PendingCallsAreOnTheirWay ==
  \A s \in Sides : \A n \in Answers :
    promise[s][n] = "pending" <=>
      \/ \E m \in Outstanding(s) : m.retId = n
      \/ \E m \in Outstanding(Peer(s)) : m.name = n

\* Every call that returns is answered in the end, with the error if its handler throws, and
\* a synchronous call of the background side lets it go on.
CallsEnd ==
  \A s \in Sides :
    /\ \A n \in Answers : (promise[s][n] = "pending") ~> (promise[s][n] \in {"resolved", "rejected"})
    /\ (blocked[s] # 0) ~> (blocked[s] = 0)
=============================================================================
