------------------------------- MODULE Rpc_proofs -------------------------------
(***************************************************************************)
(* Theorems about Rpc, for all endpoints and any number of calls.          *)
(***************************************************************************)
EXTENDS Rpc, SequenceTheorems, TLAPS

\* A message sent by s that fits: its answer is one that s waits for and, if it is an
\* answer itself, one that the other side waits for.
Fitting(s) ==
  {m \in Messages :
     /\ m.retId # NoAnswer => m.retId < incId[s]
     /\ m.name \in Answers => m.name < incId[Peer(s)]}

\* Every message on its way fits, wherever it is.
InFlight ==
  \A s \in Sides :
    /\ messageQueue[s] \in Seq(Fitting(s)) /\ wire[s] \in Seq(Fitting(s))
    /\ running[Peer(s)] \subseteq Fitting(s)
    /\ \A n \in Names : messageCache[Peer(s)][n] \in Seq(Fitting(s))

\* A side has a handler for every answer it waits for.
Awaited == \A s \in Sides : \A n \in Answers : n < incId[s] => n \in handlerMap[s]

\* Answers are named at most once for each call.
Counted == \A s \in Sides : incId[s] <= Len(made[s]) /\ Len(made[s]) <= MaxCalls

Inv == TypeOK /\ Counted /\ Awaited /\ InFlight /\ AnswersFindTheirCall

LEMMA Peers ==
  ASSUME NEW s \in Sides
  PROVE  /\ Peer(s) \in Sides /\ Peer(s) # s /\ Peer(Peer(s)) = s
         /\ \A t \in Sides : t = s \/ t = Peer(s)
  BY ConstantsAssumption DEF Sides, Peer

LEMMA NamesDiffer == \A e \in Endpoints : e \notin Answers /\ e # NoAnswer
  BY NamesAssumption DEF Answers, NoAnswer

LEMMA NumbersAreNaturals ==
  ASSUME NEW q \in Seq(Messages)
  PROVE  [i \in DOMAIN q |-> q[i].no] \in Seq(Nat)
<1>1. Len(q) \in Nat /\ DOMAIN q = 1..Len(q)
  OBVIOUS
<1>2. ASSUME NEW i \in 1..Len(q) PROVE q[i].no \in Nat
  <2>1. q[i] \in Messages
    OBVIOUS
  <2>2. \A m \in Messages : m.no \in Nat
    BY ConstantsAssumption DEF Messages
  <2>. QED
    BY <2>1, <2>2
<1>3. [i \in DOMAIN q |-> q[i].no] \in [1..Len(q) -> Nat]
  BY <1>1, <1>2
<1>. QED
  BY <1>1, <1>3, SeqDef

LEMMA EntriesOfSeq ==
  ASSUME NEW S, NEW q \in Seq(S)
  PROVE  ToSet(q) \subseteq S
  BY DEF ToSet

\* Posting a message that is in F keeps the channels in F, whatever F is.
LEMMA Posting ==
  ASSUME TypeOK, NEW s \in Sides, NEW F, NEW m \in F[s], postMessage(s, m),
         \A t \in Sides : messageQueue[t] \in Seq(F[t]) /\ wire[t] \in Seq(F[t])
  PROVE  \A t \in Sides : messageQueue'[t] \in Seq(F[t]) /\ wire'[t] \in Seq(F[t])
<1>1. Append(messageQueue[s], m) \in Seq(F[s]) /\ Append(wire[s], m) \in Seq(F[s])
  BY AppendProperties
<1>2. CASE port[s]
  BY <1>1, <1>2 DEF postMessage, TypeOK
<1>3. CASE ~port[s]
  BY <1>1, <1>3 DEF postMessage, TypeOK
<1>. QED
  BY <1>2, <1>3

LEMMA PostingType ==
  ASSUME TypeOK, NEW s \in Sides, NEW m \in Messages, postMessage(s, m)
  PROVE  messageQueue' \in [Sides -> Seq(Messages)] /\ wire' \in [Sides -> Seq(Messages)]
<1>1. messageQueue \in [Sides -> Seq(Messages)] /\ wire \in [Sides -> Seq(Messages)]
  BY DEF TypeOK
<1>2. Append(messageQueue[s], m) \in Seq(Messages) /\ Append(wire[s], m) \in Seq(Messages)
  BY <1>1, AppendProperties
<1>3. messageQueue' = messageQueue \/ messageQueue' = [messageQueue EXCEPT ![s] = Append(@, m)]
  BY DEF postMessage
<1>4. wire' = wire \/ wire' = [wire EXCEPT ![s] = Append(@, m)]
  BY DEF postMessage
<1>5. messageQueue' \in [Sides -> Seq(Messages)]
  BY <1>1, <1>2, <1>3
<1>6. wire' \in [Sides -> Seq(Messages)]
  BY <1>1, <1>2, <1>4
<1>. QED
  BY <1>5, <1>6

\* A message that fits goes on to do so.
LEMMA FittingGrows ==
  ASSUME TypeOK, TypeOK', NEW s \in Sides, \A t \in Sides : incId[t] <= incId'[t]
  PROVE  Fitting(s) \subseteq Fitting(s)' /\ Seq(Fitting(s)) \subseteq Seq(Fitting(s)')
<1>1. ASSUME NEW m \in Fitting(s) PROVE m \in Fitting(s)'
  <2>1. m \in Messages /\ Peer(s) \in Sides
    BY Peers DEF Fitting
  <2>2. m.retId \in Int
    BY <2>1 DEF Messages, Answers, NoAnswer
  <2>3. incId[s] \in Int /\ incId'[s] \in Int /\ incId[Peer(s)] \in Int /\ incId'[Peer(s)] \in Int
    BY <2>1 DEF TypeOK
  <2>4. incId[s] <= incId'[s] /\ incId[Peer(s)] <= incId'[Peer(s)]
    BY <2>1
  <2>5. m.retId # NoAnswer => m.retId < incId'[s]
    BY <2>2, <2>3, <2>4 DEF Fitting
  <2>6. m.name \in Answers => m.name < incId'[Peer(s)]
    BY <2>3, <2>4 DEF Fitting, Answers
  <2>. QED
    BY <2>1, <2>5, <2>6 DEF Fitting
<1>. QED
  BY <1>1, SeqMonotonic

LEMMA Initial == Init => Inv
<1> SUFFICES ASSUME Init PROVE Inv
  OBVIOUS
<1> USE DEF Init
<1>1. TypeOK
  BY ConstantsAssumption DEF TypeOK, Answers
<1>2. Counted /\ AnswersFindTheirCall
  BY ConstantsAssumption DEF Counted, AnswersFindTheirCall, Names
<1>3. Awaited
  BY DEF Awaited, Answers
<1>4. InFlight
  BY Peers DEF InFlight
<1>. QED
  BY <1>1, <1>2, <1>3, <1>4 DEF Inv

\* A message that fits is posted, and nothing else that matters changes.
LEMMA SamePosting ==
  ASSUME TypeOK, InFlight, NEW s \in Sides, NEW m \in Fitting(s), postMessage(s, m),
         UNCHANGED <<incId, messageCache>>,
         \A t \in Sides : running'[t] \subseteq running[t]
  PROVE  InFlight'
<1>. DEFINE F == [t \in Sides |-> Fitting(t)]
<1>1. \A t \in Sides : Fitting(t)' = F[t]
  BY DEF Fitting
<1>2. m \in F[s] /\ \A t \in Sides : messageQueue[t] \in Seq(F[t]) /\ wire[t] \in Seq(F[t])
  BY DEF InFlight
<1>3. \A t \in Sides : running'[Peer(t)] \subseteq F[t]
                         /\ \A n \in Names : messageCache'[Peer(t)][n] \in Seq(F[t])
  BY Peers DEF InFlight
<1>. HIDE DEF F
<1>4. \A t \in Sides : messageQueue'[t] \in Seq(F[t]) /\ wire'[t] \in Seq(F[t])
  BY <1>2, Posting
<1>. QED
  BY <1>1, <1>3, <1>4 DEF InFlight

-----------------------------------------------------------------------------
(* One lemma for each action *)

LEMMA PortStep ==
  ASSUME Inv, NEW s \in Sides, setMessagePort(s)
  PROVE  Inv'
<1> USE DEF Inv, setMessagePort, handlerVars, callVars
<1>1. wire[s] \o messageQueue[s] \in Seq(Messages) /\ wire[s] \o messageQueue[s] \in Seq(Fitting(s))
  BY ConcatProperties DEF TypeOK, InFlight
<1>2. TypeOK'
  BY <1>1 DEF TypeOK
<1>3. InFlight'
  <2>1. \A t \in Sides : Fitting(t)' = Fitting(t)
    BY DEF Fitting
  <2>2. ASSUME NEW t \in Sides
        PROVE  messageQueue'[t] \in Seq(Fitting(t)) /\ wire'[t] \in Seq(Fitting(t))
    BY <1>1 DEF TypeOK, InFlight
  <2>. QED
    BY <2>1, <2>2 DEF InFlight
<1>4. Counted' /\ Awaited' /\ AnswersFindTheirCall'
  BY DEF Counted, Awaited, AnswersFindTheirCall
<1>. QED
  BY <1>2, <1>3, <1>4

LEMMA InvokeStep ==
  ASSUME Inv, NEW s \in Sides, NEW e \in Endpoints, invoke(s, e)
  PROVE  Inv'
<1> DEFINE no == Len(made[s]) + 1
<1>1. no \in 1..MaxCalls /\ incId[s] \in Answers /\ incId[s] + 1 <= no
  BY ConstantsAssumption DEF Inv, TypeOK, Counted, invoke, Answers
<1>2. /\ made' \in [Sides -> Seq(Endpoints)] /\ Len(made'[s]) = no
      /\ \A t \in Sides : t # s => made'[t] = made[t]
  BY AppendProperties DEF Inv, TypeOK, invoke
<1>3. CASE invokeReturning(s, e, no)
  <2>1. /\ incId' = [incId EXCEPT ![s] = @ + 1]
        /\ handlerMap' = [handlerMap EXCEPT ![s] = @ \cup {incId[s]}]
        /\ promise' = [promise EXCEPT ![s][incId[s]] = "pending"]
        /\ UNCHANGED <<blocked, port, messageCache, running, started, removals>>
        /\ postMessage(s, Call(e, incId[s], no))
    BY <1>3 DEF invokeReturning, invoke, NextRetId, Registered
  <2>2. Call(e, incId[s], no) \in Messages
    BY <1>1 DEF Call, Messages, Names
  <2>3. messageQueue' \in [Sides -> Seq(Messages)] /\ wire' \in [Sides -> Seq(Messages)]
    BY <2>1, <2>2, PostingType DEF Inv
  <2>4. promise' \in [Sides -> [Answers -> {"none", "pending", "resolved", "rejected"}]]
    BY <1>1, <2>1, Zenon DEF Inv, TypeOK
  <2>5. ASSUME NEW t \in Sides, NEW n \in Answers
        PROVE  promise'[t][n] = "none" <=> n >= incId'[t]
    <3>1. promise[t][n] = "none" <=> n >= incId[t]
      BY DEF Inv, TypeOK
    <3>2. promise'[t][n] = IF t = s /\ n = incId[s] THEN "pending" ELSE promise[t][n]
      BY <1>1, <2>1, Zenon DEF Inv, TypeOK
    <3>3. incId'[t] = IF t = s THEN incId[s] + 1 ELSE incId[t]
      BY <2>1 DEF Inv, TypeOK
    <3>4. incId[s] \in Int /\ incId[t] \in Int /\ n \in Int
      BY DEF Inv, TypeOK, Answers
    <3>. QED
      BY <3>1, <3>2, <3>3, <3>4
  <2>a. incId' \in [Sides -> 0..MaxCalls]
    BY <1>1, <2>1, ConstantsAssumption DEF Inv, TypeOK, Answers
  <2>b. handlerMap' \in [Sides -> SUBSET Names]
    BY <1>1, <2>1 DEF Inv, TypeOK, Names
  <2>6. TypeOK'
    BY <1>2, <2>1, <2>3, <2>4, <2>5, <2>a, <2>b DEF Inv, TypeOK
  <2>c. Counted'
    <3>1. \A t \in Sides : incId'[t] = IF t = s THEN incId[s] + 1 ELSE incId[t]
      BY <2>1 DEF Inv, TypeOK
    <3>. QED
      BY <1>1, <1>2, <3>1 DEF Inv, Counted
  <2>d. Awaited'
    <3>1. \A t \in Sides : incId'[t] = IF t = s THEN incId[s] + 1 ELSE incId[t]
      BY <2>1 DEF Inv, TypeOK
    <3>2. \A t \in Sides : handlerMap'[t] = IF t = s THEN handlerMap[s] \cup {incId[s]} ELSE handlerMap[t]
      BY <2>1 DEF Inv, TypeOK
    <3>3. \A t \in Sides : incId[t] \in Int
      BY DEF Inv, TypeOK
    <3>. QED
      BY <3>1, <3>2, <3>3 DEF Inv, Awaited, Answers
  <2>7. Counted' /\ Awaited' /\ AnswersFindTheirCall'
    BY <2>1, <2>c, <2>d DEF Inv, AnswersFindTheirCall
  <2>8. InFlight'
    <3>. DEFINE F == [t \in Sides |-> Fitting(t)']
    <3>1. \A t \in Sides : incId[t] <= incId'[t]
      BY <1>1, <2>1 DEF Inv, TypeOK, Answers
    <3>2. \A t \in Sides : Fitting(t) \subseteq F[t] /\ Seq(Fitting(t)) \subseteq Seq(F[t])
      BY <2>6, <3>1, FittingGrows DEF Inv
    <3>3. Call(e, incId[s], no) \in F[s]
      BY <1>1, <2>1, <2>2, NamesDiffer DEF Fitting, Call, Inv, TypeOK, Answers
    <3>4. \A t \in Sides : messageQueue[t] \in Seq(F[t]) /\ wire[t] \in Seq(F[t])
      BY <3>2 DEF Inv, InFlight
    <3>. HIDE DEF F
    <3>5. \A t \in Sides : messageQueue'[t] \in Seq(F[t]) /\ wire'[t] \in Seq(F[t])
      BY <2>1, <3>3, <3>4, Posting DEF Inv
    <3>6. \A t \in Sides : running'[Peer(t)] \subseteq F[t]
                             /\ \A n \in Names : messageCache'[Peer(t)][n] \in Seq(F[t])
      BY <2>1, <3>2 DEF Inv, InFlight
    <3>. QED
      BY <3>5, <3>6 DEF InFlight, F
  <2>. QED
    BY <2>6, <2>7, <2>8 DEF Inv
<1>4. CASE invokeVoid(s, e, no)
  <2>1. /\ blocked' \in [Sides -> 0..MaxCalls]
        /\ UNCHANGED <<incId, handlerMap, promise, port, messageCache, running, started, removals>>
        /\ postMessage(s, Call(e, NoAnswer, no))
    BY <1>1, <1>4, ConstantsAssumption DEF invokeVoid, invoke, Inv, TypeOK
  <2>2. Call(e, NoAnswer, no) \in Fitting(s) /\ Call(e, NoAnswer, no) \in Messages
    BY <1>1, NamesDiffer DEF Call, Messages, Names, Fitting
  <2>3. messageQueue' \in [Sides -> Seq(Messages)] /\ wire' \in [Sides -> Seq(Messages)]
    BY <2>1, <2>2, PostingType DEF Inv
  <2>4. TypeOK'
    BY <1>2, <2>1, <2>3 DEF Inv, TypeOK
  <2>a. Counted'
    <3>1. incId[s] \in Int /\ incId'[s] = incId[s]
      BY <2>1 DEF Inv, TypeOK
    <3>2. incId'[s] <= Len(made'[s]) /\ Len(made'[s]) <= MaxCalls
      BY <1>1, <1>2, <3>1, ConstantsAssumption DEF Answers
    <3>. QED
      BY <1>2, <2>1, <3>2 DEF Inv, Counted
  <2>5. Counted' /\ Awaited' /\ AnswersFindTheirCall'
    BY <2>1, <2>a DEF Inv, Awaited, AnswersFindTheirCall
  <2>6. InFlight'
    BY <2>1, <2>2, SamePosting DEF Inv
  <2>. QED
    BY <2>4, <2>5, <2>6 DEF Inv
<1>. QED
  BY <1>3, <1>4 DEF invoke

\* Calls that fit are started, and nothing else changes in the handlers that run.
LEMMA Starting ==
  ASSUME TypeOK, NEW s \in Sides, NEW e \in Endpoints, NEW calls \in Seq(Messages),
         Start(s, e, calls), NEW S, calls \in Seq(S), running[s] \subseteq S
  PROVE  /\ running' \in [Sides -> SUBSET Messages]
         /\ started' \in [Sides -> [Endpoints -> Seq(Nat)]]
         /\ running'[s] \subseteq S /\ \A t \in Sides : t # s => running'[t] = running[t]
<1>1. ToSet(calls) \subseteq Messages /\ ToSet(calls) \subseteq S
  BY EntriesOfSeq
<1>2. running' = [running EXCEPT ![s] = @ \cup ToSet(calls)]
  BY DEF Start
<1>3. started[Peer(s)][e] \o [i \in DOMAIN calls |-> calls[i].no] \in Seq(Nat)
  BY NumbersAreNaturals, Peers, ConcatProperties DEF TypeOK
<1>4. started' \in [Sides -> [Endpoints -> Seq(Nat)]]
  BY <1>3, Peers DEF Start, TypeOK
<1>. QED
  BY <1>1, <1>2, <1>4 DEF TypeOK

LEMMA MessageStep ==
  ASSUME Inv, NEW s \in Sides, onMessage(s)
  PROVE  Inv'
<1> DEFINE p == Peer(s)
           m == Head(wire[p])
<1>1. p \in Sides /\ p # s /\ Peer(p) = s /\ \A t \in Sides : t = s \/ t = p
  BY Peers
<1>2. /\ wire[p] # <<>> /\ wire' = [wire EXCEPT ![p] = Tail(@)]
      /\ UNCHANGED <<port, messageQueue, handlerMap, incId, blocked, made, removals>>
  BY DEF onMessage
<1>3. m \in Messages /\ Tail(wire[p]) \in Seq(Messages)
  BY <1>1, <1>2, HeadTailProperties DEF Inv, TypeOK
<1>4. m \in Fitting(p) /\ Tail(wire[p]) \in Seq(Fitting(p))
  BY <1>1, <1>2, HeadTailProperties DEF Inv, InFlight
<1>5. \A t \in Sides : Fitting(t)' = Fitting(t)
  BY <1>2 DEF Fitting
<1>6. wire' \in [Sides -> Seq(Messages)] /\ \A t \in Sides : wire'[t] \in Seq(Fitting(t))
  BY <1>1, <1>2, <1>3, <1>4 DEF Inv, TypeOK, InFlight
<1>7. Counted' /\ Awaited'
  BY <1>2 DEF Inv, Counted, Awaited
<1>8. m.name \in Names
  BY <1>3 DEF Messages
<1>9. m.name \in Answers => m.name < incId[s] /\ m.name \in handlerMap[s]
  BY <1>1, <1>4 DEF Fitting, Inv, Awaited
<1>10. CASE m.name \notin handlerMap[s]
  <2>1. /\ messageCache' = [messageCache EXCEPT ![s][m.name] = Append(@, m)]
        /\ UNCHANGED <<running, started, promise>>
    BY <1>10 DEF onMessage
  <2>2. m.name \in Endpoints /\ m.name \notin Answers
    BY <1>8, <1>9, <1>10 DEF Names
  <2>3. /\ Append(messageCache[s][m.name], m) \in Seq(Messages)
        /\ Append(messageCache[s][m.name], m) \in Seq(Fitting(p))
    BY <1>1, <1>3, <1>4, <1>8, AppendProperties DEF Inv, TypeOK, InFlight
  <2>4. ASSUME NEW t \in Sides, NEW n \in Names
        PROVE  messageCache'[t][n] = IF t = s /\ n = m.name THEN Append(messageCache[s][m.name], m)
                                     ELSE messageCache[t][n]
    <3>1. messageCache \in [Sides -> [Names -> Seq(Messages)]]
      BY DEF Inv, TypeOK
    <3>. QED
      BY <1>8, <2>1, <3>1, Zenon
  <2>c. messageCache \in [Sides -> [Names -> Seq(Messages)]]
    BY DEF Inv, TypeOK
  <2>5. messageCache' \in [Sides -> [Names -> Seq(Messages)]]
    <3> DEFINE row == [messageCache[s] EXCEPT ![m.name] = Append(@, m)]
    <3>1. row \in [Names -> Seq(Messages)]
      BY <1>8, <2>3, <2>c, Zenon
    <3>2. messageCache' = [messageCache EXCEPT ![s] = row]
      BY <2>1, Zenon
    <3> HIDE DEF row
    <3>. QED
      BY <3>1, <3>2, <2>c, Zenon
  <2>6. TypeOK'
    BY <1>2, <1>6, <2>1, <2>5 DEF Inv, TypeOK
  <2>7. AnswersFindTheirCall'
    BY <2>2, <2>4, Zenon DEF Inv, AnswersFindTheirCall, Names
  <2>8. ASSUME NEW t \in Sides, NEW n \in Names
        PROVE  messageCache'[Peer(t)][n] \in Seq(Fitting(t))
    <3>1. Peer(t) \in Sides /\ (Peer(t) = s => t = p)
      BY Peers
    <3>2. messageCache[Peer(t)][n] \in Seq(Fitting(t))
      BY DEF Inv, InFlight
    <3>. QED
      BY <2>3, <2>4, <3>1, <3>2, Zenon
  <2>9. InFlight'
    BY <1>2, <1>5, <1>6, <2>1, <2>8 DEF Inv, InFlight
  <2>. QED
    BY <1>7, <2>6, <2>7, <2>9 DEF Inv
<1>11. CASE m.name \in handlerMap[s] /\ m.name \in Answers
  <2>1. /\ promise' = [promise EXCEPT ![s][m.name] = Settled(m)]
        /\ UNCHANGED <<messageCache, running, started>>
    BY <1>11 DEF onMessage
  <2>2. Settled(m) \in {"resolved", "rejected"}
    BY DEF Settled
  <2>3. promise' \in [Sides -> [Answers -> {"none", "pending", "resolved", "rejected"}]]
    BY <1>11, <2>1, <2>2, Zenon DEF Inv, TypeOK
  <2>4. ASSUME NEW t \in Sides, NEW n \in Answers
        PROVE  promise'[t][n] = "none" <=> n >= incId'[t]
    <3>1. promise'[t][n] = IF t = s /\ n = m.name THEN Settled(m) ELSE promise[t][n]
      BY <1>11, <2>1, Zenon DEF Inv, TypeOK
    <3>2. incId[t] \in Int /\ n \in Int /\ (promise[t][n] = "none" <=> n >= incId[t])
      BY DEF Inv, TypeOK, Answers
    <3>. QED
      BY <1>2, <1>9, <1>11, <2>2, <3>1, <3>2
  <2>5. TypeOK'
    BY <1>2, <1>6, <2>1, <2>3, <2>4 DEF Inv, TypeOK
  <2>6. InFlight' /\ AnswersFindTheirCall'
    BY <1>2, <1>5, <1>6, <2>1 DEF Inv, InFlight, AnswersFindTheirCall
  <2>. QED
    BY <1>7, <2>5, <2>6 DEF Inv
<1>12. CASE m.name \in handlerMap[s] /\ m.name \notin Answers
  <2>1. Start(s, m.name, <<m>>) /\ UNCHANGED <<messageCache, promise>>
    BY <1>12 DEF onMessage
  <2>2. m.name \in Endpoints
    BY <1>8, <1>12 DEF Names
  <2>3. <<m>> \in Seq(Messages) /\ <<m>> \in Seq(Fitting(p)) /\ running[s] \subseteq Fitting(p)
    BY <1>1, <1>3, <1>4 DEF Inv, InFlight
  <2>4. /\ running' \in [Sides -> SUBSET Messages]
        /\ started' \in [Sides -> [Endpoints -> Seq(Nat)]]
        /\ running'[s] \subseteq Fitting(p) /\ \A t \in Sides : t # s => running'[t] = running[t]
    BY <2>1, <2>2, <2>3, Starting DEF Inv
  <2>5. TypeOK'
    BY <1>2, <1>6, <2>1, <2>4 DEF Inv, TypeOK
  <2>6. \A t \in Sides : running'[Peer(t)] \subseteq Fitting(t)
    BY <1>1, <2>4, Peers DEF Inv, InFlight
  <2>7. InFlight' /\ AnswersFindTheirCall'
    BY <1>2, <1>5, <1>6, <2>1, <2>6 DEF Inv, InFlight, AnswersFindTheirCall
  <2>. QED
    BY <1>7, <2>5, <2>7 DEF Inv
<1>. QED
  BY <1>10, <1>11, <1>12

LEMMA RegisterStep ==
  ASSUME Inv, NEW s \in Sides, NEW e \in Endpoints, registerHandler(s, e)
  PROVE  Inv'
<1> DEFINE p == Peer(s)
<1>1. p \in Sides /\ p # s /\ Peer(p) = s /\ \A t \in Sides : t = s \/ t = p
  BY Peers
<1>2. e \in Names /\ e \notin Answers
  BY NamesDiffer DEF Names
<1>3. /\ handlerMap' = [handlerMap EXCEPT ![s] = @ \cup {e}]
      /\ messageCache' = [messageCache EXCEPT ![s][e] = <<>>]
      /\ Start(s, e, messageCache[s][e])
      /\ UNCHANGED <<channelVars, callVars, removals>>
  BY DEF registerHandler, Registered, CacheEmptied
<1>4. /\ messageCache[s][e] \in Seq(Messages) /\ messageCache[s][e] \in Seq(Fitting(p))
      /\ running[s] \subseteq Fitting(p)
  BY <1>1, <1>2 DEF Inv, TypeOK, InFlight
<1>5. /\ running' \in [Sides -> SUBSET Messages]
      /\ started' \in [Sides -> [Endpoints -> Seq(Nat)]]
      /\ running'[s] \subseteq Fitting(p) /\ \A t \in Sides : t # s => running'[t] = running[t]
  BY <1>3, <1>4, Starting DEF Inv
<1>6. messageCache' \in [Sides -> [Names -> Seq(Messages)]]
  BY <1>2, <1>3 DEF Inv, TypeOK
<1>7. \A t \in Sides, n \in Names :
        messageCache'[t][n] = IF t = s /\ n = e THEN <<>> ELSE messageCache[t][n]
  BY <1>2, <1>3, ZenonT(30) DEF Inv, TypeOK
<1>8. TypeOK'
  BY <1>2, <1>3, <1>5, <1>6 DEF Inv, TypeOK, channelVars, callVars
<1>9. Counted' /\ Awaited'
  BY <1>3 DEF Inv, TypeOK, Counted, Awaited, callVars
<1>10. AnswersFindTheirCall'
  BY <1>2, <1>7, Zenon DEF Inv, AnswersFindTheirCall, Names
<1>11. InFlight'
  <2>1. \A t \in Sides : Fitting(t)' = Fitting(t)
    BY <1>3 DEF Fitting, callVars
  <2>2. \A t \in Sides : running'[Peer(t)] \subseteq Fitting(t)
    BY <1>1, <1>5, Peers DEF Inv, InFlight
  <2>3. ASSUME NEW t \in Sides, NEW n \in Names
        PROVE  messageCache'[Peer(t)][n] \in Seq(Fitting(t))
    <3>1. messageCache[Peer(t)][n] \in Seq(Fitting(t)) /\ <<>> \in Seq(Fitting(t))
      BY DEF Inv, InFlight
    <3>2. messageCache'[Peer(t)][n] \in {<<>>, messageCache[Peer(t)][n]}
      BY <1>7, Peers
    <3>. QED
      BY <3>1, <3>2
  <2>. QED
    BY <1>3, <2>1, <2>2, <2>3 DEF Inv, InFlight, channelVars
<1>. QED
  BY <1>8, <1>9, <1>10, <1>11 DEF Inv

LEMMA RemoveStep ==
  ASSUME Inv, NEW s \in Sides, NEW e \in Endpoints, removeHandler(s, e)
  PROVE  Inv'
<1>1. /\ handlerMap' = [handlerMap EXCEPT ![s] = @ \ {e}] /\ removals' = removals + 1
      /\ UNCHANGED <<channelVars, callVars, messageCache, running, started>>
  BY DEF removeHandler
<1>2. TypeOK'
  BY <1>1 DEF Inv, TypeOK, channelVars, callVars
<1>3. Awaited'
  BY <1>1, NamesDiffer DEF Inv, TypeOK, Awaited, callVars
<1>4. Counted' /\ AnswersFindTheirCall'
  BY <1>1 DEF Inv, Counted, AnswersFindTheirCall, callVars
<1>5. InFlight'
  BY <1>1 DEF Inv, InFlight, Fitting, channelVars, callVars
<1>. QED
  BY <1>2, <1>3, <1>4, <1>5 DEF Inv

LEMMA HandlerEndsStep ==
  ASSUME Inv, NEW s \in Sides, NEW m \in running[s], NEW error \in BOOLEAN, HandlerEnds(s, m, error)
  PROVE  Inv'
<1>1. Peer(s) \in Sides /\ Peer(Peer(s)) = s
  BY Peers
<1>2. /\ running' = [running EXCEPT ![s] = @ \ {m}]
      /\ UNCHANGED <<port, messageCache, handlerMap, started, incId, made, promise, removals>>
  BY DEF HandlerEnds
<1>3. m \in Fitting(Peer(s)) /\ m \in Messages
  BY <1>1 DEF Inv, InFlight, Fitting
<1>4. running' \in [Sides -> SUBSET Messages] /\ \A t \in Sides : running'[t] \subseteq running[t]
  BY <1>2 DEF Inv, TypeOK
<1>5. blocked' \in [Sides -> 0..MaxCalls]
  BY <1>1, ConstantsAssumption DEF HandlerEnds, Inv, TypeOK
<1>6. Counted' /\ Awaited' /\ AnswersFindTheirCall'
  BY <1>2 DEF Inv, Counted, Awaited, AnswersFindTheirCall
<1>7. CASE m.retId # NoAnswer
  <2>1. postMessage(s, Answer(m.retId, error))
    BY <1>7 DEF HandlerEnds, IsAnswered
  <2>2. m.retId \in Answers /\ m.retId < incId[Peer(s)]
    BY <1>3, <1>7 DEF Fitting, Messages
  <2>3. Answer(m.retId, error) \in Messages
    BY <2>2, ConstantsAssumption DEF Answer, Messages, Names
  <2>4. Answer(m.retId, error) \in Fitting(s)
    BY <2>2, <2>3 DEF Answer, Fitting
  <2>5. messageQueue' \in [Sides -> Seq(Messages)] /\ wire' \in [Sides -> Seq(Messages)]
    BY <2>1, <2>3, PostingType DEF Inv
  <2>6. TypeOK'
    BY <1>2, <1>4, <1>5, <2>5 DEF Inv, TypeOK
  <2>7. InFlight'
    BY <1>2, <1>4, <2>1, <2>4, SamePosting DEF Inv
  <2>. QED
    BY <1>6, <2>6, <2>7 DEF Inv
<1>8. CASE m.retId = NoAnswer
  <2>1. UNCHANGED <<wire, messageQueue>>
    BY <1>8 DEF HandlerEnds, IsAnswered
  <2>2. TypeOK'
    BY <1>2, <1>4, <1>5, <2>1 DEF Inv, TypeOK
  <2>3. \A t \in Sides : Fitting(t)' = Fitting(t)
    BY <1>2 DEF Fitting
  <2>4. InFlight'
    BY <1>2, <1>4, <2>1, <2>3, Peers DEF Inv, InFlight
  <2>. QED
    BY <1>6, <2>2, <2>4 DEF Inv
<1>. QED
  BY <1>7, <1>8

-----------------------------------------------------------------------------
LEMMA Inductive == Inv /\ [Next]_vars => Inv'
<1> SUFFICES ASSUME Inv, [Next]_vars PROVE Inv'
  OBVIOUS
<1>1. CASE UNCHANGED vars
  BY <1>1 DEF vars, channelVars, handlerVars, callVars, Inv, TypeOK, Counted, Awaited, InFlight,
    Fitting, AnswersFindTheirCall
<1>2. ASSUME NEW s \in Sides, setMessagePort(s) PROVE Inv'
  BY <1>2, PortStep
<1>3. ASSUME NEW s \in Sides, onMessage(s) PROVE Inv'
  BY <1>3, MessageStep
<1>4. ASSUME NEW s \in Sides, NEW e \in Endpoints, invoke(s, e) PROVE Inv'
  BY <1>4, InvokeStep
<1>5. ASSUME NEW s \in Sides, NEW e \in Endpoints, registerHandler(s, e) PROVE Inv'
  BY <1>5, RegisterStep
<1>6. ASSUME NEW s \in Sides, NEW e \in Endpoints, removeHandler(s, e) PROVE Inv'
  BY <1>6, RemoveStep
<1>7. ASSUME NEW s \in Sides, NEW m \in running[s], NEW error \in BOOLEAN, HandlerEnds(s, m, error)
      PROVE  Inv'
  BY <1>7, HandlerEndsStep
<1>. QED
  BY <1>1, <1>2, <1>3, <1>4, <1>5, <1>6, <1>7 DEF Next

\* The queues of both sides hold messages, and the promises are those of the answers named.
THEOREM TypeCorrect == Spec => []TypeOK
<1>1. Inv => TypeOK
  BY DEF Inv
<1>. QED
  BY <1>1, Initial, Inductive, PTL DEF Spec

\* However calls, answers, ports and handlers interleave, an answer that arrives finds the
\* handler that was registered for it when the call was made (invoke, #onMessage).
THEOREM AnswersArrive == Spec => []AnswersFindTheirCall
<1>1. Inv => AnswersFindTheirCall
  BY DEF Inv
<1>. QED
  BY <1>1, Initial, Inductive, PTL DEF Spec

-----------------------------------------------------------------------------
(* The inductive invariant behind PendingCallsAreOnTheirWay: the answer to *)
(* a call is owed in one place at a time.                                  *)

\* What a side has sent, on the wire or waiting for its port.
Sent(s) == wire[s] \o messageQueue[s]

\* The answers that messages ask for or, as answers, are named after.
RetOf == [m \in Messages |-> m.retId]
NameOf == [m \in Messages |-> m.name]
Vals(q, F) == {F[q[i]] : i \in 1..Len(q)} \cap Answers
Once(q, F) == \A i, j \in 1..Len(q) : F[q[i]] = F[q[j]] /\ F[q[i]] \in Answers => i = j

\* The answers to s that wait for a call on its way, in a cache or running, or that are
\* on their way themselves.
Sending(s) == Vals(Sent(s), RetOf)
Cached(s) == [n \in Names |-> Vals(messageCache[Peer(s)][n], RetOf)]
Running(s) == {m.retId : m \in running[Peer(s)]} \cap Answers
Answered(s) == Vals(Sent(Peer(s)), NameOf)
Pending(s) == {n \in Answers : promise[s][n] = "pending"}

Apart(S, C, R, A, P) ==
  /\ S \cap R = {} /\ S \cap A = {} /\ R \cap A = {}
  /\ \A n \in Names : C[n] \cap S = {} /\ C[n] \cap R = {} /\ C[n] \cap A = {}
  /\ \A n1, n2 \in Names : n1 # n2 => C[n1] \cap C[n2] = {}
  /\ P = S \cup R \cup A \cup UNION {C[n] : n \in Names}

PortUsed == \A s \in Sides : port[s] => messageQueue[s] = <<>>
OneEach ==
  \A s \in Sides :
    /\ Once(Sent(s), RetOf) /\ Once(Sent(s), NameOf)
    /\ \A n \in Names : Once(messageCache[s][n], RetOf)
    /\ \A m1, m2 \in running[s] : m1.retId = m2.retId /\ m1.retId \in Answers => m1 = m2
AnswersAndCalls ==
  \A s \in Sides :
    /\ \A m \in ToSet(Sent(s)) : m.name \in Answers => m.retId = NoAnswer
    /\ \A m \in running[s] : m.name \notin Answers
    /\ \A n \in Names : \A m \in ToSet(messageCache[s][n]) : m.name \notin Answers
InOnePlace == \A s \in Sides : Apart(Sending(s), Cached(s), Running(s), Answered(s), Pending(s))

TokenInv == PortUsed /\ OneEach /\ AnswersAndCalls /\ InOnePlace

LEMMA ValsAppend ==
  ASSUME NEW q \in Seq(Messages), NEW m \in Messages, NEW F
  PROVE  /\ Vals(Append(q, m), F) = Vals(q, F) \cup ({F[m]} \cap Answers)
         /\ Once(q, F) /\ F[m] \notin Vals(q, F) => Once(Append(q, m), F)
<1> DEFINE r == Append(q, m)
           n == Len(q)
<1>1. n \in Nat /\ Len(r) = n + 1 /\ r[n + 1] = m /\ \A i \in 1..n : r[i] = q[i]
  OBVIOUS
<1>2. \A i \in 1..(n + 1) : i \in 1..n \/ i = n + 1
  BY <1>1
<1>3. \A i \in 1..n : i \in 1..(n + 1)
  BY <1>1
<1>4. n + 1 \in 1..(n + 1)
  BY <1>1
<1> HIDE DEF r, n
<1>5. Vals(r, F) = Vals(q, F) \cup ({F[m]} \cap Answers)
  BY <1>1, <1>2, <1>3, <1>4 DEF Vals, n
<1>6. ASSUME Once(q, F), F[m] \notin Vals(q, F) PROVE Once(r, F)
  <2> SUFFICES ASSUME NEW i \in 1..(n + 1), NEW j \in 1..(n + 1), F[r[i]] = F[r[j]], F[r[i]] \in Answers
               PROVE  i = j
    BY <1>1 DEF Once
  <2>1. \A k \in 1..n : F[q[k]] \in Answers => F[q[k]] # F[m]
    BY <1>6 DEF Vals, n
  <2>2. CASE i \in 1..n /\ j \in 1..n
    BY <1>1, <1>6, <2>2 DEF Once, n
  <2>3. CASE i \in 1..n /\ j = n + 1
    BY <1>1, <2>1, <2>3
  <2>4. CASE i = n + 1 /\ j \in 1..n
    BY <1>1, <2>1, <2>4
  <2>. QED
    BY <1>2, <2>2, <2>3, <2>4
<1>. QED
  BY <1>5, <1>6 DEF r

LEMMA ValsTail ==
  ASSUME NEW q \in Seq(Messages), q # <<>>, NEW F, Once(q, F)
  PROVE  /\ Vals(Tail(q), F) = Vals(q, F) \ {F[Head(q)]}
         /\ {F[Head(q)]} \cap Answers \subseteq Vals(q, F)
         /\ Once(Tail(q), F)
<1> DEFINE r == Tail(q)
<1>1. /\ Len(q) \in Nat \ {0} /\ Len(r) = Len(q) - 1 /\ Head(q) = q[1]
      /\ \A i \in 1..Len(r) : r[i] = q[i + 1]
  BY HeadTailProperties
<1>2. \A i \in 1..Len(r) : i + 1 \in 1..Len(q) /\ i + 1 # 1
  BY <1>1
<1>3. \A i \in 1..Len(q) : i = 1 \/ (i - 1 \in 1..Len(r) /\ r[i - 1] = q[i])
  BY <1>1
<1>4. 1 \in 1..Len(q)
  BY <1>1
<1> HIDE DEF r
<1>5. Once(r, F)
  <2> SUFFICES ASSUME NEW i \in 1..Len(r), NEW j \in 1..Len(r), F[r[i]] = F[r[j]], F[r[i]] \in Answers
               PROVE  i = j
    BY DEF Once
  <2>1. i + 1 = j + 1
    BY <1>1, <1>2 DEF Once
  <2>. QED
    BY <2>1
<1>6. ASSUME NEW v PROVE v \in Vals(r, F) <=> v \in Vals(q, F) /\ v # F[q[1]]
  <2>1. ASSUME v \in Vals(r, F) PROVE v \in Vals(q, F) /\ v # F[q[1]]
    <3>1. PICK i \in 1..Len(r) : v = F[r[i]] /\ v \in Answers
      BY <2>1 DEF Vals
    <3>2. v = F[q[i + 1]] /\ i + 1 \in 1..Len(q) /\ i + 1 # 1
      BY <1>1, <1>2, <3>1
    <3>3. v # F[q[1]]
      BY <1>4, <3>1, <3>2 DEF Once
    <3>. QED
      BY <3>1, <3>2, <3>3 DEF Vals
  <2>2. ASSUME v \in Vals(q, F), v # F[q[1]] PROVE v \in Vals(r, F)
    <3>1. PICK i \in 1..Len(q) : v = F[q[i]] /\ v \in Answers
      BY <2>2 DEF Vals
    <3>2. i - 1 \in 1..Len(r) /\ r[i - 1] = q[i]
      BY <1>3, <2>2, <3>1
    <3>. QED
      BY <3>1, <3>2 DEF Vals
  <2>. QED
    BY <2>1, <2>2
<1>7. {F[q[1]]} \cap Answers \subseteq Vals(q, F)
  BY <1>4 DEF Vals
<1>. QED
  BY <1>1, <1>5, <1>6, <1>7 DEF r

\* What is owed in one place may move to another, be added or be settled: a call is made.
LEMMA AddOwed ==
  ASSUME NEW S, NEW C \in [Names -> SUBSET Answers], NEW R, NEW A, NEW P, Apart(S, C, R, A, P),
         NEW X, X \cap P = {}
  PROVE  Apart(S \cup X, C, R, A, P \cup X)
BY DEF Apart

\* A call waits for its handler.
LEMMA OwedToCache ==
  ASSUME NEW S, NEW C \in [Names -> SUBSET Answers], NEW R, NEW A, NEW P, Apart(S, C, R, A, P),
         NEW X, X \subseteq S, NEW n \in Names
  PROVE  Apart(S \ X, [C EXCEPT ![n] = @ \cup X], R, A, P)
<1>0. /\ S \cap R = {} /\ S \cap A = {} /\ R \cap A = {}
      /\ \A n0 \in Names : C[n0] \cap S = {} /\ C[n0] \cap R = {} /\ C[n0] \cap A = {}
      /\ \A n1, n2 \in Names : n1 # n2 => C[n1] \cap C[n2] = {}
      /\ P = S \cup R \cup A \cup UNION {C[k] : k \in Names}
  BY DEF Apart
<1> DEFINE D == [C EXCEPT ![n] = @ \cup X]
<1>1. D[n] = C[n] \cup X /\ \A k \in Names : k # n => D[k] = C[k]
  OBVIOUS
<1> HIDE DEF D
<1>2. \A k \in Names : D[k] \cap (S \ X) = {} /\ D[k] \cap R = {} /\ D[k] \cap A = {}
  <2>1. ASSUME NEW k \in Names PROVE D[k] \cap (S \ X) = {} /\ D[k] \cap R = {} /\ D[k] \cap A = {}
    <3>1. CASE k = n
      BY <1>0, <1>1, <3>1
    <3>2. CASE k # n
      BY <1>0, <1>1, <3>2
    <3>. QED
      BY <3>1, <3>2
  <2>. QED
    BY <2>1
<1>3. \A n1, n2 \in Names : n1 # n2 => D[n1] \cap D[n2] = {}
  <2>1. ASSUME NEW n1 \in Names, NEW n2 \in Names, n1 # n2 PROVE D[n1] \cap D[n2] = {}
    <3>1. C[n1] \cap X = {} /\ C[n2] \cap X = {} /\ C[n1] \cap C[n2] = {}
      BY <1>0, <2>1
    <3>. QED
      BY <1>1, <2>1, <3>1
  <2>. QED
    BY <2>1
<1>4. UNION {D[k] : k \in Names} = X \cup UNION {C[k] : k \in Names}
  BY <1>1
<1>5. P = (S \ X) \cup R \cup A \cup UNION {D[k] : k \in Names}
  BY <1>0, <1>4
<1>. QED
  BY <1>0, <1>2, <1>3, <1>5 DEF Apart, D

\* A call is handled as it arrives.
LEMMA OwedToRunning ==
  ASSUME NEW S, NEW C \in [Names -> SUBSET Answers], NEW R, NEW A, NEW P, Apart(S, C, R, A, P),
         NEW X, X \subseteq S
  PROVE  Apart(S \ X, C, R \cup X, A, P)
BY DEF Apart

\* The calls that waited for a handler are handled.
LEMMA CacheToRunning ==
  ASSUME NEW S, NEW C \in [Names -> SUBSET Answers], NEW R, NEW A, NEW P, Apart(S, C, R, A, P),
         NEW n \in Names
  PROVE  Apart(S, [C EXCEPT ![n] = {}], R \cup C[n], A, P)
<1>0. /\ S \cap R = {} /\ S \cap A = {} /\ R \cap A = {}
      /\ \A n0 \in Names : C[n0] \cap S = {} /\ C[n0] \cap R = {} /\ C[n0] \cap A = {}
      /\ \A n1, n2 \in Names : n1 # n2 => C[n1] \cap C[n2] = {}
      /\ P = S \cup R \cup A \cup UNION {C[k] : k \in Names}
  BY DEF Apart
<1> DEFINE D == [C EXCEPT ![n] = {}]
<1>1. D[n] = {} /\ \A k \in Names : k # n => D[k] = C[k]
  OBVIOUS
<1> HIDE DEF D
<1>2. \A k \in Names : D[k] \cap S = {} /\ D[k] \cap (R \cup C[n]) = {} /\ D[k] \cap A = {}
  <2>1. ASSUME NEW k \in Names
        PROVE  D[k] \cap S = {} /\ D[k] \cap (R \cup C[n]) = {} /\ D[k] \cap A = {}
    <3>1. CASE k = n
      BY <1>1, <3>1
    <3>2. CASE k # n
      <4>1. D[k] = C[k] /\ C[k] \cap C[n] = {}
        BY <1>0, <1>1, <3>2
      <4>. QED
        BY <1>0, <4>1
    <3>. QED
      BY <3>1, <3>2
  <2>. QED
    BY <2>1
<1>3. \A n1, n2 \in Names : n1 # n2 => D[n1] \cap D[n2] = {}
  BY <1>0, <1>1
<1>4. UNION {C[k] : k \in Names} = C[n] \cup UNION {D[k] : k \in Names}
  BY <1>1
<1>5. P = S \cup (R \cup C[n]) \cup A \cup UNION {D[k] : k \in Names}
  BY <1>0, <1>4
<1>6. S \cap (R \cup C[n]) = {} /\ (R \cup C[n]) \cap A = {} /\ S \cap A = {}
  BY <1>0
<1>. QED
  BY <1>2, <1>3, <1>5, <1>6 DEF Apart, D

\* A handler ends.
LEMMA RunningToAnswer ==
  ASSUME NEW S, NEW C \in [Names -> SUBSET Answers], NEW R, NEW A, NEW P, Apart(S, C, R, A, P),
         NEW X, X \subseteq R
  PROVE  Apart(S, C, R \ X, A \cup X, P)
BY DEF Apart

\* The answer arrives.
LEMMA OwedSettled ==
  ASSUME NEW S, NEW C \in [Names -> SUBSET Answers], NEW R, NEW A, NEW P, Apart(S, C, R, A, P),
         NEW X, X \subseteq A
  PROVE  Apart(S, C, R, A \ X, P \ X)
BY DEF Apart

-----------------------------------------------------------------------------
LEMMA SentTypes ==
  ASSUME TypeOK, NEW s \in Sides
  PROVE  Sent(s) \in Seq(Messages)
BY ConcatProperties DEF TypeOK, Sent

\* Nothing moves when no message is sent, received or handled.
LEMMA TokenSame ==
  ASSUME TokenInv, PortUsed', \A t \in Sides : Sent(t)' = Sent(t),
         UNCHANGED <<messageCache, running, promise>>
  PROVE  TokenInv'
<1>1. OneEach'
  <2>1. OneEach
    BY DEF TokenInv
  <2>. QED
    BY <2>1 DEF OneEach, Once, RetOf, NameOf
<1>2. AnswersAndCalls'
  BY DEF TokenInv, AnswersAndCalls
<1>3. InOnePlace'
  <2>1. ASSUME NEW s \in Sides
        PROVE  /\ Sending(s)' = Sending(s) /\ Cached(s)' = Cached(s) /\ Running(s)' = Running(s)
               /\ Answered(s)' = Answered(s) /\ Pending(s)' = Pending(s)
    BY Peers DEF Sending, Cached, Running, Answered, Pending, Vals, RetOf, NameOf
  <2>. QED
    BY <2>1 DEF TokenInv, InOnePlace, Apart
<1>. QED
  BY <1>1, <1>2, <1>3 DEF TokenInv

\* A message that is sent comes last.
LEMMA SentPost ==
  ASSUME TypeOK, PortUsed, NEW s \in Sides, NEW m \in Messages, postMessage(s, m), port' = port
  PROVE  /\ Sent(s)' = Append(Sent(s), m) /\ \A t \in Sides : t # s => Sent(t)' = Sent(t)
         /\ PortUsed'
<1>t. wire \in [Sides -> Seq(Messages)] /\ messageQueue \in [Sides -> Seq(Messages)]
  BY DEF TypeOK
<1>1. CASE port[s]
  <2>1. /\ wire'[s] = Append(wire[s], m) /\ \A t \in Sides : t # s => wire'[t] = wire[t]
        /\ messageQueue' = messageQueue /\ messageQueue[s] = <<>>
    BY <1>1, <1>t DEF postMessage, PortUsed
  <2>2. \A q \in Seq(Messages) : q \o <<>> = q
    OBVIOUS
  <2>3. Append(wire[s], m) \in Seq(Messages)
    BY <1>t, AppendProperties
  <2>. QED
    BY <1>t, <2>1, <2>2, <2>3 DEF Sent, PortUsed
<1>2. CASE ~port[s]
  <2>1. /\ messageQueue'[s] = Append(messageQueue[s], m)
        /\ \A t \in Sides : t # s => messageQueue'[t] = messageQueue[t]
        /\ wire' = wire
    BY <1>2, <1>t DEF postMessage
  <2>2. wire[s] \o Append(messageQueue[s], m) = Append(wire[s] \o messageQueue[s], m)
    <3> DEFINE w == wire[s]
               q == messageQueue[s]
    <3>1. w \in Seq(Messages) /\ q \in Seq(Messages)
      BY <1>t
    <3> HIDE DEF w, q
    <3>2. w \o Append(q, m) = Append(w \o q, m)
      BY <3>1
    <3>. QED
      BY <3>2 DEF w, q
  <2>. QED
    BY <1>2, <2>1, <2>2 DEF Sent, PortUsed
<1>. QED
  BY <1>1, <1>2

\* What that means for the answers that are owed.
LEMMA Appended ==
  ASSUME TypeOK, TokenInv, NEW s \in Sides, NEW m \in Messages,
         Sent(s)' = Append(Sent(s), m), \A t \in Sides : t # s => Sent(t)' = Sent(t),
         {m.retId} \cap Sending(s) = {}, {m.name} \cap Answered(Peer(s)) = {},
         m.name \in Answers => m.retId = NoAnswer
  PROVE  /\ Sending(s)' = Sending(s) \cup ({m.retId} \cap Answers)
         /\ Sending(Peer(s))' = Sending(Peer(s))
         /\ Answered(Peer(s))' = Answered(Peer(s)) \cup ({m.name} \cap Answers)
         /\ Answered(s)' = Answered(s)
         /\ \A t \in Sides : Once(Sent(t)', RetOf) /\ Once(Sent(t)', NameOf)
         /\ \A t \in Sides : \A d \in ToSet(Sent(t)') : d.name \in Answers => d.retId = NoAnswer
<1>p. /\ Peer(s) \in Sides /\ Peer(s) # s /\ Peer(Peer(s)) = s
      /\ \A t \in Sides : t = s \/ t = Peer(s)
  BY Peers
<1>q. PICK q : q = Sent(s)
  OBVIOUS
<1>t. q \in Seq(Messages)
  BY <1>q, SentTypes
<1>f. RetOf[m] = m.retId /\ NameOf[m] = m.name
  BY DEF RetOf, NameOf
<1>1. /\ Vals(Append(q, m), RetOf) = Vals(q, RetOf) \cup ({RetOf[m]} \cap Answers)
      /\ Once(q, RetOf) /\ RetOf[m] \notin Vals(q, RetOf) => Once(Append(q, m), RetOf)
      /\ Vals(Append(q, m), NameOf) = Vals(q, NameOf) \cup ({NameOf[m]} \cap Answers)
      /\ Once(q, NameOf) /\ NameOf[m] \notin Vals(q, NameOf) => Once(Append(q, m), NameOf)
  BY <1>t, ValsAppend
<1>2. Sending(s) = Vals(q, RetOf) /\ Answered(Peer(s)) = Vals(q, NameOf)
  BY <1>p, <1>q DEF Sending, Answered
<1>3. PICK r : r = Append(q, m)
  OBVIOUS
<1>4. /\ Sending(s)' = Vals(r, RetOf) /\ Answered(Peer(s))' = Vals(r, NameOf)
      /\ Sending(Peer(s))' = Sending(Peer(s)) /\ Answered(s)' = Answered(s)
  BY <1>p, <1>q, <1>3 DEF Sending, Answered, Vals, RetOf, NameOf
<1>5. \A t \in Sides : Once(Sent(t), RetOf) /\ Once(Sent(t), NameOf)
  BY DEF TokenInv, OneEach
<1>6. Once(r, RetOf) /\ Once(r, NameOf)
  BY <1>1, <1>2, <1>3, <1>5, <1>f, <1>q
<1>7. \A t \in Sides : Sent(t)' = IF t = s THEN r ELSE Sent(t)
  BY <1>3, <1>q
<1>8. ToSet(r) = ToSet(q) \cup {m}
  <2>1. Len(r) = Len(q) + 1 /\ r[Len(q) + 1] = m /\ (\A i \in 1..Len(q) : r[i] = q[i]) /\ Len(q) \in Nat
        /\ DOMAIN q = 1..Len(q) /\ DOMAIN r = 1..Len(r)
    BY <1>3, <1>t
  <2>. QED
    BY <2>1 DEF ToSet
<1>9. \A t \in Sides : \A d \in ToSet(Sent(t)) : d.name \in Answers => d.retId = NoAnswer
  BY DEF TokenInv, AnswersAndCalls
<1>10. \A t \in Sides : \A d \in ToSet(Sent(t)') : d.name \in Answers => d.retId = NoAnswer
  BY <1>7, <1>8, <1>9, <1>q
<1>. QED
  BY <1>1, <1>2, <1>3, <1>4, <1>5, <1>6, <1>7, <1>10, <1>f

\* The same for a message that is taken off the wire.
LEMMA TakenOff ==
  ASSUME TypeOK, TokenInv, NEW s \in Sides, Sent(s) # <<>>, NEW m, m = Head(Sent(s)),
         Sent(s)' = Tail(Sent(s)), \A t \in Sides : t # s => Sent(t)' = Sent(t)
  PROVE  /\ Sending(s)' = Sending(s) \ {m.retId}
         /\ Sending(Peer(s))' = Sending(Peer(s))
         /\ Answered(Peer(s))' = Answered(Peer(s)) \ {m.name}
         /\ Answered(s)' = Answered(s)
         /\ {m.retId} \cap Answers \subseteq Sending(s)
         /\ {m.name} \cap Answers \subseteq Answered(Peer(s))
         /\ m.name \in Answers => m.retId = NoAnswer
         /\ \A t \in Sides : Once(Sent(t)', RetOf) /\ Once(Sent(t)', NameOf)
         /\ \A t \in Sides : \A d \in ToSet(Sent(t)') : d.name \in Answers => d.retId = NoAnswer
<1>p. /\ Peer(s) \in Sides /\ Peer(s) # s /\ Peer(Peer(s)) = s
      /\ \A t \in Sides : t = s \/ t = Peer(s)
  BY Peers
<1>q. PICK q : q = Sent(s)
  OBVIOUS
<1>t. q \in Seq(Messages) /\ q # <<>> /\ m = Head(q)
  BY <1>q, SentTypes
<1>m. m \in Messages
  BY <1>t
<1>f. RetOf[m] = m.retId /\ NameOf[m] = m.name
  BY <1>m DEF RetOf, NameOf
<1>5. \A t \in Sides : Once(Sent(t), RetOf) /\ Once(Sent(t), NameOf)
  BY DEF TokenInv, OneEach
<1>1. /\ Vals(Tail(q), RetOf) = Vals(q, RetOf) \ {RetOf[m]}
      /\ {RetOf[m]} \cap Answers \subseteq Vals(q, RetOf) /\ Once(Tail(q), RetOf)
      /\ Vals(Tail(q), NameOf) = Vals(q, NameOf) \ {NameOf[m]}
      /\ {NameOf[m]} \cap Answers \subseteq Vals(q, NameOf) /\ Once(Tail(q), NameOf)
  BY <1>t, <1>5, <1>q, ValsTail
<1>2. Sending(s) = Vals(q, RetOf) /\ Answered(Peer(s)) = Vals(q, NameOf)
  BY <1>p, <1>q DEF Sending, Answered
<1>3. PICK r : r = Tail(q)
  OBVIOUS
<1>4. /\ Sending(s)' = Vals(r, RetOf) /\ Answered(Peer(s))' = Vals(r, NameOf)
      /\ Sending(Peer(s))' = Sending(Peer(s)) /\ Answered(s)' = Answered(s)
  BY <1>p, <1>q, <1>3 DEF Sending, Answered, Vals, RetOf, NameOf
<1>7. \A t \in Sides : Sent(t)' = IF t = s THEN r ELSE Sent(t)
  BY <1>3, <1>q
<1>8. ToSet(r) \subseteq ToSet(q) /\ m \in ToSet(q)
  <2>1. /\ Len(q) \in Nat \ {0} /\ Len(r) = Len(q) - 1 /\ (\A i \in 1..Len(r) : r[i] = q[i + 1])
        /\ r \in Seq(Messages) /\ m = q[1]
    BY <1>3, <1>t, HeadTailProperties
  <2>2. /\ DOMAIN q = 1..Len(q) /\ DOMAIN r = 1..Len(r) /\ 1 \in 1..Len(q)
        /\ \A i \in 1..Len(r) : i + 1 \in 1..Len(q)
    BY <1>t, <2>1
  <2>. QED
    BY <2>1, <2>2 DEF ToSet
<1>9. \A t \in Sides : \A d \in ToSet(Sent(t)) : d.name \in Answers => d.retId = NoAnswer
  BY DEF TokenInv, AnswersAndCalls
<1>10. \A t \in Sides : \A d \in ToSet(Sent(t)') : d.name \in Answers => d.retId = NoAnswer
  BY <1>7, <1>8, <1>9, <1>q
<1>11. m.name \in Answers => m.retId = NoAnswer
  BY <1>8, <1>9, <1>q
<1>. QED
  BY <1>1, <1>2, <1>3, <1>4, <1>5, <1>7, <1>10, <1>11, <1>f

-----------------------------------------------------------------------------
LEMMA PlaceTypes ==
  ASSUME TypeOK, NEW s \in Sides
  PROVE  /\ Sending(s) \subseteq Answers /\ Running(s) \subseteq Answers /\ Answered(s) \subseteq Answers
         /\ Cached(s) \in [Names -> SUBSET Answers]
BY DEF Sending, Running, Answered, Cached, Vals

LEMMA TokenPort ==
  ASSUME TypeOK, TokenInv, NEW s \in Sides, setMessagePort(s)
  PROVE  TokenInv'
<1>t. wire \in [Sides -> Seq(Messages)] /\ messageQueue \in [Sides -> Seq(Messages)]
  BY DEF TypeOK
<1>1. /\ wire'[s] = wire[s] \o messageQueue[s] /\ messageQueue'[s] = <<>>
      /\ \A t \in Sides : t # s => wire'[t] = wire[t] /\ messageQueue'[t] = messageQueue[t]
      /\ \A t \in Sides : t # s => port'[t] = port[t]
      /\ UNCHANGED <<messageCache, running, promise>>
  BY <1>t DEF setMessagePort, TypeOK, handlerVars, callVars
<1>2. Sent(s)' = Sent(s)
  <2>1. \A q \in Seq(Messages) : q \o <<>> = q
    OBVIOUS
  <2>2. wire[s] \o messageQueue[s] \in Seq(Messages)
    BY <1>t, ConcatProperties
  <2>. QED
    BY <1>1, <2>1, <2>2 DEF Sent
<1>3. \A t \in Sides : Sent(t)' = Sent(t)
  BY <1>1, <1>2 DEF Sent
<1>4. PortUsed'
  BY <1>1 DEF PortUsed, TokenInv
<1>. QED
  BY <1>1, <1>3, <1>4, TokenSame

LEMMA TokenInvoke ==
  ASSUME Inv, Inv', TokenInv, NEW s \in Sides, NEW e \in Endpoints, invoke(s, e)
  PROVE  TokenInv'
<1>p. /\ Peer(s) \in Sides /\ Peer(s) # s /\ Peer(Peer(s)) = s
      /\ \A t \in Sides : t = s \/ t = Peer(s)
  BY Peers
<1>t. /\ TypeOK /\ PortUsed /\ promise \in [Sides -> [Answers -> {"none", "pending", "resolved", "rejected"}]]
      /\ incId[s] \in Nat /\ incId \in [Sides -> 0..MaxCalls]
      /\ \A n \in Answers : promise[s][n] = "none" <=> n >= incId[s]
  <2>1. TypeOK /\ PortUsed
    BY DEF Inv, TokenInv
  <2>2. promise \in [Sides -> [Answers -> {"none", "pending", "resolved", "rejected"}]]
    BY <2>1 DEF TypeOK
  <2>3. incId \in [Sides -> 0..MaxCalls]
    BY <2>1 DEF TypeOK
  <2>4. incId[s] \in Nat
    BY <2>3, ConstantsAssumption
  <2>5. \A n \in Answers : promise[s][n] = "none" <=> n >= incId[s]
    BY <2>1 DEF TypeOK
  <2>. QED
    BY <2>1, <2>2, <2>3, <2>4, <2>5
<1> DEFINE no == Len(made[s]) + 1
<1>n. no \in 1..MaxCalls /\ incId[s] \in Answers
  BY ConstantsAssumption DEF Inv, TypeOK, Counted, invoke, Answers
<1>0. UNCHANGED <<port, messageCache, running>>
  BY DEF invoke
<1>a. \A t \in Sides : Apart(Sending(t), Cached(t), Running(t), Answered(t), Pending(t))
  BY DEF TokenInv, InOnePlace
<1>c. \A t \in Sides : Cached(t)' = Cached(t) /\ Running(t)' = Running(t)
  BY <1>0 DEF Cached, Running, Vals, RetOf
<1>1. PICK X \in SUBSET Answers, m \in Messages :
        /\ postMessage(s, m) /\ m.name \notin Answers /\ {m.retId} \cap Answers = X
        /\ X \cap Pending(s) = {} /\ {m.retId} \cap Sending(s) = {}
        /\ Pending(s)' = Pending(s) \cup X /\ Pending(Peer(s))' = Pending(Peer(s))
  <2>1. CASE invokeReturning(s, e, no)
    <3> DEFINE n == incId[s]
    <3>m. PICK m : m = Call(e, n, no)
      OBVIOUS
    <3>1. /\ m \in Messages /\ m.name = e /\ m.retId = n /\ e \notin Answers
      BY <1>n, <3>m, NamesDiffer DEF Call, Messages, Names
    <3>2. postMessage(s, m) /\ promise' = [promise EXCEPT ![s][n] = "pending"]
      BY <2>1, <3>m DEF invokeReturning
    <3>3. n \notin Pending(s)
      BY <1>n, <1>t DEF Pending
    <3>4. n \notin Sending(s)
      BY <1>a, <3>3 DEF Apart
    <3>5. \A t \in Sides, k \in Answers : promise'[t][k] = IF t = s /\ k = n THEN "pending" ELSE promise[t][k]
      BY <1>n, <1>t, <3>2, ZenonT(30)
    <3>6. Pending(s)' = Pending(s) \cup {n} /\ Pending(Peer(s))' = Pending(Peer(s))
      BY <1>n, <1>p, <3>5 DEF Pending
    <3>. QED
      BY <1>n, <3>1, <3>2, <3>3, <3>4, <3>6
  <2>2. CASE invokeVoid(s, e, no)
    <3>m. PICK m : m = Call(e, NoAnswer, no)
      OBVIOUS
    <3>1. /\ m \in Messages /\ m.name = e /\ m.retId = NoAnswer /\ e \notin Answers
      BY <1>n, <3>m, NamesDiffer DEF Call, Messages, Names
    <3>2. NoAnswer \notin Answers
      BY DEF Answers, NoAnswer
    <3>3. postMessage(s, m) /\ promise' = promise
      BY <2>2, <3>m DEF invokeVoid
    <3>4. Sending(s) \subseteq Answers
      BY <1>t, PlaceTypes
    <3>5. \A t \in Sides : Pending(t)' = Pending(t)
      BY <3>3 DEF Pending
    <3>6. /\ {m.retId} \cap Answers = {} /\ {m.retId} \cap Sending(s) = {}
          /\ Pending(s)' = Pending(s) \cup {} /\ Pending(Peer(s))' = Pending(Peer(s))
      BY <1>p, <3>1, <3>2, <3>4, <3>5
    <3>7. {} \in SUBSET Answers /\ {} \cap Pending(s) = {}
      OBVIOUS
    <3>. QED
      BY <3>1, <3>3, <3>6, <3>7
  <2>. QED
    BY <2>1, <2>2 DEF invoke
<1>2. /\ Sent(s)' = Append(Sent(s), m) /\ \A t \in Sides : t # s => Sent(t)' = Sent(t)
      /\ PortUsed'
  BY <1>0, <1>1, <1>t, SentPost
<1>3. {m.name} \cap Answered(Peer(s)) = {}
  BY <1>1, <1>p, <1>t, PlaceTypes
<1>4. /\ Sending(s)' = Sending(s) \cup X
      /\ Sending(Peer(s))' = Sending(Peer(s))
      /\ Answered(Peer(s))' = Answered(Peer(s))
      /\ Answered(s)' = Answered(s)
      /\ \A t \in Sides : Once(Sent(t)', RetOf) /\ Once(Sent(t)', NameOf)
      /\ \A t \in Sides : \A d \in ToSet(Sent(t)') : d.name \in Answers => d.retId = NoAnswer
  <2>1. /\ Sending(s)' = Sending(s) \cup ({m.retId} \cap Answers)
        /\ Sending(Peer(s))' = Sending(Peer(s))
        /\ Answered(Peer(s))' = Answered(Peer(s)) \cup ({m.name} \cap Answers)
        /\ Answered(s)' = Answered(s)
        /\ \A t \in Sides : Once(Sent(t)', RetOf) /\ Once(Sent(t)', NameOf)
        /\ \A t \in Sides : \A d \in ToSet(Sent(t)') : d.name \in Answers => d.retId = NoAnswer
    BY <1>1, <1>2, <1>3, <1>t, Appended
  <2>2. {m.retId} \cap Answers = X /\ {m.name} \cap Answers = {}
    BY <1>1
  <2>3. Answered(Peer(s))' = Answered(Peer(s))
    BY <2>1, <2>2
  <2>. QED
    BY <2>1, <2>2, <2>3
<1>5. Apart(Sending(s)', Cached(s)', Running(s)', Answered(s)', Pending(s)')
  <2>1. Apart(Sending(s) \cup X, Cached(s), Running(s), Answered(s), Pending(s) \cup X)
    BY <1>1, <1>a, <1>t, PlaceTypes, AddOwed
  <2>. QED
    BY <1>1, <1>4, <1>c, <2>1
<1>6. Apart(Sending(Peer(s))', Cached(Peer(s))', Running(Peer(s))', Answered(Peer(s))', Pending(Peer(s))')
  BY <1>1, <1>4, <1>a, <1>c, <1>p
<1>7. \A t \in Sides : Apart(Sending(t)', Cached(t)', Running(t)', Answered(t)', Pending(t)')
  BY <1>5, <1>6, <1>p
<1>8. InOnePlace'
  BY <1>7 DEF InOnePlace, Apart
<1>9. OneEach' /\ AnswersAndCalls'
  BY <1>0, <1>4 DEF TokenInv, OneEach, AnswersAndCalls, Once, RetOf, NameOf
<1>. QED
  BY <1>2, <1>8, <1>9 DEF TokenInv

LEMMA TokenMessage ==
  ASSUME Inv, TokenInv, NEW s \in Sides, onMessage(s)
  PROVE  TokenInv'
<1>q. PICK p : p = Peer(s)
  OBVIOUS
<1>p. p \in Sides /\ p # s /\ Peer(p) = s /\ \A t \in Sides : t = s \/ t = p
  BY <1>q, Peers
<1>m. PICK m : m = Head(wire[p])
  OBVIOUS
<1>t. /\ TypeOK /\ PortUsed /\ wire \in [Sides -> Seq(Messages)] /\ messageQueue \in [Sides -> Seq(Messages)]
      /\ messageCache \in [Sides -> [Names -> Seq(Messages)]] /\ running \in [Sides -> SUBSET Messages]
      /\ promise \in [Sides -> [Answers -> {"none", "pending", "resolved", "rejected"}]]
  BY DEF Inv, TypeOK, TokenInv
<1>0. /\ wire[p] # <<>> /\ wire' = [wire EXCEPT ![p] = Tail(@)]
      /\ UNCHANGED <<port, messageQueue>>
  BY <1>q DEF onMessage
<1>1. m \in Messages /\ m.name \in Names
  <2>1. wire[p] \in Seq(Messages) /\ wire[p] # <<>>
    BY <1>0, <1>p, <1>t
  <2>2. m \in Messages
    BY <1>m, <2>1
  <2>. QED
    BY <2>2 DEF Messages
<1>2. /\ Sent(p) # <<>> /\ m = Head(Sent(p)) /\ Sent(p)' = Tail(Sent(p))
      /\ \A t \in Sides : t # p => Sent(t)' = Sent(t)
  <2> DEFINE w == wire[p]
             u == messageQueue[p]
  <2>1. w \in Seq(Messages) /\ u \in Seq(Messages) /\ w # <<>>
    BY <1>0, <1>p, <1>t
  <2>2. wire'[p] = Tail(w) /\ messageQueue'[p] = u
        /\ \A t \in Sides : t # p => wire'[t] = wire[t] /\ messageQueue'[t] = messageQueue[t]
    BY <1>0, <1>p, <1>t
  <2> HIDE DEF w, u
  <2>3. w \o u # <<>> /\ Head(w \o u) = Head(w)
    BY <2>1
  <2>4. Tail(w \o u) = Tail(w) \o u
    BY <2>1
  <2>. QED
    BY <1>m, <2>2, <2>3, <2>4 DEF Sent, w, u
<1>3. PortUsed'
  BY <1>0, <1>t DEF PortUsed
<1>a. \A t \in Sides : Apart(Sending(t), Cached(t), Running(t), Answered(t), Pending(t))
  BY DEF TokenInv, InOnePlace
<1>y. /\ Sending(p) \subseteq Answers /\ Answered(s) \subseteq Answers
      /\ \A t \in Sides : Cached(t) \in [Names -> SUBSET Answers]
      /\ NoAnswer \notin Answers
  BY <1>p, <1>t, PlaceTypes DEF Answers, NoAnswer
<1>4. /\ Sending(p)' = Sending(p) \ {m.retId}
      /\ Sending(s)' = Sending(s)
      /\ Answered(s)' = Answered(s) \ {m.name}
      /\ Answered(p)' = Answered(p)
      /\ {m.retId} \cap Answers \subseteq Sending(p)
      /\ {m.name} \cap Answers \subseteq Answered(s)
      /\ m.name \in Answers => m.retId = NoAnswer
      /\ \A t \in Sides : Once(Sent(t)', RetOf) /\ Once(Sent(t)', NameOf)
      /\ \A t \in Sides : \A d \in ToSet(Sent(t)') : d.name \in Answers => d.retId = NoAnswer
  BY <1>2, <1>p, <1>t, TakenOff
<1>x. PICK X \in SUBSET Answers : X = {m.retId} \cap Answers
  OBVIOUS
<1>5. Sending(p)' = Sending(p) \ X /\ X \subseteq Sending(p)
      /\ (m.name \notin Answers => Answered(s)' = Answered(s))
      /\ (m.name \in Answers => X = {} /\ Sending(p)' = Sending(p))
  BY <1>4, <1>x, <1>y
<1>o. /\ \A t \in Sides, n \in Names : Once(messageCache[t][n], RetOf)
      /\ \A t \in Sides : \A m1, m2 \in running[t] : m1.retId = m2.retId /\ m1.retId \in Answers => m1 = m2
      /\ \A t \in Sides : \A d \in running[t] : d.name \notin Answers
      /\ \A t \in Sides, n \in Names : \A d \in ToSet(messageCache[t][n]) : d.name \notin Answers
  BY DEF TokenInv, OneEach, AnswersAndCalls
<1>z. ASSUME \A t \in Sides : Apart(Sending(t)', Cached(t)', Running(t)', Answered(t)', Pending(t)'),
             \A t \in Sides, n \in Names : Once(messageCache'[t][n], RetOf),
             \A t \in Sides : \A m1, m2 \in running'[t] : m1.retId = m2.retId /\ m1.retId \in Answers => m1 = m2,
             \A t \in Sides : \A d \in running'[t] : d.name \notin Answers,
             \A t \in Sides, n \in Names : \A d \in ToSet(messageCache'[t][n]) : d.name \notin Answers
      PROVE  TokenInv'
  <2>1. InOnePlace'
    BY <1>z DEF InOnePlace, Apart
  <2>2. OneEach'
    BY <1>4, <1>z DEF OneEach, Once, RetOf, NameOf
  <2>3. AnswersAndCalls'
    BY <1>4, <1>z DEF AnswersAndCalls
  <2>. QED
    BY <1>3, <2>1, <2>2, <2>3 DEF TokenInv
<1>10. CASE m.name \notin handlerMap[s]
  <2>1. /\ messageCache' = [messageCache EXCEPT ![s][m.name] = Append(@, m)]
        /\ UNCHANGED <<running, promise>>
    BY <1>10, <1>m, <1>q DEF onMessage
  <2>2. m.name \notin Answers
    <3>1. m \in Fitting(p)
      BY <1>0, <1>m, <1>p DEF Inv, InFlight
    <3>. QED
      BY <1>10, <1>p, <3>1 DEF Inv, Awaited, Fitting
  <2>3. \A t \in Sides, n \in Names :
          messageCache'[t][n] = IF t = s /\ n = m.name THEN Append(messageCache[s][m.name], m)
                                ELSE messageCache[t][n]
    BY <1>1, <1>t, <2>1, ZenonT(30)
  <2>c. PICK c : c = messageCache[s][m.name]
    OBVIOUS
  <2>4. /\ c \in Seq(Messages) /\ Once(c, RetOf) /\ RetOf[m] = m.retId
        /\ Vals(c, RetOf) = Cached(p)[m.name]
    BY <1>1, <1>o, <1>p, <1>t, <2>c DEF RetOf, Cached
  <2>5. m.retId \notin Cached(p)[m.name]
    <3>1. Cached(p)[m.name] \cap Sending(p) = {} /\ Cached(p)[m.name] \subseteq Answers
      BY <1>1, <1>a, <1>p, <1>y DEF Apart
    <3>. QED
      BY <1>5, <1>x, <3>1
  <2>6. Vals(Append(c, m), RetOf) = Cached(p)[m.name] \cup X /\ Once(Append(c, m), RetOf)
    BY <1>1, <1>x, <2>4, <2>5, ValsAppend
  <2>7. ToSet(Append(c, m)) = ToSet(c) \cup {m}
    <3>1. PICK r : r = Append(c, m)
      OBVIOUS
    <3>2. Len(r) = Len(c) + 1 /\ r[Len(c) + 1] = m /\ (\A i \in 1..Len(c) : r[i] = c[i]) /\ Len(c) \in Nat
          /\ DOMAIN c = 1..Len(c) /\ DOMAIN r = 1..Len(r)
      BY <1>1, <2>4, <3>1
    <3>. QED
      BY <3>1, <3>2 DEF ToSet
  <2>8. Cached(p)' = [Cached(p) EXCEPT ![m.name] = @ \cup X]
    <3>1. \A n \in Names : Vals(messageCache'[s][n], RetOf)
            = IF n = m.name THEN Cached(p)[m.name] \cup X ELSE Cached(p)[n]
      BY <1>1, <1>p, <2>3, <2>6, <2>c DEF Cached
    <3>2. Cached(p)' = [n \in Names |-> Vals(messageCache'[s][n], RetOf)]
      BY <1>p DEF Cached, Vals, RetOf
    <3>. QED
      BY <1>y, <1>p, <3>1, <3>2
  <2>9. Cached(s)' = Cached(s)
    <3>1. \A n \in Names : messageCache'[p][n] = messageCache[p][n]
      BY <1>p, <2>3
    <3>. QED
      BY <1>q, <3>1 DEF Cached, Vals, RetOf
  <2>10. \A t \in Sides : Running(t)' = Running(t) /\ Pending(t)' = Pending(t)
    BY <2>1 DEF Running, Pending
  <2>11. Apart(Sending(p)', Cached(p)', Running(p)', Answered(p)', Pending(p)')
    <3>1. Apart(Sending(p) \ X, [Cached(p) EXCEPT ![m.name] = @ \cup X], Running(p), Answered(p), Pending(p))
      BY <1>1, <1>5, <1>a, <1>p, <1>y, OwedToCache
    <3>. QED
      BY <1>4, <1>5, <1>p, <2>8, <2>10, <3>1
  <2>12. Apart(Sending(s)', Cached(s)', Running(s)', Answered(s)', Pending(s)')
    BY <1>4, <1>5, <1>a, <2>2, <2>9, <2>10
  <2>13. \A t \in Sides : Apart(Sending(t)', Cached(t)', Running(t)', Answered(t)', Pending(t)')
    BY <1>p, <2>11, <2>12
  <2>14. \A t \in Sides, n \in Names : /\ Once(messageCache'[t][n], RetOf)
                                       /\ \A d \in ToSet(messageCache'[t][n]) : d.name \notin Answers
    BY <1>1, <1>o, <2>2, <2>3, <2>6, <2>7, <2>c
  <2>. QED
    BY <1>o, <1>z, <2>1, <2>13, <2>14
<1>11. CASE m.name \in handlerMap[s] /\ m.name \in Answers
  <2>1. /\ promise' = [promise EXCEPT ![s][m.name] = Settled(m)]
        /\ UNCHANGED <<messageCache, running>>
    BY <1>11, <1>m, <1>q DEF onMessage
  <2>2. \A t \in Sides : Cached(t)' = Cached(t) /\ Running(t)' = Running(t)
    BY <2>1 DEF Cached, Running, Vals, RetOf
  <2>3. \A t \in Sides, n \in Answers : promise'[t][n] = IF t = s /\ n = m.name THEN Settled(m) ELSE promise[t][n]
    BY <1>11, <1>t, <2>1, ZenonT(30)
  <2>4. Pending(s)' = Pending(s) \ {m.name} /\ Pending(p)' = Pending(p)
    BY <1>p, <2>3 DEF Pending, Settled
  <2>5. Apart(Sending(s)', Cached(s)', Running(s)', Answered(s)', Pending(s)')
    <3>1. {m.name} \subseteq Answered(s)
      BY <1>4, <1>11
    <3>2. Apart(Sending(s), Cached(s), Running(s), Answered(s) \ {m.name}, Pending(s) \ {m.name})
      BY <1>a, <1>y, <3>1, OwedSettled
    <3>. QED
      BY <1>4, <2>2, <2>4, <3>2
  <2>6. Apart(Sending(p)', Cached(p)', Running(p)', Answered(p)', Pending(p)')
    BY <1>4, <1>5, <1>11, <1>a, <1>p, <2>2, <2>4
  <2>7. \A t \in Sides : Apart(Sending(t)', Cached(t)', Running(t)', Answered(t)', Pending(t)')
    BY <1>p, <2>5, <2>6
  <2>. QED
    BY <1>o, <1>z, <2>1, <2>7
<1>12. CASE m.name \in handlerMap[s] /\ m.name \notin Answers
  <2>1. Start(s, m.name, <<m>>) /\ UNCHANGED <<messageCache, promise>>
    BY <1>12, <1>m, <1>q DEF onMessage
  <2>2. running'[s] = running[s] \cup {m} /\ running'[p] = running[p]
    <3>1. ToSet(<<m>>) = {m}
      BY DEF ToSet
    <3>. QED
      BY <1>p, <1>t, <2>1, <3>1 DEF Start
  <2>3. \A t \in Sides : Cached(t)' = Cached(t) /\ Pending(t)' = Pending(t)
    BY <2>1 DEF Cached, Vals, RetOf, Pending
  <2>4. Running(p) = {d.retId : d \in running[s]} \cap Answers
    BY <1>p DEF Running
  <2>5. Running(p)' = Running(p) \cup X
    BY <1>p, <1>x, <2>2 DEF Running
  <2>6. Running(s)' = Running(s)
    BY <1>q, <2>2 DEF Running
  <2>7. Running(p) \cap Sending(p) = {}
    BY <1>a, <1>p DEF Apart
  <2>8. Apart(Sending(p)', Cached(p)', Running(p)', Answered(p)', Pending(p)')
    <3>1. Apart(Sending(p) \ X, Cached(p), Running(p) \cup X, Answered(p), Pending(p))
      BY <1>5, <1>a, <1>p, <1>y, OwedToRunning
    <3>. QED
      BY <1>4, <1>5, <1>p, <2>3, <2>5, <3>1
  <2>9. Apart(Sending(s)', Cached(s)', Running(s)', Answered(s)', Pending(s)')
    BY <1>4, <1>5, <1>12, <1>a, <2>3, <2>6
  <2>10. \A t \in Sides : Apart(Sending(t)', Cached(t)', Running(t)', Answered(t)', Pending(t)')
    BY <1>p, <2>8, <2>9
  <2>11. \A t \in Sides : \A m1, m2 \in running'[t] : m1.retId = m2.retId /\ m1.retId \in Answers => m1 = m2
    <3>1. \A d \in running[s] : d.retId \in Answers => d.retId # m.retId
      BY <1>5, <1>x, <2>4, <2>7
    <3>2. ASSUME NEW m1 \in running'[s], NEW m2 \in running'[s], m1.retId = m2.retId, m1.retId \in Answers
          PROVE  m1 = m2
      BY <1>o, <2>2, <3>1, <3>2
    <3>. QED
      BY <1>o, <1>p, <2>2, <3>2
  <2>12. \A t \in Sides : \A d \in running'[t] : d.name \notin Answers
    BY <1>12, <1>o, <1>p, <2>2
  <2>. QED
    BY <1>o, <1>z, <2>1, <2>10, <2>11, <2>12
<1>. QED
  BY <1>10, <1>11, <1>12

-----------------------------------------------------------------------------
LEMMA TokenRegister ==
  ASSUME Inv, TokenInv, NEW s \in Sides, NEW e \in Endpoints, registerHandler(s, e)
  PROVE  TokenInv'
<1>q. PICK p : p = Peer(s)
  OBVIOUS
<1>p. p \in Sides /\ p # s /\ Peer(p) = s /\ \A t \in Sides : t = s \/ t = p
  BY <1>q, Peers
<1>t. /\ TypeOK /\ e \in Names
      /\ messageCache \in [Sides -> [Names -> Seq(Messages)]] /\ running \in [Sides -> SUBSET Messages]
  BY DEF Inv, TypeOK, Names
<1>c. PICK c : c = messageCache[s][e]
  OBVIOUS
<1>0. /\ messageCache' = [messageCache EXCEPT ![s][e] = <<>>]
      /\ running' = [running EXCEPT ![s] = @ \cup ToSet(c)]
      /\ UNCHANGED <<port, messageQueue, wire, promise>>
  BY <1>c DEF registerHandler, CacheEmptied, Start, channelVars, callVars
<1>1. /\ running'[s] = running[s] \cup ToSet(c) /\ running'[p] = running[p]
      /\ \A t \in Sides, n \in Names :
           messageCache'[t][n] = IF t = s /\ n = e THEN <<>> ELSE messageCache[t][n]
  BY <1>0, <1>p, <1>t, ZenonT(30)
<1>2. c \in Seq(Messages) /\ ToSet(c) = {c[i] : i \in 1..Len(c)} /\ \A i \in 1..Len(c) : c[i] \in Messages
  BY <1>c, <1>t DEF ToSet
<1>3. \A t \in Sides : Sent(t)' = Sent(t) /\ Pending(t)' = Pending(t)
  BY <1>0 DEF Sent, Pending
<1>4. \A t \in Sides : Sending(t)' = Sending(t) /\ Answered(t)' = Answered(t)
  BY <1>3, Peers DEF Sending, Answered, Vals, RetOf, NameOf
<1>a. \A t \in Sides : Apart(Sending(t), Cached(t), Running(t), Answered(t), Pending(t))
  BY DEF TokenInv, InOnePlace
<1>o. /\ \A t \in Sides, n \in Names : Once(messageCache[t][n], RetOf)
      /\ \A t \in Sides : \A m1, m2 \in running[t] : m1.retId = m2.retId /\ m1.retId \in Answers => m1 = m2
      /\ \A t \in Sides : \A d \in running[t] : d.name \notin Answers
      /\ \A t \in Sides, n \in Names : \A d \in ToSet(messageCache[t][n]) : d.name \notin Answers
  BY DEF TokenInv, OneEach, AnswersAndCalls
<1>5. Cached(p)[e] = {c[i].retId : i \in 1..Len(c)} \cap Answers
  BY <1>2, <1>c, <1>p, <1>t DEF Cached, Vals, RetOf
<1>6. Running(p)' = Running(p) \cup Cached(p)[e]
  <2>1. Running(p) = {d.retId : d \in running[s]} \cap Answers
        /\ Running(p)' = {d.retId : d \in running'[s]} \cap Answers
    BY <1>p DEF Running
  <2>. QED
    BY <1>1, <1>2, <1>5, <2>1
<1>7. Running(s)' = Running(s)
  BY <1>1, <1>q DEF Running
<1>8. Cached(p)' = [Cached(p) EXCEPT ![e] = {}]
  <2>1. Cached(p)' = [n \in Names |-> Vals(messageCache'[s][n], RetOf)]
    BY <1>p DEF Cached, Vals, RetOf
  <2>2. Cached(p) = [n \in Names |-> Vals(messageCache[s][n], RetOf)]
    BY <1>p DEF Cached
  <2>3. Vals(<<>>, RetOf) = {}
    BY DEF Vals
  <2>4. \A n \in Names : Vals(messageCache'[s][n], RetOf) = IF n = e THEN {} ELSE Vals(messageCache[s][n], RetOf)
    BY <1>1, <2>3
  <2>. QED
    BY <2>1, <2>2, <2>4
<1>9. Cached(s)' = Cached(s)
  <2>1. \A n \in Names : messageCache'[p][n] = messageCache[p][n]
    BY <1>1, <1>p
  <2>. QED
    BY <1>q, <2>1 DEF Cached, Vals, RetOf
<1>10. Apart(Sending(p)', Cached(p)', Running(p)', Answered(p)', Pending(p)')
  <2>1. Cached(p) \in [Names -> SUBSET Answers]
    BY <1>p, <1>t, PlaceTypes
  <2>2. Apart(Sending(p), [Cached(p) EXCEPT ![e] = {}], Running(p) \cup Cached(p)[e], Answered(p), Pending(p))
    BY <1>a, <1>p, <1>t, <2>1, CacheToRunning
  <2>. QED
    BY <1>3, <1>4, <1>6, <1>8, <1>p, <2>2
<1>11. Apart(Sending(s)', Cached(s)', Running(s)', Answered(s)', Pending(s)')
  BY <1>3, <1>4, <1>7, <1>9, <1>a
<1>12. \A t \in Sides : Apart(Sending(t)', Cached(t)', Running(t)', Answered(t)', Pending(t)')
  BY <1>10, <1>11, <1>p
<1>13. InOnePlace'
  BY <1>12 DEF InOnePlace, Apart
<1>14. \A t \in Sides : \A m1, m2 \in running'[t] : m1.retId = m2.retId /\ m1.retId \in Answers => m1 = m2
  <2>1. Running(p) \cap Cached(p)[e] = {}
    BY <1>a, <1>p, <1>t DEF Apart
  <2>2. \A d \in running[s], i \in 1..Len(c) : d.retId = c[i].retId => d.retId \notin Answers
    BY <1>5, <1>p, <2>1 DEF Running
  <2>3. \A i, j \in 1..Len(c) : c[i].retId = c[j].retId /\ c[i].retId \in Answers => i = j
    <3>1. Once(c, RetOf)
      BY <1>c, <1>o, <1>t
    <3>. QED
      BY <1>2, <3>1 DEF Once, RetOf
  <2>4. ASSUME NEW m1 \in running'[s], NEW m2 \in running'[s], m1.retId = m2.retId, m1.retId \in Answers
        PROVE  m1 = m2
    <3>1. CASE m1 \in running[s] /\ m2 \in running[s]
      BY <1>o, <2>4, <3>1
    <3>2. CASE m1 \in ToSet(c) /\ m2 \in ToSet(c)
      BY <1>2, <2>3, <2>4, <3>2
    <3>3. CASE m1 \in running[s] /\ m2 \in ToSet(c)
      BY <1>2, <2>2, <2>4, <3>3
    <3>4. CASE m1 \in ToSet(c) /\ m2 \in running[s]
      BY <1>2, <2>2, <2>4, <3>4
    <3>. QED
      BY <1>1, <3>1, <3>2, <3>3, <3>4
  <2>. QED
    BY <1>1, <1>o, <1>p, <2>4
<1>15. \A t \in Sides, n \in Names : Once(messageCache'[t][n], RetOf)
  BY <1>1, <1>o DEF Once
<1>16. OneEach'
  <2>1. \A t \in Sides : Once(Sent(t)', RetOf) /\ Once(Sent(t)', NameOf)
    BY <1>3 DEF TokenInv, OneEach
  <2>. QED
    BY <1>14, <1>15, <2>1 DEF OneEach, Once, RetOf, NameOf
<1>17. AnswersAndCalls'
  <2>1. \A t \in Sides : \A d \in running'[t] : d.name \notin Answers
    BY <1>1, <1>c, <1>o, <1>p, <1>t
  <2>2. \A t \in Sides, n \in Names : \A d \in ToSet(messageCache'[t][n]) : d.name \notin Answers
    <3>1. ToSet(<<>>) = {}
      BY DEF ToSet
    <3>. QED
      BY <1>1, <1>o, <3>1
  <2>3. \A t \in Sides : \A d \in ToSet(Sent(t)') : d.name \in Answers => d.retId = NoAnswer
    BY <1>3 DEF TokenInv, AnswersAndCalls
  <2>. QED
    BY <2>1, <2>2, <2>3 DEF AnswersAndCalls
<1>18. PortUsed'
  BY <1>0 DEF TokenInv, PortUsed
<1>. QED
  BY <1>13, <1>16, <1>17, <1>18 DEF TokenInv

LEMMA TokenHandlerEnds ==
  ASSUME Inv, TokenInv, NEW s \in Sides, NEW m \in running[s], NEW error \in BOOLEAN, HandlerEnds(s, m, error)
  PROVE  TokenInv'
<1>q. PICK p : p = Peer(s)
  OBVIOUS
<1>p. p \in Sides /\ p # s /\ Peer(p) = s /\ \A t \in Sides : t = s \/ t = p
  BY <1>q, Peers
<1>t. TypeOK /\ PortUsed /\ running \in [Sides -> SUBSET Messages] /\ m \in Messages
  BY DEF Inv, TypeOK, TokenInv
<1>0. /\ running'[s] = running[s] \ {m} /\ running'[p] = running[p]
      /\ UNCHANGED <<port, messageCache, promise>>
  BY <1>p, <1>t DEF HandlerEnds
<1>a. \A t \in Sides : Apart(Sending(t), Cached(t), Running(t), Answered(t), Pending(t))
  BY DEF TokenInv, InOnePlace
<1>y. /\ \A t \in Sides : /\ Cached(t) \in [Names -> SUBSET Answers]
                          /\ Sending(t) \subseteq Answers /\ Answered(t) \subseteq Answers
      /\ NoAnswer \notin Answers
  BY <1>t, PlaceTypes DEF Answers, NoAnswer
<1>o. /\ \A t \in Sides : \A m1, m2 \in running[t] : m1.retId = m2.retId /\ m1.retId \in Answers => m1 = m2
      /\ \A t \in Sides : \A d \in running[t] : d.name \notin Answers
  BY DEF TokenInv, OneEach, AnswersAndCalls
<1>c. \A t \in Sides : Cached(t)' = Cached(t) /\ Pending(t)' = Pending(t)
  BY <1>0 DEF Cached, Vals, RetOf, Pending
<1>1. Running(p) = {d.retId : d \in running[s]} \cap Answers
      /\ Running(p)' = {d.retId : d \in running'[s]} \cap Answers
  BY <1>p DEF Running
<1>2. Running(s)' = Running(s)
  BY <1>0, <1>q DEF Running
<1>3. Running(p)' = Running(p) \ {m.retId}
  <2>1. \A d \in running[s] : d.retId = m.retId /\ d.retId \in Answers => d = m
    BY <1>o
  <2>. QED
    BY <1>0, <1>1, <2>1
<1>z. ASSUME \A t \in Sides : Apart(Sending(t)', Cached(t)', Running(t)', Answered(t)', Pending(t)'),
             \A t \in Sides : Once(Sent(t)', RetOf) /\ Once(Sent(t)', NameOf),
             \A t \in Sides : \A d \in ToSet(Sent(t)') : d.name \in Answers => d.retId = NoAnswer,
             PortUsed'
      PROVE  TokenInv'
  <2>1. InOnePlace'
    BY <1>z DEF InOnePlace, Apart
  <2>2. \A t \in Sides : running'[t] \subseteq running[t]
    BY <1>0, <1>p
  <2>3. OneEach'
    BY <1>0, <1>z, <2>2 DEF TokenInv, OneEach, Once, RetOf, NameOf
  <2>4. AnswersAndCalls'
    BY <1>0, <1>z, <2>2 DEF TokenInv, AnswersAndCalls
  <2>. QED
    BY <1>z, <2>1, <2>3, <2>4 DEF TokenInv
<1>4. CASE m.retId # NoAnswer
  <2>1. m.retId \in Answers /\ m.retId \in Running(p)
    BY <1>1, <1>4, <1>t DEF Messages
  <2>2. PICK d : d = Answer(m.retId, error)
    OBVIOUS
  <2>3. d \in Messages /\ d.name = m.retId /\ d.retId = NoAnswer
    BY <2>1, <2>2, ConstantsAssumption DEF Answer, Messages, Names
  <2>4. postMessage(s, d)
    BY <1>4, <2>2 DEF HandlerEnds, IsAnswered
  <2>5. /\ Sent(s)' = Append(Sent(s), d) /\ \A t \in Sides : t # s => Sent(t)' = Sent(t)
        /\ PortUsed'
    BY <1>0, <1>t, <2>3, <2>4, SentPost
  <2>6. {d.retId} \cap Sending(s) = {} /\ {d.name} \cap Answered(p) = {}
    <3>1. Running(p) \cap Answered(p) = {}
      BY <1>a, <1>p DEF Apart
    <3>. QED
      BY <1>y, <2>1, <2>3, <3>1
  <2>7. /\ Sending(s)' = Sending(s) \cup ({d.retId} \cap Answers)
        /\ Sending(p)' = Sending(p)
        /\ Answered(p)' = Answered(p) \cup ({d.name} \cap Answers)
        /\ Answered(s)' = Answered(s)
        /\ \A t \in Sides : Once(Sent(t)', RetOf) /\ Once(Sent(t)', NameOf)
        /\ \A t \in Sides : \A d2 \in ToSet(Sent(t)') : d2.name \in Answers => d2.retId = NoAnswer
    BY <1>q, <1>t, <2>3, <2>5, <2>6, Appended
  <2>8. Sending(s)' = Sending(s) /\ Answered(p)' = Answered(p) \cup {m.retId}
    BY <1>y, <2>1, <2>3, <2>7
  <2>9. Apart(Sending(p)', Cached(p)', Running(p)', Answered(p)', Pending(p)')
    <3>1. {m.retId} \subseteq Running(p)
      BY <2>1
    <3>2. Apart(Sending(p), Cached(p), Running(p) \ {m.retId}, Answered(p) \cup {m.retId}, Pending(p))
      BY <1>a, <1>p, <1>y, <3>1, RunningToAnswer
    <3>. QED
      BY <1>3, <1>c, <1>p, <2>7, <2>8, <3>2
  <2>10. Apart(Sending(s)', Cached(s)', Running(s)', Answered(s)', Pending(s)')
    BY <1>2, <1>a, <1>c, <2>7, <2>8
  <2>11. \A t \in Sides : Apart(Sending(t)', Cached(t)', Running(t)', Answered(t)', Pending(t)')
    BY <1>p, <2>9, <2>10
  <2>. QED
    BY <1>z, <2>5, <2>7, <2>11
<1>5. CASE m.retId = NoAnswer
  <2>1. UNCHANGED <<wire, messageQueue>>
    BY <1>5 DEF HandlerEnds, IsAnswered
  <2>2. \A t \in Sides : Sent(t)' = Sent(t)
    BY <2>1 DEF Sent
  <2>3. \A t \in Sides : Sending(t)' = Sending(t) /\ Answered(t)' = Answered(t)
    BY <2>2, Peers DEF Sending, Answered, Vals, RetOf, NameOf
  <2>4. Running(p)' = Running(p)
    BY <1>1, <1>3, <1>5, <1>y
  <2>5. \A t \in Sides : Apart(Sending(t)', Cached(t)', Running(t)', Answered(t)', Pending(t)')
    BY <1>2, <1>a, <1>c, <1>p, <2>3, <2>4
  <2>6. PortUsed'
    BY <1>0, <2>1 DEF TokenInv, PortUsed
  <2>7. /\ \A t \in Sides : Once(Sent(t)', RetOf) /\ Once(Sent(t)', NameOf)
        /\ \A t \in Sides : \A d \in ToSet(Sent(t)') : d.name \in Answers => d.retId = NoAnswer
    BY <2>2 DEF TokenInv, OneEach, AnswersAndCalls
  <2>. QED
    BY <1>z, <2>5, <2>6, <2>7
<1>. QED
  BY <1>4, <1>5

LEMMA TokenInductive == Inv /\ Inv' /\ TokenInv /\ [Next]_vars => TokenInv'
<1> SUFFICES ASSUME Inv, Inv', TokenInv, [Next]_vars PROVE TokenInv'
  OBVIOUS
<1>t. TypeOK
  BY DEF Inv
<1>1. ASSUME UNCHANGED <<port, messageQueue, wire, messageCache, running, promise>> PROVE TokenInv'
  <2>1. \A t \in Sides : Sent(t)' = Sent(t)
    BY <1>1 DEF Sent
  <2>2. PortUsed'
    BY <1>1 DEF TokenInv, PortUsed
  <2>. QED
    BY <1>1, <2>1, <2>2, TokenSame
<1>2. ASSUME NEW s \in Sides, setMessagePort(s) PROVE TokenInv'
  BY <1>2, <1>t, TokenPort
<1>3. ASSUME NEW s \in Sides, onMessage(s) PROVE TokenInv'
  BY <1>3, TokenMessage
<1>4. ASSUME NEW s \in Sides, NEW e \in Endpoints, invoke(s, e) PROVE TokenInv'
  BY <1>4, TokenInvoke
<1>5. ASSUME NEW s \in Sides, NEW e \in Endpoints, registerHandler(s, e) PROVE TokenInv'
  BY <1>5, TokenRegister
<1>6. ASSUME NEW s \in Sides, NEW e \in Endpoints, removeHandler(s, e) PROVE TokenInv'
  BY <1>1, <1>6 DEF removeHandler, channelVars, callVars
<1>7. ASSUME NEW s \in Sides, NEW m \in running[s], NEW error \in BOOLEAN, HandlerEnds(s, m, error)
      PROVE  TokenInv'
  BY <1>7, TokenHandlerEnds
<1>8. CASE UNCHANGED vars
  BY <1>1, <1>8 DEF vars, channelVars, handlerVars, callVars
<1>. QED
  BY <1>2, <1>3, <1>4, <1>5, <1>6, <1>7, <1>8 DEF Next

LEMMA TokenInitial == Init => TokenInv
<1> SUFFICES ASSUME Init PROVE TokenInv
  OBVIOUS
<1>1. \A s \in Sides : /\ messageQueue[s] = <<>> /\ wire[s] = <<>> /\ running[s] = {}
                       /\ \A n \in Names : messageCache[s][n] = <<>>
                       /\ \A n \in Answers : promise[s][n] = "none"
  BY DEF Init
<1>2. \A s \in Sides : Sent(s) = <<>>
  <2>1. <<>> \o <<>> = <<>>
    OBVIOUS
  <2>. QED
    BY <1>1, <2>1 DEF Sent
<1>3. ToSet(<<>>) = {} /\ \A F : Vals(<<>>, F) = {} /\ Once(<<>>, F)
  BY DEF ToSet, Vals, Once
<1>4. PortUsed /\ OneEach /\ AnswersAndCalls
  BY <1>1, <1>2, <1>3 DEF PortUsed, OneEach, AnswersAndCalls
<1>5. ASSUME NEW s \in Sides
      PROVE  Apart(Sending(s), Cached(s), Running(s), Answered(s), Pending(s))
  <2>1. Sending(s) = {} /\ Running(s) = {} /\ Answered(s) = {} /\ Pending(s) = {}
        /\ \A n \in Names : Cached(s)[n] = {}
    BY <1>1, <1>2, <1>3, Peers DEF Sending, Running, Answered, Pending, Cached
  <2>. QED
    BY <2>1 DEF Apart
<1>. QED
  BY <1>4, <1>5 DEF TokenInv, InOnePlace

LEMMA TokenInvImplies == Inv /\ TokenInv => PendingCallsAreOnTheirWay
<1> SUFFICES ASSUME Inv, TokenInv, NEW s \in Sides, NEW n \in Answers
             PROVE  promise[s][n] = "pending" <=>
                      \/ \E m \in Outstanding(s) : m.retId = n
                      \/ \E m \in Outstanding(Peer(s)) : m.name = n
  BY DEF PendingCallsAreOnTheirWay
<1>q. PICK p : p = Peer(s)
  OBVIOUS
<1>p. p \in Sides /\ p # s /\ Peer(p) = s /\ \A t \in Sides : t = s \/ t = p
  BY <1>q, Peers
<1>t. /\ TypeOK /\ wire \in [Sides -> Seq(Messages)] /\ messageQueue \in [Sides -> Seq(Messages)]
      /\ messageCache \in [Sides -> [Names -> Seq(Messages)]] /\ running \in [Sides -> SUBSET Messages]
  BY DEF Inv, TypeOK
<1>1. \A t \in Sides : ToSet(Sent(t)) = ToSet(wire[t]) \cup ToSet(messageQueue[t])
  <2> SUFFICES ASSUME NEW t \in Sides PROVE ToSet(Sent(t)) = ToSet(wire[t]) \cup ToSet(messageQueue[t])
    OBVIOUS
  <2> DEFINE w == wire[t]
             u == messageQueue[t]
  <2>1. w \in Seq(Messages) /\ u \in Seq(Messages)
    BY <1>t
  <2> HIDE DEF w, u
  <2>2. /\ Len(w \o u) = Len(w) + Len(u) /\ Len(w) \in Nat /\ Len(u) \in Nat
        /\ \A i \in 1..Len(w) : (w \o u)[i] = w[i]
        /\ \A i \in 1..Len(u) : (w \o u)[Len(w) + i] = u[i]
    BY <2>1
  <2>3. \A i \in 1..(Len(w) + Len(u)) : i \in 1..Len(w) \/ (i - Len(w) \in 1..Len(u) /\ i = Len(w) + (i - Len(w)))
    BY <2>2
  <2>4. /\ \A i \in 1..Len(w) : i \in 1..(Len(w) + Len(u))
        /\ \A i \in 1..Len(u) : Len(w) + i \in 1..(Len(w) + Len(u))
    BY <2>2
  <2>5. PICK r : r = w \o u
    OBVIOUS
  <2>6. DOMAIN w = 1..Len(w) /\ DOMAIN u = 1..Len(u) /\ DOMAIN r = 1..Len(r)
    <3>1. r \in Seq(Messages)
      BY <2>1, <2>5, ConcatProperties
    <3>. QED
      BY <2>1, <3>1
  <2>7. ToSet(r) \subseteq ToSet(w) \cup ToSet(u)
    BY <2>2, <2>3, <2>5, <2>6 DEF ToSet
  <2>8. ToSet(w) \cup ToSet(u) \subseteq ToSet(r)
    <3>1. \A i \in 1..Len(w) : i \in 1..Len(r) /\ r[i] = w[i]
      BY <2>2, <2>4, <2>5
    <3>2. \A i \in 1..Len(u) : Len(w) + i \in 1..Len(r) /\ r[Len(w) + i] = u[i]
      BY <2>2, <2>4, <2>5
    <3>. QED
      BY <2>6, <3>1, <3>2 DEF ToSet
  <2>. QED
    BY <2>5, <2>7, <2>8 DEF Sent, w, u
<1>2. \A q \in Seq(Messages) : /\ Vals(q, RetOf) = {m.retId : m \in ToSet(q)} \cap Answers
                               /\ Vals(q, NameOf) = {m.name : m \in ToSet(q)} \cap Answers
  <2> SUFFICES ASSUME NEW q \in Seq(Messages)
               PROVE  /\ Vals(q, RetOf) = {m.retId : m \in ToSet(q)} \cap Answers
                      /\ Vals(q, NameOf) = {m.name : m \in ToSet(q)} \cap Answers
    OBVIOUS
  <2>1. DOMAIN q = 1..Len(q) /\ \A i \in 1..Len(q) : RetOf[q[i]] = q[i].retId /\ NameOf[q[i]] = q[i].name
    <3>1. \A i \in 1..Len(q) : q[i] \in Messages
      OBVIOUS
    <3>. QED
      BY <3>1 DEF RetOf, NameOf
  <2>. QED
    BY <2>1 DEF Vals, ToSet
<1>3. \A t \in Sides : \A m : m \in Outstanding(t) <=>
        \/ m \in ToSet(Sent(t)) \/ m \in running[Peer(t)]
        \/ \E k \in Names : m \in ToSet(messageCache[Peer(t)][k])
  BY <1>1 DEF Outstanding
<1>4. \A t \in Sides : Sent(t) \in Seq(Messages)
  BY <1>t, SentTypes
<1>5. promise[s][n] = "pending" <=>
        \/ n \in Sending(s) \/ n \in Running(s) \/ n \in Answered(s)
        \/ \E k \in Names : n \in Cached(s)[k]
  BY DEF TokenInv, InOnePlace, Apart, Pending
<1>6. n \in Sending(s) <=> \E m \in ToSet(Sent(s)) : m.retId = n
  BY <1>2, <1>4 DEF Sending
<1>7. n \in Answered(s) <=> \E m \in ToSet(Sent(p)) : m.name = n
  BY <1>2, <1>4, <1>p, <1>q DEF Answered
<1>8. n \in Running(s) <=> \E m \in running[p] : m.retId = n
  BY <1>q DEF Running
<1>9. (\E k \in Names : n \in Cached(s)[k]) <=> \E k \in Names : \E m \in ToSet(messageCache[p][k]) : m.retId = n
  <2>1. \A k \in Names : Cached(s)[k] = {m.retId : m \in ToSet(messageCache[p][k])} \cap Answers
    BY <1>2, <1>p, <1>q, <1>t DEF Cached
  <2>. QED
    BY <2>1
<1>10. /\ \A m \in running[s] : m.name # n
       /\ \A k \in Names : \A m \in ToSet(messageCache[s][k]) : m.name # n
  BY DEF TokenInv, AnswersAndCalls
<1>11. (\E m \in Outstanding(s) : m.retId = n) <=>
         n \in Sending(s) \/ n \in Running(s) \/ \E k \in Names : n \in Cached(s)[k]
  BY <1>3, <1>6, <1>8, <1>9, <1>q
<1>12. (\E m \in Outstanding(p) : m.name = n) <=> n \in Answered(s)
  BY <1>3, <1>7, <1>10, <1>p
<1>. QED
  BY <1>5, <1>11, <1>12, <1>q

\* No call that returns is forgotten and none is answered twice, however calls, handlers,
\* errors and the port interleave (invoke, registerHandler, #onMessage).
THEOREM CallsArePendingOnce == Spec => []PendingCallsAreOnTheirWay
<1>1. Init => Inv /\ TokenInv
  BY Initial, TokenInitial
<1>2. Inv /\ TokenInv /\ [Next]_vars => (Inv /\ TokenInv)'
  BY Inductive, TokenInductive
<1>. QED
  BY <1>1, <1>2, TokenInvImplies, PTL DEF Spec

-----------------------------------------------------------------------------
(* The order of calls: with it, a name that has a handler has no message   *)
(* in the cache.                                                           *)

CacheUsed == \A s \in Sides, e \in Endpoints : e \in handlerMap[s] => messageCache[s][e] = <<>>

Arrived(s, e) == started[s][e] \o Numbers(messageCache[Peer(s)][e])
Calls(s, e) == {n \in DOMAIN made[s] : made[s][n] = e}

OrderInv == PortUsed /\ CacheUsed /\ CallsInOrder

\* A call is made: its number is greater than that of every earlier call.
LEMMA OrderOfCall ==
  ASSUME NEW r \in Seq(Nat), NEW q \in Seq(Messages), NEW e, NEW C \in SUBSET Nat, InOrder(r, q, e, C),
         NEW m \in Messages, m.name = e, \A n \in C : n < m.no
  PROVE  InOrder(r, Append(q, m), e, C \cup {m.no})
<1> DEFINE u == Append(q, m)
           next == {j \in DOMAIN q : q[j].name = e}
           n == Len(q)
<1>1. /\ n \in Nat /\ DOMAIN q = 1..n /\ DOMAIN u = 1..(n + 1) /\ u[n + 1] = m
      /\ \A i \in 1..n : u[i] = q[i]
  OBVIOUS
<1> HIDE DEF u
<1>2. {j \in DOMAIN u : u[j].name = e} = next \cup {n + 1}
  BY <1>1
<1>3. \A j \in next : u[j] = q[j] /\ j < n + 1 /\ j \in Nat
  BY <1>1
<1>4. C = ToSet(r) \cup {q[j].no : j \in next}
  BY DEF InOrder
<1>5. (\A i \in DOMAIN r : r[i] < m.no) /\ (\A j \in next : q[j].no < m.no)
  BY <1>4 DEF ToSet
<1>6. n + 1 \notin next /\ n + 1 \in Nat
  BY <1>1
<1>a. /\ \A i, j \in DOMAIN r : i < j => r[i] < r[j]
      /\ \A i, j \in next : i < j => q[i].no < q[j].no
      /\ \A i \in DOMAIN r, j \in next : r[i] < q[j].no
  BY DEF InOrder
<1> HIDE DEF next, n
<1> DEFINE then == next \cup {n + 1}
<1>7. \A i, j \in then : i < j => u[i].no < u[j].no
  <2> SUFFICES ASSUME NEW i \in then, NEW j \in then, i < j PROVE u[i].no < u[j].no
    OBVIOUS
  <2>1. CASE i \in next /\ j \in next
    BY <1>3, <1>a, <2>1
  <2>2. CASE i \in next /\ j = n + 1
    BY <1>1, <1>3, <1>5, <2>2
  <2>3. CASE i = n + 1
    <3>1. j \in Nat /\ ~ (n + 1 < j)
      BY <1>3, <1>6
    <3>. QED
      BY <2>3, <3>1
  <2>. QED
    BY <2>1, <2>2, <2>3
<1>8. \A i \in DOMAIN r, j \in then : r[i] < u[j].no
  BY <1>1, <1>3, <1>5, <1>a
<1>9. C \cup {m.no} = ToSet(r) \cup {u[j].no : j \in then}
  BY <1>1, <1>3, <1>4
<1>. QED
  BY <1>2, <1>7, <1>8, <1>9, <1>a DEF InOrder, u

\* Another message is sent.
LEMMA OrderOfOther ==
  ASSUME NEW r, NEW q \in Seq(Messages), NEW e, NEW C, InOrder(r, q, e, C),
         NEW m \in Messages, m.name # e
  PROVE  InOrder(r, Append(q, m), e, C)
<1> DEFINE u == Append(q, m)
           next == {j \in DOMAIN q : q[j].name = e}
<1>1. /\ DOMAIN u = DOMAIN q \cup {Len(q) + 1} /\ u[Len(q) + 1] = m
      /\ \A i \in DOMAIN q : u[i] = q[i]
  OBVIOUS
<1> HIDE DEF u
<1>2. {j \in DOMAIN u : u[j].name = e} = next
  BY <1>1
<1>3. \A j \in next : u[j] = q[j]
  BY <1>1
<1>a. /\ \A i, j \in DOMAIN r : i < j => r[i] < r[j]
      /\ \A i, j \in next : i < j => q[i].no < q[j].no
      /\ \A i \in DOMAIN r, j \in next : r[i] < q[j].no
      /\ C = ToSet(r) \cup {q[j].no : j \in next}
  BY DEF InOrder
<1> HIDE DEF next
<1>4. {u[j].no : j \in next} = {q[j].no : j \in next}
  BY <1>3
<1>. QED
  BY <1>2, <1>3, <1>4, <1>a DEF InOrder, u

\* The first message that was sent arrives, one to e.
LEMMA OrderOfArrival ==
  ASSUME NEW r \in Seq(Nat), NEW q \in Seq(Messages), NEW e, NEW C, InOrder(r, q, e, C),
         q # <<>>, Head(q).name = e
  PROVE  InOrder(Append(r, Head(q).no), Tail(q), e, C)
<1> DEFINE u == Tail(q)
           v == Append(r, Head(q).no)
           next == {j \in DOMAIN q : q[j].name = e}
           then == {j \in DOMAIN u : u[j].name = e}
<1>1. /\ Len(q) \in Nat \ {0} /\ Len(u) = Len(q) - 1 /\ Head(q) = q[1] /\ u \in Seq(Messages)
      /\ \A i \in 1..Len(u) : u[i] = q[i + 1]
  BY HeadTailProperties
<1>2. DOMAIN q = 1..Len(q) /\ DOMAIN u = 1..Len(u)
  BY <1>1
<1>3. Head(q).no \in Nat
  <2>1. Head(q) \in Messages
    OBVIOUS
  <2>2. \A m \in Messages : m.no \in Nat
    BY ConstantsAssumption DEF Messages
  <2>. QED
    BY <2>1, <2>2
<1>4. /\ Len(r) \in Nat /\ DOMAIN r = 1..Len(r) /\ DOMAIN v = 1..(Len(r) + 1) /\ v[Len(r) + 1] = Head(q).no
      /\ \A i \in 1..Len(r) : v[i] = r[i]
  BY <1>3
<1> HIDE DEF u, v
<1>5. 1 \in next /\ \A j \in then : j + 1 \in next /\ u[j] = q[j + 1] /\ j \in Nat /\ 1 < j + 1
  BY <1>1, <1>2
<1>6. \A j \in next : j = 1 \/ (j - 1 \in then /\ u[j - 1] = q[j])
  BY <1>1, <1>2
<1>a. /\ \A i, j \in DOMAIN r : i < j => r[i] < r[j]
      /\ \A i, j \in next : i < j => q[i].no < q[j].no
      /\ \A i \in DOMAIN r, j \in next : r[i] < q[j].no
      /\ C = ToSet(r) \cup {q[j].no : j \in next}
  BY DEF InOrder
<1>7. \A i \in DOMAIN v : (i \in DOMAIN r /\ v[i] = r[i]) \/ (i = Len(r) + 1 /\ v[i] = q[1].no)
  BY <1>1, <1>4
<1>8. \A i \in DOMAIN r : i \in DOMAIN v /\ v[i] = r[i] /\ i < Len(r) + 1
  BY <1>4
<1>9. Len(r) + 1 \in DOMAIN v /\ v[Len(r) + 1] = q[1].no
  BY <1>1, <1>4
<1> HIDE DEF next, then
<1>10. \A i, j \in DOMAIN v : i < j => v[i] < v[j]
  <2> SUFFICES ASSUME NEW i \in DOMAIN v, NEW j \in DOMAIN v, i < j PROVE v[i] < v[j]
    OBVIOUS
  <2>1. i \in DOMAIN r /\ v[i] = r[i]
    BY <1>4, <1>7
  <2>. QED
    BY <1>5, <1>7, <1>a, <2>1
<1>11. \A i, j \in then : i < j => u[i].no < u[j].no
  <2> SUFFICES ASSUME NEW i \in then, NEW j \in then, i < j PROVE u[i].no < u[j].no
    OBVIOUS
  <2>1. i + 1 \in next /\ j + 1 \in next /\ i + 1 < j + 1
    BY <1>5
  <2>. QED
    BY <1>5, <1>a, <2>1
<1>12. \A i \in DOMAIN v, j \in then : v[i] < u[j].no
  BY <1>5, <1>7, <1>a
<1>13. C = ToSet(v) \cup {u[j].no : j \in then}
  <2>1. ToSet(v) = ToSet(r) \cup {q[1].no}
    BY <1>7, <1>8, <1>9 DEF ToSet
  <2>2. {q[j].no : j \in next} = {q[1].no} \cup {u[j].no : j \in then}
    <3>1. \A j \in next : q[j].no \in {q[1].no} \cup {u[k].no : k \in then}
      BY <1>6
    <3>2. \A k \in then : u[k].no \in {q[j].no : j \in next}
      BY <1>5
    <3>3. q[1].no \in {q[j].no : j \in next}
      BY <1>5
    <3>. QED
      BY <3>1, <3>2, <3>3
  <2>. QED
    BY <1>a, <2>1, <2>2
<1>. QED
  BY <1>10, <1>11, <1>12, <1>13 DEF InOrder, u, v, then

\* The first message that was sent arrives, one to another name.
LEMMA OrderAfterOther ==
  ASSUME NEW r, NEW q \in Seq(Messages), NEW e, NEW C, InOrder(r, q, e, C),
         q # <<>>, Head(q).name # e
  PROVE  InOrder(r, Tail(q), e, C)
<1> DEFINE u == Tail(q)
           next == {j \in DOMAIN q : q[j].name = e}
           then == {j \in DOMAIN u : u[j].name = e}
<1>1. /\ Len(q) \in Nat \ {0} /\ Len(u) = Len(q) - 1 /\ Head(q) = q[1] /\ u \in Seq(Messages)
      /\ \A i \in 1..Len(u) : u[i] = q[i + 1]
  BY HeadTailProperties
<1>2. DOMAIN q = 1..Len(q) /\ DOMAIN u = 1..Len(u)
  BY <1>1
<1> HIDE DEF u
<1>5. \A j \in then : j + 1 \in next /\ u[j] = q[j + 1] /\ j \in Nat
  BY <1>1, <1>2
<1>6. \A j \in next : j - 1 \in then /\ u[j - 1] = q[j]
  BY <1>1, <1>2
<1>a. /\ \A i, j \in DOMAIN r : i < j => r[i] < r[j]
      /\ \A i, j \in next : i < j => q[i].no < q[j].no
      /\ \A i \in DOMAIN r, j \in next : r[i] < q[j].no
      /\ C = ToSet(r) \cup {q[j].no : j \in next}
  BY DEF InOrder
<1> HIDE DEF next, then
<1>11. \A i, j \in then : i < j => u[i].no < u[j].no
  <2> SUFFICES ASSUME NEW i \in then, NEW j \in then, i < j PROVE u[i].no < u[j].no
    OBVIOUS
  <2>1. i + 1 \in next /\ j + 1 \in next /\ i + 1 < j + 1
    BY <1>5
  <2>. QED
    BY <1>5, <1>a, <2>1
<1>12. \A i \in DOMAIN r, j \in then : r[i] < u[j].no
  BY <1>5, <1>a
<1>13. {q[j].no : j \in next} = {u[j].no : j \in then}
  <2>1. \A j \in next : q[j].no \in {u[k].no : k \in then}
    BY <1>6
  <2>2. \A k \in then : u[k].no \in {q[j].no : j \in next}
    BY <1>5
  <2>. QED
    BY <2>1, <2>2
<1>. QED
  BY <1>11, <1>12, <1>13, <1>a DEF InOrder, u, then

-----------------------------------------------------------------------------
LEMMA ArrivedType ==
  ASSUME TypeOK, NEW s \in Sides, NEW e \in Endpoints
  PROVE  /\ Arrived(s, e) \in Seq(Nat) /\ started[s][e] \in Seq(Nat)
         /\ Numbers(messageCache[Peer(s)][e]) \in Seq(Nat)
<1>1. messageCache[Peer(s)][e] \in Seq(Messages) /\ started[s][e] \in Seq(Nat)
  BY Peers DEF TypeOK, Names
<1>2. Numbers(messageCache[Peer(s)][e]) \in Seq(Nat)
  BY <1>1, NumbersAreNaturals DEF Numbers
<1>. QED
  BY <1>1, <1>2, ConcatProperties DEF Arrived

\* Nothing that the order is about changes.
LEMMA OrderSame ==
  ASSUME OrderInv, PortUsed', \A t \in Sides : Sent(t)' = Sent(t),
         UNCHANGED <<messageCache, started, made>>, \A t \in Sides : handlerMap'[t] \cap Endpoints \subseteq handlerMap[t]
  PROVE  OrderInv'
<1>1. CacheUsed'
  BY DEF OrderInv, CacheUsed
<1>2. CallsInOrder'
  <2>1. \A t \in Sides : \A f \in Served[Peer(t)] : InOrder(Arrived(t, f), Sent(t), f, Calls(t, f))
    BY DEF OrderInv, CallsInOrder, Arrived, Sent, Calls
  <2>2. \A t \in Sides : \A f : Arrived(t, f)' = Arrived(t, f) /\ Calls(t, f)' = Calls(t, f)
    BY DEF Arrived, Numbers, Calls
  <2>3. \A t \in Sides : \A f \in Served[Peer(t)] : InOrder(Arrived(t, f)', Sent(t)', f, Calls(t, f)')
    BY <2>1, <2>2
  <2>. QED
    BY <2>3 DEF CallsInOrder, Arrived, Sent, Calls
<1>. QED
  BY <1>1, <1>2 DEF OrderInv

LEMMA OrderPort ==
  ASSUME TypeOK, TokenInv, OrderInv, NEW s \in Sides, setMessagePort(s)
  PROVE  OrderInv'
<1>t. wire \in [Sides -> Seq(Messages)] /\ messageQueue \in [Sides -> Seq(Messages)]
  BY DEF TypeOK
<1>1. /\ wire'[s] = wire[s] \o messageQueue[s] /\ messageQueue'[s] = <<>>
      /\ \A t \in Sides : t # s => wire'[t] = wire[t] /\ messageQueue'[t] = messageQueue[t]
      /\ \A t \in Sides : t # s => port'[t] = port[t]
      /\ UNCHANGED <<messageCache, started, made, handlerMap>>
  BY <1>t DEF setMessagePort, TypeOK, handlerVars, callVars
<1>2. Sent(s)' = Sent(s)
  <2>1. \A q \in Seq(Messages) : q \o <<>> = q
    OBVIOUS
  <2>2. wire[s] \o messageQueue[s] \in Seq(Messages)
    BY <1>t, ConcatProperties
  <2>. QED
    BY <1>1, <2>1, <2>2 DEF Sent
<1>3. \A t \in Sides : Sent(t)' = Sent(t)
  BY <1>1, <1>2 DEF Sent
<1>4. PortUsed'
  BY <1>1 DEF PortUsed, TokenInv
<1>. QED
  BY <1>1, <1>3, <1>4, OrderSame

\* A call to e is made by s.
LEMMA OrderInvoke ==
  ASSUME Inv, OrderInv, NEW s \in Sides, NEW e \in Endpoints, invoke(s, e)
  PROVE  OrderInv'
<1>p. /\ Peer(s) \in Sides /\ Peer(s) # s /\ Peer(Peer(s)) = s
      /\ \A t \in Sides : t = s \/ t = Peer(s)
  BY Peers
<1>t. /\ TypeOK /\ PortUsed /\ made \in [Sides -> Seq(Endpoints)] /\ incId \in [Sides -> 0..MaxCalls]
      /\ handlerMap \in [Sides -> SUBSET Names]
  BY DEF Inv, TypeOK, OrderInv
<1> DEFINE no == Len(made[s]) + 1
<1>n. no \in 1..MaxCalls /\ incId[s] \in Answers /\ no \in Nat
  BY ConstantsAssumption DEF Inv, TypeOK, Counted, invoke, Answers
<1>0. /\ UNCHANGED <<port, messageCache, started>> /\ e \in Served[Peer(s)]
      /\ made' = [made EXCEPT ![s] = Append(@, e)]
  BY DEF invoke
<1>1. PICK m \in Messages : postMessage(s, m) /\ m.name = e /\ m.no = no
  <2>1. CASE invokeReturning(s, e, no)
    <3>m. PICK m : m = Call(e, incId[s], no)
      OBVIOUS
    <3>1. m \in Messages /\ m.name = e /\ m.no = no
      BY <1>n, <3>m DEF Call, Messages, Names
    <3>2. postMessage(s, m)
      BY <2>1, <3>m DEF invokeReturning
    <3>. QED
      BY <3>1, <3>2
  <2>2. CASE invokeVoid(s, e, no)
    <3>m. PICK m : m = Call(e, NoAnswer, no)
      OBVIOUS
    <3>1. m \in Messages /\ m.name = e /\ m.no = no
      BY <1>n, <3>m DEF Call, Messages, Names
    <3>2. postMessage(s, m)
      BY <2>2, <3>m DEF invokeVoid
    <3>. QED
      BY <3>1, <3>2
  <2>. QED
    BY <2>1, <2>2 DEF invoke
<1>2. /\ Sent(s)' = Append(Sent(s), m) /\ \A t \in Sides : t # s => Sent(t)' = Sent(t)
      /\ PortUsed'
  BY <1>0, <1>1, <1>t, SentPost
<1>3. \A t \in Sides : handlerMap'[t] \cap Endpoints \subseteq handlerMap[t]
  <2>1. \/ handlerMap' = [handlerMap EXCEPT ![s] = @ \cup {incId[s]}]
        \/ handlerMap' = handlerMap
    BY DEF invoke, invokeReturning, invokeVoid, Registered
  <2>2. \A t \in Sides : handlerMap'[t] \subseteq handlerMap[t] \cup {incId[s]}
    BY <1>t, <2>1
  <2>3. incId[s] \notin Endpoints
    BY <1>n, NamesDiffer
  <2>. QED
    BY <2>2, <2>3
<1>4. CacheUsed'
  BY <1>0, <1>3 DEF OrderInv, CacheUsed
<1>5. /\ \A t \in Sides : t # s => made'[t] = made[t]
      /\ Len(made[s]) \in Nat /\ DOMAIN made[s] = 1..Len(made[s])
      /\ DOMAIN made'[s] = 1..no /\ made'[s][no] = e
      /\ \A i \in 1..Len(made[s]) : made'[s][i] = made[s][i]
  <2>1. made'[s] = Append(made[s], e) /\ \A t \in Sides : t # s => made'[t] = made[t]
    BY <1>0, <1>t
  <2>2. made[s] \in Seq(Endpoints)
    BY <1>t
  <2>. QED
    BY <2>1, <2>2
<1>6. ASSUME NEW t \in Sides, NEW f \in Served[Peer(t)]
      PROVE  InOrder(Arrived(t, f), Sent(t)', f, Calls(t, f)')
  <2>1. InOrder(Arrived(t, f), Sent(t), f, Calls(t, f))
    BY DEF OrderInv, CallsInOrder, Arrived, Sent, Calls
  <2>2. CASE t # s
    <3>1. Sent(t)' = Sent(t) /\ Calls(t, f)' = Calls(t, f)
      BY <1>2, <1>5, <2>2 DEF Calls
    <3>. QED
      BY <2>1, <3>1
  <2>3. CASE t = s /\ f # e
    <3>1. Calls(s, f)' = Calls(s, f)
      BY <1>5, <2>3 DEF Calls
    <3>2. InOrder(Arrived(s, f), Append(Sent(s), m), f, Calls(s, f))
      BY <1>1, <1>t, <2>1, <2>3, SentTypes, OrderOfOther
    <3>. QED
      BY <1>2, <2>3, <3>1, <3>2
  <2>4. CASE t = s /\ f = e
    <3>1. Calls(s, e)' = Calls(s, e) \cup {m.no}
      BY <1>1, <1>5 DEF Calls
    <3>2. Calls(s, e) \in SUBSET Nat /\ \A i \in Calls(s, e) : i < m.no
      BY <1>1, <1>5 DEF Calls
    <3>3. Arrived(s, e) \in Seq(Nat) /\ Sent(s) \in Seq(Messages)
      BY <1>t, ArrivedType, SentTypes
    <3>4. InOrder(Arrived(s, e), Append(Sent(s), m), e, Calls(s, e) \cup {m.no})
      BY <1>1, <2>1, <2>4, <3>2, <3>3, OrderOfCall
    <3>. QED
      BY <1>2, <2>4, <3>1, <3>4
  <2>. QED
    BY <2>2, <2>3, <2>4
<1>7. CallsInOrder'
  <2>1. \A t \in Sides, f \in Endpoints : Arrived(t, f)' = Arrived(t, f)
    BY <1>0 DEF Arrived, Numbers
  <2>2. \A t \in Sides : \A f \in Served[Peer(t)] : f \in Endpoints
    BY ConstantsAssumption, Peers
  <2>. QED
    BY <1>6, <2>1, <2>2 DEF CallsInOrder, Arrived, Sent, Calls
<1>. QED
  BY <1>2, <1>4, <1>7 DEF OrderInv

-----------------------------------------------------------------------------
\* An answer is sent: it is no call to an endpoint.
LEMMA OrderHandlerEnds ==
  ASSUME Inv, OrderInv, NEW s \in Sides, NEW m \in running[s], NEW error \in BOOLEAN,
         HandlerEnds(s, m, error)
  PROVE  OrderInv'
<1>t. TypeOK /\ PortUsed /\ running \in [Sides -> SUBSET Messages]
  BY DEF Inv, TypeOK, OrderInv
<1>0. UNCHANGED <<port, messageCache, started, made, handlerMap>>
  BY DEF HandlerEnds
<1>1. CASE ~IsAnswered(m, error)
  <2>1. UNCHANGED <<wire, messageQueue>>
    BY <1>1 DEF HandlerEnds
  <2>2. (\A t \in Sides : Sent(t)' = Sent(t)) /\ PortUsed'
    BY <1>0, <1>t, <2>1 DEF Sent, PortUsed
  <2>. QED
    BY <1>0, <2>2, OrderSame
<1>2. CASE IsAnswered(m, error)
  <2>a. PICK a : a = Answer(m.retId, error)
    OBVIOUS
  <2>1. postMessage(s, a)
    BY <1>2, <2>a DEF HandlerEnds
  <2>2. m \in Messages /\ m.retId \in Answers
    <3>1. m \in Messages
      BY <1>t
    <3>. QED
      BY <1>2, <3>1 DEF Messages, IsAnswered
  <2>3. a \in Messages /\ a.name \in Answers
    <3>1. 0 \in 0..MaxCalls
      BY ConstantsAssumption
    <3>. QED
      BY <2>2, <2>a, <3>1 DEF Answer, Messages, Names
  <2>4. /\ Sent(s)' = Append(Sent(s), a) /\ \A t \in Sides : t # s => Sent(t)' = Sent(t)
        /\ PortUsed'
    BY <1>0, <1>t, <2>1, <2>3, SentPost
  <2>5. ASSUME NEW t \in Sides, NEW f \in Served[Peer(t)]
        PROVE  InOrder(Arrived(t, f), Sent(t)', f, Calls(t, f))
    <3>1. InOrder(Arrived(t, f), Sent(t), f, Calls(t, f))
      BY DEF OrderInv, CallsInOrder, Arrived, Sent, Calls
    <3>2. f \in Endpoints
      BY ConstantsAssumption, Peers
    <3>3. a.name # f
      BY <2>3, <3>2, NamesDiffer
    <3>4. CASE t = s
      <4>1. InOrder(Arrived(t, f), Append(Sent(t), a), f, Calls(t, f))
        BY <1>t, <2>3, <3>1, <3>3, SentTypes, OrderOfOther
      <4>. QED
        BY <2>4, <3>4, <4>1
    <3>. QED
      BY <2>4, <3>1, <3>4
  <2>6. CallsInOrder'
    <3>1. \A t \in Sides : \A f : Arrived(t, f)' = Arrived(t, f) /\ Calls(t, f)' = Calls(t, f)
      BY <1>0 DEF Arrived, Numbers, Calls
    <3>2. \A t \in Sides : \A f \in Served[Peer(t)] : InOrder(Arrived(t, f)', Sent(t)', f, Calls(t, f)')
      BY <2>5, <3>1
    <3>. QED
      BY <3>2 DEF CallsInOrder, Arrived, Sent, Calls
  <2>. QED
    BY <1>0, <2>4, <2>6 DEF OrderInv, CacheUsed
<1>. QED
  BY <1>1, <1>2

\* The cache of e goes to the started calls: together they stay what has arrived.
LEMMA OrderRegister ==
  ASSUME Inv, OrderInv, NEW s \in Sides, NEW e \in Endpoints, registerHandler(s, e)
  PROVE  OrderInv'
<1>q. PICK p : p = Peer(s)
  OBVIOUS
<1>p. p \in Sides /\ p # s /\ Peer(p) = s /\ \A t \in Sides : t = s \/ t = p
  BY <1>q, Peers
<1>t. /\ TypeOK /\ messageCache \in [Sides -> [Names -> Seq(Messages)]] /\ handlerMap \in [Sides -> SUBSET Names]
      /\ started \in [Sides -> [Endpoints -> Seq(Nat)]]
  BY DEF Inv, TypeOK
<1>n. e \in Names
  BY DEF Names
<1>c. PICK c : c = messageCache[s][e]
  OBVIOUS
<1>0. /\ UNCHANGED <<port, messageQueue, wire, made>>
      /\ handlerMap' = [handlerMap EXCEPT ![s] = @ \cup {e}]
      /\ messageCache' = [messageCache EXCEPT ![s][e] = <<>>]
      /\ started' = [started EXCEPT ![p][e] = @ \o Numbers(c)]
  BY <1>q, <1>c DEF registerHandler, channelVars, callVars, Registered, CacheEmptied, Start, Numbers
<1>1. \A t \in Sides, n \in Names : messageCache'[t][n] = IF t = s /\ n = e THEN <<>> ELSE messageCache[t][n]
  BY <1>0, <1>n, <1>t, ZenonT(30)
<1>2. \A t \in Sides, f \in Endpoints :
        started'[t][f] = IF t = p /\ f = e THEN started[p][e] \o Numbers(c) ELSE started[t][f]
  BY <1>0, <1>t, ZenonT(30)
<1>3. \A t \in Sides : handlerMap'[t] \subseteq IF t = s THEN handlerMap[t] \cup {e} ELSE handlerMap[t]
  BY <1>0, <1>t
<1>4. PortUsed' /\ \A t \in Sides : \A f : Sent(t)' = Sent(t) /\ Calls(t, f)' = Calls(t, f)
  BY <1>0 DEF OrderInv, PortUsed, Sent, Calls
<1>5. CacheUsed'
  <2>1. \A t \in Sides, f \in Endpoints : f \in handlerMap[t] => messageCache[t][f] = <<>>
    BY DEF OrderInv, CacheUsed
  <2>2. Endpoints \subseteq Names
    BY DEF Names
  <2>. QED
    BY <1>1, <1>3, <2>1, <2>2 DEF CacheUsed
<1>6. ASSUME NEW t \in Sides, NEW f \in Endpoints
      PROVE  Arrived(t, f)' = Arrived(t, f)
  <2>1. CASE t = p /\ f = e
    <3>1. Arrived(p, e) = started[p][e] \o Numbers(c)
      BY <1>c, <1>p DEF Arrived
    <3>2. Arrived(p, e)' = (started[p][e] \o Numbers(c)) \o <<>>
      <4>1. messageCache'[s][e] = <<>> /\ started'[p][e] = started[p][e] \o Numbers(c)
        BY <1>1, <1>2, <1>n, <1>p
      <4>2. Numbers(<<>>) = <<>>
        BY DEF Numbers
      <4>. QED
        BY <1>p, <4>1, <4>2 DEF Arrived, Numbers
    <3>3. started[p][e] \o Numbers(c) \in Seq(Nat)
      BY <1>p, <1>t, <3>1, ArrivedType
    <3>4. \A q \in Seq(Nat) : q \o <<>> = q
      OBVIOUS
    <3>. QED
      BY <2>1, <3>1, <3>2, <3>3, <3>4
  <2>2. CASE ~(t = p /\ f = e)
    <3>1. started'[t][f] = started[t][f]
      BY <1>2, <2>2
    <3>2. messageCache'[Peer(t)][f] = messageCache[Peer(t)][f]
      <4>1. f \in Names /\ Peer(t) \in Sides /\ ~(Peer(t) = s /\ f = e)
        BY <1>p, <1>q, <2>2, Peers DEF Names
      <4>. QED
        BY <1>1, <4>1
    <3>. QED
      BY <3>1, <3>2 DEF Arrived, Numbers
  <2>. QED
    BY <2>1, <2>2
<1>7. \A t \in Sides : \A f \in Served[Peer(t)] : f \in Endpoints
  BY ConstantsAssumption, Peers
<1>8. \A t \in Sides : \A f \in Served[Peer(t)] : InOrder(Arrived(t, f), Sent(t), f, Calls(t, f))
  BY DEF OrderInv, CallsInOrder, Arrived, Sent, Calls
<1>9. \A t \in Sides : \A f \in Served[Peer(t)] : InOrder(Arrived(t, f)', Sent(t)', f, Calls(t, f)')
  BY <1>4, <1>6, <1>7, <1>8
<1>10. CallsInOrder'
  BY <1>9 DEF CallsInOrder, Arrived, Sent, Calls
<1>. QED
  BY <1>4, <1>5, <1>10 DEF OrderInv

LEMMA OrderRemove ==
  ASSUME Inv, OrderInv, NEW s \in Sides, NEW e \in Endpoints, removeHandler(s, e)
  PROVE  OrderInv'
<1>1. handlerMap \in [Sides -> SUBSET Names]
  BY DEF Inv, TypeOK
<1>2. \A t \in Sides : handlerMap'[t] \subseteq handlerMap[t]
  BY <1>1 DEF removeHandler
<1>3. UNCHANGED <<port, messageQueue, wire, messageCache, started, made>>
  BY DEF removeHandler, channelVars, callVars
<1>4. (\A t \in Sides : Sent(t)' = Sent(t)) /\ PortUsed'
  BY <1>3 DEF Sent, PortUsed, OrderInv
<1>. QED
  BY <1>2, <1>3, <1>4, OrderSame

-----------------------------------------------------------------------------
\* A message that arrives comes after all that have arrived, in the cache or started.
LEMMA OrderMessage ==
  ASSUME Inv, OrderInv, NEW s \in Sides, onMessage(s)
  PROVE  OrderInv'
<1>q. PICK p : p = Peer(s)
  OBVIOUS
<1>p. p \in Sides /\ p # s /\ Peer(p) = s /\ \A t \in Sides : t = s \/ t = p
  BY <1>q, Peers
<1>m. PICK m : m = Head(wire[p])
  OBVIOUS
<1>t. /\ TypeOK /\ PortUsed /\ wire \in [Sides -> Seq(Messages)] /\ messageQueue \in [Sides -> Seq(Messages)]
      /\ messageCache \in [Sides -> [Names -> Seq(Messages)]] /\ started \in [Sides -> [Endpoints -> Seq(Nat)]]
  BY DEF Inv, TypeOK, OrderInv
<1>0. /\ wire[p] # <<>> /\ wire' = [wire EXCEPT ![p] = Tail(@)]
      /\ UNCHANGED <<port, messageQueue, made, handlerMap>>
  BY <1>q DEF onMessage
<1>1. m \in Messages /\ m.name \in Names /\ m.no \in Nat
  <2>1. wire[p] \in Seq(Messages) /\ wire[p] # <<>>
    BY <1>0, <1>p, <1>t
  <2>2. m \in Messages
    BY <1>m, <2>1
  <2>. QED
    BY <2>2, ConstantsAssumption DEF Messages
<1>2. /\ Sent(p) # <<>> /\ m = Head(Sent(p)) /\ Sent(p)' = Tail(Sent(p))
      /\ \A t \in Sides : t # p => Sent(t)' = Sent(t)
  <2> DEFINE w == wire[p]
             u == messageQueue[p]
  <2>1. w \in Seq(Messages) /\ u \in Seq(Messages) /\ w # <<>>
    BY <1>0, <1>p, <1>t
  <2>2. wire'[p] = Tail(w) /\ messageQueue'[p] = u
        /\ \A t \in Sides : t # p => wire'[t] = wire[t] /\ messageQueue'[t] = messageQueue[t]
    BY <1>0, <1>p, <1>t
  <2> HIDE DEF w, u
  <2>3. w \o u # <<>> /\ Head(w \o u) = Head(w)
    BY <2>1
  <2>4. Tail(w \o u) = Tail(w) \o u
    BY <2>1
  <2>. QED
    BY <1>m, <2>2, <2>3, <2>4 DEF Sent, w, u
<1>3. PortUsed' /\ \A t \in Sides : \A f : Calls(t, f)' = Calls(t, f)
  BY <1>0, <1>t DEF PortUsed, Calls
<1>e. Endpoints \subseteq Names
  BY DEF Names
<1>u. \A t \in Sides, f \in Endpoints : f \in handlerMap[t] => messageCache[t][f] = <<>>
  BY DEF OrderInv, CacheUsed
<1>4. /\ \A t \in Sides, f \in Endpoints : f \in handlerMap[t] => messageCache'[t][f] = <<>>
      /\ \A t \in Sides, f \in Endpoints :
           Arrived(t, f)' = IF t = p /\ f = m.name THEN Append(Arrived(t, f), m.no) ELSE Arrived(t, f)
  <2>c. ASSUME NEW t \in Sides, NEW f \in Endpoints
        PROVE  /\ Arrived(t, f) = started[t][f] \o Numbers(messageCache[Peer(t)][f])
               /\ Arrived(t, f)' = started'[t][f] \o Numbers(messageCache'[Peer(t)][f])
               /\ f \in Names /\ Peer(t) \in Sides
    BY <1>e, Peers DEF Arrived, Numbers
  <2>1. CASE m.name \notin handlerMap[s]
    <3>1. /\ messageCache' = [messageCache EXCEPT ![s][m.name] = Append(@, m)]
          /\ started' = started
      BY <1>m, <1>q, <2>1 DEF onMessage
    <3>c. PICK c : c = messageCache[s][m.name]
      OBVIOUS
    <3>2. \A t \in Sides, n \in Names :
            messageCache'[t][n] = IF t = s /\ n = m.name THEN Append(c, m) ELSE messageCache[t][n]
      BY <1>1, <1>t, <3>1, <3>c, ZenonT(30)
    <3>3. Numbers(Append(c, m)) = Append(Numbers(c), m.no)
      <4>1. c \in Seq(Messages)
        BY <1>1, <1>t, <3>c
      <4>. QED
        BY <1>1, <4>1 DEF Numbers
    <3>4. \A t \in Sides, f \in Endpoints : f \in handlerMap[t] => messageCache'[t][f] = <<>>
      BY <1>e, <1>u, <2>1, <3>2
    <3>5. ASSUME NEW f \in Endpoints, f = m.name
          PROVE  Arrived(p, f)' = Append(Arrived(p, f), m.no)
      <4>1. /\ Arrived(p, f) = started[p][f] \o Numbers(c)
            /\ Arrived(p, f)' = started[p][f] \o Append(Numbers(c), m.no)
        <5>1. started'[p][f] = started[p][f] /\ messageCache'[s][f] = Append(c, m) /\ messageCache[s][f] = c
          BY <1>e, <3>1, <3>2, <3>5, <3>c
        <5>2. /\ Arrived(p, f) = started[p][f] \o Numbers(messageCache[s][f])
              /\ Arrived(p, f)' = started'[p][f] \o Numbers(messageCache'[s][f])
          BY <1>p, <2>c
        <5>. QED
          BY <3>3, <5>1, <5>2
      <4>2. started[p][f] \in Seq(Nat) /\ Numbers(c) \in Seq(Nat)
        BY <1>p, <1>t, <3>5, <3>c, ArrivedType
      <4>3. \A a, b \in Seq(Nat) : a \o Append(b, m.no) = Append(a \o b, m.no)
        BY <1>1
      <4>. QED
        BY <4>1, <4>2, <4>3
    <3>6. ASSUME NEW t \in Sides, NEW f \in Endpoints, ~(t = p /\ f = m.name)
          PROVE  Arrived(t, f)' = Arrived(t, f)
      <4>1. ~(Peer(t) = s /\ f = m.name)
        BY <1>p, <1>q, <3>6
      <4>2. messageCache'[Peer(t)][f] = messageCache[Peer(t)][f]
        BY <2>c, <3>2, <4>1
      <4>3. started' = started
        BY <3>1
      <4>. QED
        BY <4>2, <4>3 DEF Arrived, Numbers
    <3>. QED
      BY <1>p, <3>4, <3>5, <3>6
  <2>2. CASE m.name \in handlerMap[s] /\ m.name \in Answers
    <3>1. UNCHANGED <<messageCache, started>>
      BY <1>m, <1>q, <2>2 DEF onMessage
    <3>2. \A f \in Endpoints : f # m.name
      BY <2>2, NamesDiffer
    <3>. QED
      BY <1>u, <2>c, <3>1, <3>2
  <2>3. CASE m.name \in handlerMap[s] /\ m.name \notin Answers
    <3>1. /\ UNCHANGED messageCache
          /\ started' = [started EXCEPT ![p][m.name] = @ \o [i \in DOMAIN <<m>> |-> <<m>>[i].no]]
      BY <1>m, <1>q, <2>3 DEF onMessage, Start
    <3>2. [i \in DOMAIN <<m>> |-> <<m>>[i].no] = <<m.no>>
      OBVIOUS
    <3>3. m.name \in Endpoints
      BY <1>1, <2>3 DEF Names
    <3>4. \A t \in Sides, f \in Endpoints :
            started'[t][f] = IF t = p /\ f = m.name THEN started[p][m.name] \o <<m.no>> ELSE started[t][f]
      BY <1>t, <3>1, <3>2, ZenonT(30)
    <3>5. Arrived(p, m.name)' = Append(Arrived(p, m.name), m.no)
      <4>1. messageCache[s][m.name] = <<>> /\ Numbers(<<>>) = <<>>
        BY <1>u, <2>3, <3>3 DEF Numbers
      <4>2. /\ Arrived(p, m.name) = started[p][m.name] \o <<>>
            /\ Arrived(p, m.name)' = (started[p][m.name] \o <<m.no>>) \o <<>>
        <5>1. started'[p][m.name] = started[p][m.name] \o <<m.no>> /\ messageCache' = messageCache
          BY <1>p, <3>1, <3>3, <3>4
        <5>2. /\ Arrived(p, m.name) = started[p][m.name] \o Numbers(messageCache[s][m.name])
              /\ Arrived(p, m.name)' = started'[p][m.name] \o Numbers(messageCache'[s][m.name])
          BY <1>p, <2>c, <3>3
        <5>. QED
          BY <4>1, <5>1, <5>2
      <4>3. started[p][m.name] \in Seq(Nat)
        BY <1>p, <1>t, <3>3
      <4>4. \A a \in Seq(Nat) : a \o <<>> = a /\ (a \o <<m.no>>) \o <<>> = Append(a, m.no)
        BY <1>1
      <4>. QED
        BY <4>2, <4>3, <4>4
    <3>6. ASSUME NEW t \in Sides, NEW f \in Endpoints, ~(t = p /\ f = m.name)
          PROVE  Arrived(t, f)' = Arrived(t, f)
      <4>1. started'[t][f] = started[t][f] /\ messageCache' = messageCache
        BY <3>1, <3>4, <3>6
      <4>. QED
        BY <4>1 DEF Arrived, Numbers
    <3>. QED
      BY <1>u, <3>1, <3>5, <3>6
  <2>. QED
    BY <2>1, <2>2, <2>3
<1>5. CacheUsed'
  BY <1>0, <1>4 DEF CacheUsed
<1>6. ASSUME NEW t \in Sides, NEW f \in Served[Peer(t)]
      PROVE  InOrder(Arrived(t, f)', Sent(t)', f, Calls(t, f)')
  <2>f. f \in Endpoints
    BY ConstantsAssumption, Peers
  <2>1. InOrder(Arrived(t, f), Sent(t), f, Calls(t, f))
    BY DEF OrderInv, CallsInOrder, Arrived, Sent, Calls
  <2>2. CASE t # p
    BY <1>2, <1>3, <1>4, <2>1, <2>2, <2>f
  <2>3. CASE t = p /\ f # m.name
    <3>1. InOrder(Arrived(t, f), Tail(Sent(t)), f, Calls(t, f))
      BY <1>2, <1>t, <2>1, <2>3, SentTypes, OrderAfterOther
    <3>. QED
      BY <1>2, <1>3, <1>4, <2>3, <2>f, <3>1
  <2>4. CASE t = p /\ f = m.name
    <3>1. Arrived(t, f) \in Seq(Nat) /\ Sent(t) \in Seq(Messages)
      BY <1>t, <2>f, ArrivedType, SentTypes
    <3>2. InOrder(Append(Arrived(t, f), m.no), Tail(Sent(t)), f, Calls(t, f))
      BY <1>2, <2>1, <2>4, <3>1, OrderOfArrival
    <3>. QED
      BY <1>2, <1>3, <1>4, <2>4, <2>f, <3>2
  <2>. QED
    BY <2>2, <2>3, <2>4
<1>7. CallsInOrder'
  BY <1>6 DEF CallsInOrder, Arrived, Sent, Calls
<1>. QED
  BY <1>3, <1>5, <1>7 DEF OrderInv

LEMMA OrderInductive == Inv /\ TokenInv /\ OrderInv /\ [Next]_vars => OrderInv'
<1> SUFFICES ASSUME Inv, TokenInv, OrderInv, [Next]_vars PROVE OrderInv'
  OBVIOUS
<1>t. TypeOK
  BY DEF Inv
<1>1. ASSUME NEW s \in Sides, setMessagePort(s) PROVE OrderInv'
  BY <1>1, <1>t, OrderPort
<1>2. ASSUME NEW s \in Sides, onMessage(s) PROVE OrderInv'
  BY <1>2, OrderMessage
<1>3. ASSUME NEW s \in Sides, NEW e \in Endpoints, invoke(s, e) PROVE OrderInv'
  BY <1>3, OrderInvoke
<1>4. ASSUME NEW s \in Sides, NEW e \in Endpoints, registerHandler(s, e) PROVE OrderInv'
  BY <1>4, OrderRegister
<1>5. ASSUME NEW s \in Sides, NEW e \in Endpoints, removeHandler(s, e) PROVE OrderInv'
  BY <1>5, OrderRemove
<1>6. ASSUME NEW s \in Sides, NEW m \in running[s], NEW error \in BOOLEAN, HandlerEnds(s, m, error)
      PROVE  OrderInv'
  BY <1>6, OrderHandlerEnds
<1>7. CASE UNCHANGED vars
  <2>1. UNCHANGED <<port, messageQueue, wire, messageCache, started, made, handlerMap>>
    BY <1>7 DEF vars, channelVars, handlerVars, callVars
  <2>2. (\A t \in Sides : Sent(t)' = Sent(t)) /\ PortUsed'
    BY <2>1 DEF Sent, PortUsed, OrderInv
  <2>. QED
    BY <2>1, <2>2, OrderSame
<1>. QED
  BY <1>1, <1>2, <1>3, <1>4, <1>5, <1>6, <1>7 DEF Next

LEMMA OrderInitial == Init => OrderInv
<1> SUFFICES ASSUME Init PROVE OrderInv
  OBVIOUS
<1>1. /\ \A s \in Sides : /\ messageQueue[s] = <<>> /\ wire[s] = <<>> /\ made[s] = <<>>
                          /\ \A n \in Names : messageCache[s][n] = <<>>
                          /\ \A e \in Endpoints : started[s][e] = <<>>
      /\ Endpoints \subseteq Names
  BY DEF Init, Names
<1>2. PortUsed /\ CacheUsed
  BY <1>1 DEF PortUsed, CacheUsed
<1>3. ASSUME NEW s \in Sides, NEW e \in Served[Peer(s)]
      PROVE  InOrder(Arrived(s, e), Sent(s), e, Calls(s, e))
  <2>1. e \in Endpoints /\ Peer(s) \in Sides
    BY ConstantsAssumption, Peers
  <2>2. <<>> \o <<>> = <<>> /\ Numbers(<<>>) = <<>> /\ ToSet(<<>>) = {} /\ DOMAIN <<>> = {}
    BY DEF Numbers, ToSet
  <2>3. Arrived(s, e) = <<>> /\ Sent(s) = <<>>
    BY <1>1, <2>1, <2>2 DEF Arrived, Sent
  <2>4. Calls(s, e) = {}
    BY <1>1 DEF Calls
  <2>. QED
    BY <2>2, <2>3, <2>4 DEF InOrder
<1>. QED
  BY <1>2, <1>3 DEF OrderInv, CallsInOrder, Arrived, Sent, Calls

\* The calls of an endpoint are started once each and in the order in which they were made:
\* none is lost, repeated or overtaken in the queue before the port, on the wire, or in the
\* cache before the handler (createMessagePort's queue, #onMessage, registerHandler).
THEOREM CallsStartInOrder == Spec => []CallsInOrder
<1>1. Init => Inv /\ TokenInv /\ OrderInv
  BY Initial, TokenInitial, OrderInitial
<1>2. Inv /\ TokenInv /\ OrderInv /\ [Next]_vars => (Inv /\ TokenInv /\ OrderInv)'
  BY Inductive, TokenInductive, OrderInductive
<1>3. OrderInv => CallsInOrder
  BY DEF OrderInv
<1>. QED
  BY <1>1, <1>2, <1>3, PTL DEF Spec
=============================================================================
