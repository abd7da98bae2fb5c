-------------------------- MODULE McpServers_proofs --------------------------
(***************************************************************************)
(* Proofs about McpServers for any clients, connections and calls: its     *)
(* types, that the registry of tools and servers is true, and that no      *)
(* connection is lost sight of.                                            *)
(***************************************************************************)
EXTENDS McpServers, TLAPS

(***************************************************************************)
(* The inductive invariant                                                 *)
(***************************************************************************)

Lives == {"none", "created", "connecting", "listing", "undoing",
          "aborting", "serving", "closing", "ended", "over", "failed"}

LifeTypes ==
  /\ runtime \in Client \cup {None} /\ tools \in SUBSET Client
  /\ start \in [Client -> {"none", "waiting", "cancelling", "ok", "failed"}]
  /\ life \in [Client -> Lives]
  /\ hit \in SUBSET Client /\ signal \in SUBSET Client
  /\ target \in [Client -> Client \cup {None}] /\ robbed \in SUBSET Client

RequestTypes ==
  /\ boot \in {"idle", "waiting", "over"} /\ booted \in Client \cup {None}
  /\ boot = "waiting" => booted \in Client
  /\ disable \in {"idle", "waiting", "forcing"} /\ disabled \in Client \cup {None}
  /\ disable # "idle" => disabled \in Client

ConnTypes ==
  /\ conn \in [Conn -> {"none", "new", "connecting", "open", "closing", "done"}]
  /\ owner \in [Conn -> Client \cup {None}] /\ kill \in SUBSET Conn
  /\ ready \in [Conn -> {"pending", "ok", "error", "told"}]
  /\ current \in [Client -> Conn \cup {None}] /\ old \in [Client -> SUBSET Conn]
  /\ awaited \in [Client -> SUBSET Conn]
  /\ dialled \in [Client \cup Call -> Conn \cup {None}] /\ session \in SUBSET Client

CallTypes ==
  /\ call \in [Call -> {"idle", "offered", "calling", "lock", "dialling", "listing", "over"}]
  /\ callee \in [Call -> Client \cup {None}] /\ attempt \in [Call -> 0..2]
  /\ revived \in SUBSET Client

\* A call is of a client that has been in the tool list, and retries once.
CallOK(t) ==
  /\ call[t] \notin {"idle", "over"} =>
       callee[t] \in Client /\ life[callee[t]] \in {"serving", "closing", "ended"}
  /\ call[t] \in {"idle", "over"} => attempt[t] = 0
  /\ call[t] = "offered" => attempt[t] <= 1
  /\ call[t] \notin {"idle", "over", "offered"} => attempt[t] \in 1..2

\* The entry is that of the one client whose lifecycle task is under way.
Under(c) == life[c] \notin {"none", "ended", "over", "failed"}

Entry ==
  /\ \A c \in Client : start[c] = "none" => life[c] = "none"
  /\ \A c \in Client : start[c] = "failed" => Over(c)
  /\ \A c \in tools : life[c] \in {"serving", "closing"}
  /\ robbed = {} => \A c \in Client : /\ Under(c) => runtime = c
                                      /\ life[c] = "serving" => tools = {c}
                                      /\ life[c] = "closing" => target[c] = c

\* Whose outcome is waited for is the current connection, unless that was dropped.
Waits(w, c) == dialled[w] \in Conn /\ current[c] \in {dialled[w], None}

Dialling ==
  /\ \A c \in Client : life[c] = "connecting" => Waits(c, c)
  /\ \A t \in Call : call[t] = "dialling" => Waits(t, callee[t])

ConnOK(k) ==
  /\ conn[k] # "none" => owner[k] \in Client
  /\ ready[k] = "error" => conn[k] \in {"closing", "done"}
  /\ conn[k] \in {"new", "connecting", "open"} /\ k \notin kill => current[owner[k]] = k

\* The client knows its connections, and its cleanup waits for them.
Known(k) ==
  robbed = {} /\ Live(k) /\ owner[k] \notin revived =>
    /\ life[owner[k]] \in {"connecting", "listing", "serving", "undoing", "aborting", "closing"}
    /\ life[owner[k]] \in {"connecting", "listing", "serving"} =>
         k = current[owner[k]] \/ k \in old[owner[k]]
    /\ life[owner[k]] \in {"undoing", "aborting", "closing"} => k \in awaited[owner[k]]

Types == LifeTypes /\ RequestTypes /\ ConnTypes /\ CallTypes

IInv ==
  /\ Types /\ Entry /\ Dialling
  /\ \A t \in Call : CallOK(t)
  /\ \A k \in Conn : ConnOK(k) /\ Known(k)

-----------------------------------------------------------------------------
(* Types *)

LEMMA DialTypes ==
  ASSUME ConnTypes, NEW w \in Client \cup Call, NEW c \in Client, NEW k \in Conn, Dial(w, c, k),
         awaited' = awaited, session' \in SUBSET Client
  PROVE  ConnTypes'
<1>1. Live(current[c]) => current[c] \in Conn
  BY DEF ConnTypes, Live
<1>2. kill' \in SUBSET Conn /\ old' \in [Client -> SUBSET Conn]
  BY <1>1 DEF ConnTypes, Dial
<1>3. current' \in [Client -> Conn \cup {None}] /\ owner' \in [Conn -> Client \cup {None}]
  BY DEF ConnTypes, Dial
<1>4. dialled' \in [Client \cup Call -> Conn \cup {None}]
  BY DEF ConnTypes, Dial
<1>5. conn' \in [Conn -> {"none", "new", "connecting", "open", "closing", "done"}] /\ ready' = ready
  BY DEF ConnTypes, Dial
<1>6. QED BY <1>2, <1>3, <1>4, <1>5 DEF ConnTypes

LEMMA ReadsTypes ==
  ASSUME ConnTypes, NEW w \in Client \cup Call, Reads(w) \/ UNCHANGED connVars,
         kill' \in SUBSET Conn, current' \in [Client -> Conn \cup {None}],
         old' \in [Client -> SUBSET Conn], awaited' \in [Client -> SUBSET Conn]
  PROVE  ConnTypes'
<1>1. CASE Reads(w)
  BY <1>1 DEF ConnTypes, Reads, liveVars
<1>2. CASE UNCHANGED connVars
  BY <1>2 DEF ConnTypes, connVars
<1>3. QED BY <1>1, <1>2

LEMMA DropTypes ==
  ASSUME ConnTypes, NEW c \in Client, DropCurrent(c) \/ (TrackCurrent(c) /\ kill' = kill)
  PROVE  /\ kill' \in SUBSET Conn /\ current' \in [Client -> Conn \cup {None}]
         /\ old' \in [Client -> SUBSET Conn]
<1>1. Live(current[c]) => current[c] \in Conn
  BY DEF ConnTypes, Live
<1>2. QED BY <1>1 DEF ConnTypes, DropCurrent, TrackCurrent

LEMMA CleansUpTypes ==
  ASSUME ConnTypes, NEW c \in Client, NEW d \in Client, CleansUp(c, d)
  PROVE  /\ kill' \in SUBSET Conn /\ current' \in [Client -> Conn \cup {None}]
         /\ old' \in [Client -> SUBSET Conn] /\ awaited' \in [Client -> SUBSET Conn]
<1>1. /\ kill' \in SUBSET Conn /\ current' \in [Client -> Conn \cup {None}]
      /\ old' \in [Client -> SUBSET Conn]
  BY DropTypes DEF CleansUp
<1>2. QED BY <1>1 DEF CleansUp, ConnTypes

LEMMA ForgetsTypes ==
  ASSUME ConnTypes, NEW c, Forgets(c), UNCHANGED <<connVars, kill, current>>
  PROVE  ConnTypes'
<1>1. old' \in [Client -> SUBSET Conn]
  BY DEF ConnTypes, Forgets
<1>2. QED BY <1>1 DEF ConnTypes, Forgets, connVars

LEMMA ConnTypesStay == ASSUME ConnTypes, UNCHANGED <<connVars, kill, holdVars, awaited>> PROVE ConnTypes'
BY DEF ConnTypes, connVars, holdVars

LEMMA ConnStepTypes == ASSUME ConnTypes, NEW k \in Conn, ConnOK(k), ConnStep(k) PROVE ConnTypes'
<1>1. conn' \in [Conn -> {"none", "new", "connecting", "open", "closing", "done"}]
      /\ owner' = owner /\ kill' \in SUBSET Conn
  BY DEF ConnTypes, ConnStep, ConnBegins, ConnNeverBegins, ConnOpens, ConnFails, ConnCancelled, ConnCloses
<1>2. ready' \in [Conn -> {"pending", "ok", "error", "told"}]
  BY DEF ConnTypes, ConnStep, ConnBegins, ConnNeverBegins, ConnOpens, ConnFails, ConnCancelled, ConnCloses
<1>3. current' = current /\ dialled' = dialled
  BY DEF ConnStep
<1>4. old' \in [Client -> SUBSET Conn] /\ awaited' \in [Client -> SUBSET Conn]
  BY DEF ConnTypes, ConnStep
<1>5. session' \in SUBSET Client
  BY DEF ConnTypes, ConnOK, ConnStep, ConnBegins, ConnNeverBegins, ConnOpens, ConnFails, ConnCancelled,
         ConnCloses
<1>6. QED BY <1>1, <1>2, <1>3, <1>4, <1>5 DEF ConnTypes

LEMMA TerminateTypes ==
  ASSUME LifeTypes, ConnTypes, NEW c \in Client, Terminate(c), start' = start, signal' \in SUBSET Client
  PROVE  LifeTypes' /\ ConnTypes'
<1>1. connVars' = connVars
  BY DEF Terminate
<1>2. CASE /\ runtime # None
           /\ life' = [life EXCEPT ![c] = "closing"]
           /\ target' = [target EXCEPT ![c] = runtime]
           /\ CleansUp(c, runtime)
           /\ robbed' = robbed \cup ({runtime} \ {c})
           /\ UNCHANGED tools
  <2>1. runtime \in Client
    BY <1>2 DEF LifeTypes
  <2>2. ConnTypes'
    BY <1>1, <1>2, <2>1, CleansUpTypes, ReadsTypes
  <2>3. runtime' = runtime /\ hit' \in SUBSET Client /\ life' \in [Client -> Lives]
    BY <1>2 DEF Terminate, LifeTypes, Lives
  <2>4. LifeTypes'
    BY <1>2, <2>1, <2>3 DEF LifeTypes
  <2>5. QED BY <2>2, <2>4
<1>3. CASE /\ runtime = None
           /\ life' = [life EXCEPT ![c] = "ended"]
           /\ target' = [target EXCEPT ![c] = None]
           /\ tools' = {}
           /\ UNCHANGED <<awaited, kill, holdVars, robbed>>
  <2>1. ConnTypes'
    BY <1>1, <1>3, ConnTypesStay
  <2>2. runtime' = runtime /\ hit' \in SUBSET Client /\ life' \in [Client -> Lives]
    BY <1>3 DEF Terminate, LifeTypes, Lives
  <2>3. LifeTypes'
    BY <1>3, <2>2 DEF LifeTypes
  <2>4. QED BY <2>1, <2>3
<1>4. QED BY <1>2, <1>3 DEF Terminate

LEMMA LifeStepTypes ==
  ASSUME LifeTypes, ConnTypes, NEW c \in Client, LifeStep(c)
  PROVE  LifeTypes' /\ ConnTypes'
<1> USE DEF Lives
<1>1. start' = start /\ signal' \in SUBSET Client
  BY DEF LifeStep, LifeTypes
<1>2. CASE LifeBegins(c)
  <2>1. LifeTypes'
    BY <1>1, <1>2 DEF LifeBegins, LifeTypes
  <2>2. ConnTypes'
    BY <1>2, DialTypes DEF LifeBegins, ConnTypes
  <2>3. QED BY <2>1, <2>2
<1>3. CASE LifeConnected(c)
  <2>1. LifeTypes'
    BY <1>1, <1>3 DEF LifeConnected, LifeTypes
  <2>2. ConnTypes'
    BY <1>3, ReadsTypes DEF LifeConnected, ConnTypes, holdVars
  <2>3. QED BY <2>1, <2>2
<1>4. CASE LifeNotConnected(c)
  <2>1. LifeTypes'
    BY <1>1, <1>4 DEF LifeNotConnected, LifeTypes
  <2>2. /\ kill' \in SUBSET Conn /\ current' \in [Client -> Conn \cup {None}]
        /\ old' \in [Client -> SUBSET Conn]
    BY <1>4, DropTypes DEF LifeNotConnected
  <2>3. ConnTypes'
    BY <1>4, <2>2, ReadsTypes DEF LifeNotConnected, ConnTypes
  <2>4. QED BY <2>1, <2>3
<1>5. CASE LifeListed(c)
  <2>1. LifeTypes'
    BY <1>1, <1>5 DEF LifeListed, LifeTypes
  <2>2. QED BY <1>5, <2>1, ConnTypesStay DEF LifeListed
<1>6. CASE LifeNotListed(c)
  <2>1. LifeTypes'
    BY <1>1, <1>6 DEF LifeNotListed, LifeTypes
  <2>2. ConnTypes'
    BY <1>6, CleansUpTypes, ReadsTypes DEF LifeNotListed
  <2>3. QED BY <2>1, <2>2
<1>7. CASE LifeUndone(c)
  <2>1. LifeTypes'
    BY <1>1, <1>7 DEF LifeUndone, LifeTypes
  <2>2. ConnTypes'
    BY <1>7, ForgetsTypes DEF LifeUndone
  <2>3. QED BY <2>1, <2>2
<1>8. CASE LifeAborts(c)
  <2>1. LifeTypes'
    BY <1>1, <1>8 DEF LifeAborts, LifeTypes
  <2>2. ConnTypes'
    BY <1>8, CleansUpTypes, ReadsTypes DEF LifeAborts
  <2>3. QED BY <2>1, <2>2
<1>9. CASE LifeAborted(c)
  <2>1. LifeTypes'
    BY <1>1, <1>9 DEF LifeAborted, LifeTypes
  <2>2. ConnTypes'
    BY <1>9, ForgetsTypes DEF LifeAborted
  <2>3. QED BY <2>1, <2>2
<1>10. CASE LifeStops(c) \/ LifeAbsorbs(c)
  BY <1>1, <1>10, TerminateTypes DEF LifeStops, LifeAbsorbs
<1>11. CASE LifeClosed(c)
  <2>1. LifeTypes'
    BY <1>1, <1>11 DEF LifeClosed, LifeTypes
  <2>2. ConnTypes'
    BY <1>11, ForgetsTypes DEF LifeClosed
  <2>3. QED BY <2>1, <2>2
<1>12. QED BY <1>2, <1>3, <1>4, <1>5, <1>6, <1>7, <1>8, <1>9, <1>10, <1>11 DEF LifeStep

LEMMA CallStepTypes ==
  ASSUME ConnTypes, CallTypes, LifeTypes, NEW t \in Call, CallOK(t), CallBegins(t) \/ CallStep(t)
  PROVE  ConnTypes' /\ CallTypes'
<1>1. awaited' = awaited
  BY DEF CallBegins, CallStep, lifeVars
<1>2. CASE Offered(t) \/ Called(t) \/ Answered(t) \/ Broken(t) \/ Relisted(t) \/ NotRelisted(t)
  <2>1. ConnTypes'
    BY <1>1, <1>2, ConnTypesStay DEF Offered, Called, Answered, Broken, Relisted, NotRelisted
  <2>2. revived' = revived
    BY <1>2 DEF Offered, Called, Answered, Broken, Relisted, NotRelisted
  <2>3. call' \in [Call -> {"idle", "offered", "calling", "lock", "dialling", "listing", "over"}]
    BY <1>2 DEF Offered, Called, Answered, Broken, Relisted, NotRelisted, CallEnds, CallTypes
  <2>4. callee' \in [Call -> Client \cup {None}]
    BY <1>2 DEF Offered, Called, Answered, Broken, Relisted, NotRelisted, CallEnds, CallTypes, LifeTypes
  <2>5. attempt' \in [Call -> 0..2]
    BY <1>2 DEF Offered, Called, Answered, Broken, Relisted, NotRelisted, CallEnds, CallTypes, CallOK
  <2>6. QED BY <2>1, <2>2, <2>3, <2>4, <2>5 DEF CallTypes
<1>3. ASSUME call[t] \notin {"idle", "over"} PROVE callee[t] \in Client
  BY <1>3 DEF CallOK
<1>4. CASE Reconnect(t)
  <2>1. callee[t] \in Client /\ session' \in SUBSET Client
    BY <1>3, <1>4 DEF Reconnect, ConnTypes
  <2>2. PICK k \in Conn : Dial(t, callee[t], k)
    BY <1>4 DEF Reconnect
  <2>3. ConnTypes'
    BY <1>1, <2>1, <2>2, DialTypes
  <2>4. CallTypes'
    BY <1>4, <2>1 DEF Reconnect, CallTypes
  <2>5. QED BY <2>3, <2>4
<1>5. CASE Reconnected(t)
  <2>1. ConnTypes'
    BY <1>1, <1>5, ReadsTypes DEF Reconnected, ConnTypes, holdVars
  <2>2. CallTypes'
    BY <1>5 DEF Reconnected, CallTypes
  <2>3. QED BY <2>1, <2>2
<1>6. ASSUME CallEnds(t), revived' = revived PROVE CallTypes'
  BY <1>6 DEF CallEnds, CallTypes
<1>7. CASE NotReconnected(t)
  <2>1. callee[t] \in Client
    BY <1>3, <1>7 DEF NotReconnected
  <2>2. /\ kill' \in SUBSET Conn /\ current' \in [Client -> Conn \cup {None}]
        /\ old' \in [Client -> SUBSET Conn]
    BY <1>7, <2>1, DropTypes DEF NotReconnected
  <2>3. awaited' \in [Client -> SUBSET Conn]
    BY <1>1 DEF ConnTypes
  <2>4. ConnTypes'
    BY <1>7, <2>2, <2>3, ReadsTypes DEF NotReconnected
  <2>5. QED BY <1>6, <1>7, <2>4 DEF NotReconnected
<1>8. CASE CallCancelled(t)
  <2>1. callee[t] \in Client
    BY <1>3, <1>8 DEF CallCancelled
  <2>2. CASE DropCurrent(callee[t]) /\ Reads(t)
    <3>1. /\ kill' \in SUBSET Conn /\ current' \in [Client -> Conn \cup {None}]
          /\ old' \in [Client -> SUBSET Conn]
      BY <2>1, <2>2, DropTypes
    <3>2. awaited' \in [Client -> SUBSET Conn]
      BY <1>1 DEF ConnTypes
    <3>3. QED BY <1>6, <1>8, <2>2, <3>1, <3>2, ReadsTypes DEF CallCancelled
  <2>3. CASE UNCHANGED <<connVars, kill, holdVars>>
    BY <1>1, <1>6, <1>8, <2>3, ConnTypesStay DEF CallCancelled
  <2>4. QED BY <1>8, <2>2, <2>3 DEF CallCancelled
<1>9. QED BY <1>2, <1>4, <1>5, <1>7, <1>8 DEF CallBegins, CallStep

LEMMA CancelLifeTypes ==
  ASSUME LifeTypes, ConnTypes, NEW c \in Client, CancelLife(c)
  PROVE  hit' \in SUBSET Client /\ kill' \in SUBSET Conn
BY DEF CancelLife, LifeTypes, ConnTypes

\* What is neither of a connection, of a lifecycle task nor of a call.
Request(c) == Enable(c) \/ InitStarts(c) \/ StartReturns(c) \/ StartTimesOut(c) \/ StartGivesUp(c)
Other == InitEnds \/ Disable \/ DisableReturns \/ DisableTimesOut

LEMMA RequestStepTypes ==
  ASSUME LifeTypes, RequestTypes, ConnTypes, NEW c \in Client, Request(c)
  PROVE  LifeTypes' /\ RequestTypes' /\ ConnTypes'
<1>1. CASE Enable(c) \/ InitStarts(c)
  <2>1. LifeTypes'
    BY <1>1 DEF Enable, InitStarts, Starts, LifeTypes, Lives
  <2>2. RequestTypes'
    BY <1>1 DEF Enable, InitStarts, Starts, RequestTypes, bootVars, disableVars
  <2>3. ConnTypes'
    BY <1>1, ConnTypesStay DEF Enable, InitStarts, Starts
  <2>4. QED BY <2>1, <2>2, <2>3
<1>2. CASE StartReturns(c) \/ StartGivesUp(c)
  <2>1. LifeTypes'
    BY <1>2 DEF StartReturns, StartGivesUp, Pops, LifeTypes
  <2>2. RequestTypes'
    BY <1>2 DEF StartReturns, StartGivesUp, RequestTypes, bootVars, disableVars
  <2>3. ConnTypes'
    BY <1>2, ConnTypesStay DEF StartReturns, StartGivesUp
  <2>4. QED BY <2>1, <2>2, <2>3
<1>3. CASE StartTimesOut(c)
  <2>1. hit' \in SUBSET Client /\ kill' \in SUBSET Conn
    BY <1>3, CancelLifeTypes DEF StartTimesOut
  <2>2. LifeTypes'
    BY <1>3, <2>1 DEF StartTimesOut, LifeTypes
  <2>3. RequestTypes'
    BY <1>3 DEF StartTimesOut, RequestTypes, bootVars, disableVars
  <2>4. ConnTypes'
    BY <1>3, <2>1 DEF StartTimesOut, ConnTypes, connVars, holdVars
  <2>5. QED BY <2>2, <2>3, <2>4
<1>4. QED BY <1>1, <1>2, <1>3 DEF Request

LEMMA OtherStepTypes ==
  ASSUME LifeTypes, RequestTypes, ConnTypes, Other
  PROVE  LifeTypes' /\ RequestTypes' /\ ConnTypes'
<1>1. CASE InitEnds
  <2>1. LifeTypes'
    BY <1>1 DEF InitEnds, Pops, LifeTypes, lifeVars
  <2>2. RequestTypes'
    BY <1>1 DEF InitEnds, RequestTypes, disableVars
  <2>3. ConnTypes'
    BY <1>1, ConnTypesStay DEF InitEnds, lifeVars
  <2>4. QED BY <2>1, <2>2, <2>3
<1>2. CASE Disable
  <2>1. LifeTypes'
    BY <1>2 DEF Disable, LifeTypes
  <2>2. RequestTypes'
    BY <1>2 DEF Disable, RequestTypes, LifeTypes, bootVars
  <2>3. ConnTypes'
    BY <1>2, ConnTypesStay DEF Disable
  <2>4. QED BY <2>1, <2>2, <2>3
<1>3. CASE DisableReturns
  <2>1. LifeTypes'
    BY <1>3 DEF DisableReturns, LifeTypes, lifeVars
  <2>2. RequestTypes'
    BY <1>3 DEF DisableReturns, RequestTypes, bootVars
  <2>3. ConnTypes'
    BY <1>3, ConnTypesStay DEF DisableReturns, lifeVars
  <2>4. QED BY <2>1, <2>2, <2>3
<1>4. CASE DisableTimesOut
  <2>1. disabled \in Client
    BY <1>4 DEF DisableTimesOut, RequestTypes
  <2>2. hit' \in SUBSET Client /\ kill' \in SUBSET Conn
    BY <1>4, <2>1, CancelLifeTypes DEF DisableTimesOut
  <2>3. LifeTypes'
    BY <1>4, <2>2 DEF DisableTimesOut, LifeTypes, lifeVars
  <2>4. RequestTypes'
    BY <1>4, <2>1 DEF DisableTimesOut, RequestTypes, bootVars
  <2>5. ConnTypes'
    BY <1>4, <2>2 DEF DisableTimesOut, ConnTypes, connVars, holdVars, lifeVars
  <2>6. QED BY <2>3, <2>4, <2>5
<1>5. QED BY <1>1, <1>2, <1>3, <1>4 DEF Other

LEMMA NextCases ==
  ASSUME Next
  PROVE  \/ \E k \in Conn : ConnStep(k)
         \/ \E c \in Client : LifeStep(c) \/ Request(c)
         \/ Other
         \/ \E t \in Call : CallBegins(t) \/ CallStep(t)
BY DEF Next, Request, Other

LEMMA TypesStep ==
  ASSUME Types, \A k \in Conn : ConnOK(k), \A t \in Call : CallOK(t), [Next]_vars
  PROVE  Types'
<1> USE DEF Types
<1>1. ASSUME NEW k \in Conn, ConnStep(k) PROVE Types'
  <2>1. UNCHANGED <<runtime, tools, start, life, hit, signal, target, robbed>>
    BY <1>1 DEF ConnStep
  <2>2. UNCHANGED <<bootVars, disableVars, callVars, revived>>
    BY <1>1 DEF ConnStep
  <2>3. QED BY <1>1, <2>1, <2>2, ConnStepTypes
            DEF LifeTypes, RequestTypes, CallTypes, bootVars, disableVars, callVars
<1>2. ASSUME NEW c \in Client, LifeStep(c) PROVE Types'
  <2>1. UNCHANGED <<bootVars, disableVars, callVars, revived>>
    BY <1>2 DEF LifeStep
  <2>2. QED BY <1>2, <2>1, LifeStepTypes DEF RequestTypes, CallTypes, bootVars, disableVars, callVars
<1>3. ASSUME NEW c \in Client, Request(c) PROVE Types'
  <2>1. UNCHANGED <<callVars, revived>>
    BY <1>3 DEF Request, Enable, InitStarts, Starts, StartReturns, StartTimesOut, StartGivesUp
  <2>2. QED BY <1>3, <2>1, RequestStepTypes DEF CallTypes, callVars
<1>4. CASE Other
  <2>1. UNCHANGED <<callVars, revived>>
    BY <1>4 DEF Other, InitEnds, Disable, DisableReturns, DisableTimesOut
  <2>2. QED BY <1>4, <2>1, OtherStepTypes DEF CallTypes, callVars
<1>5. ASSUME NEW t \in Call, CallBegins(t) \/ CallStep(t) PROVE Types'
  <2>1. UNCHANGED <<runtime, lifeVars, hit, bootVars, disableVars, robbed>>
    BY <1>5 DEF CallBegins, CallStep
  <2>2. QED BY <1>5, <2>1, CallStepTypes DEF LifeTypes, RequestTypes, lifeVars, bootVars, disableVars
<1>6. CASE UNCHANGED vars
  BY <1>6 DEF LifeTypes, RequestTypes, ConnTypes, CallTypes, vars, lifeVars, bootVars, disableVars,
              connVars, holdVars, callVars
<1>7. QED BY <1>1, <1>2, <1>3, <1>4, <1>5, <1>6, NextCases

-----------------------------------------------------------------------------
(* The entry of the server *)

\* A lifecycle task moves from where it is under way, and nothing else does.
LifeMoves(c) ==
  /\ Under(c) /\ life'[c] \in Lives \ {"none", "created"}
  /\ \A d \in Client \ {c} : life'[d] = life[d]
  /\ robbed \subseteq robbed' /\ runtime' \in {runtime, None}

LEMMA LifeStepMoves ==
  ASSUME LifeTypes, NEW c \in Client, LifeStep(c)
  PROVE  LifeMoves(c)
<1> USE DEF Lives
<1>1. life[c] \in Lives /\ Under(c)
  BY DEF LifeTypes, Under, LifeStep, LifeBegins, LifeConnected, LifeNotConnected, LifeListed, LifeNotListed,
         LifeUndone, LifeAborts, LifeAborted, LifeStops, LifeClosed, LifeAbsorbs
<1>2. CASE LifeStops(c) \/ LifeAbsorbs(c)
  <2>1. Terminate(c)
    BY <1>2 DEF LifeStops, LifeAbsorbs
  <2>2. QED BY <1>1, <2>1 DEF Terminate, LifeMoves, LifeTypes
<1>3. CASE LifeClosed(c)
  BY <1>1, <1>3 DEF LifeClosed, LifeMoves, LifeTypes
<1>4. CASE \/ LifeBegins(c) \/ LifeConnected(c) \/ LifeNotConnected(c) \/ LifeListed(c)
           \/ LifeNotListed(c) \/ LifeUndone(c) \/ LifeAborts(c) \/ LifeAborted(c)
  <2>1. UNCHANGED <<runtime, robbed>>
    BY <1>4 DEF LifeBegins, LifeConnected, LifeNotConnected, LifeListed, LifeNotListed, LifeUndone,
                LifeAborts, LifeAborted
  <2>2. PICK l \in Lives \ {"none", "created"} : life' = [life EXCEPT ![c] = l]
    BY <1>4 DEF LifeBegins, LifeConnected, LifeNotConnected, LifeListed, LifeNotListed, LifeUndone,
                LifeAborts, LifeAborted
  <2>3. QED BY <1>1, <2>1, <2>2 DEF LifeMoves, LifeTypes
<1>5. QED BY <1>2, <1>3, <1>4 DEF LifeStep

\* The task of one client is under way while no entry was robbed.
LEMMA OneUnder ==
  ASSUME Entry, robbed = {}, NEW c \in Client, Under(c), NEW d \in Client, Under(d)
  PROVE  c = d
BY DEF Entry

LEMMA LifeStepEntry ==
  ASSUME Types, Entry, NEW c \in Client, LifeStep(c)
  PROVE  Entry'
<1> USE DEF Lives
<1>1. LifeTypes /\ LifeMoves(c) /\ start' = start
  BY LifeStepMoves DEF Types, LifeStep
<1>2. ASSUME NEW d \in Client PROVE (start'[d] = "none" => life'[d] = "none") /\ (start'[d] = "failed" => Over(d)')
  <2>1. CASE d = c
    BY <1>1, <2>1 DEF Entry, LifeMoves, Under, Over
  <2>2. CASE d # c
    BY <1>1, <2>2 DEF Entry, LifeMoves, Over
  <2>3. QED BY <2>1, <2>2
<1>3. ASSUME robbed' = {}, NEW d \in Client \ {c} PROVE ~Under(d) /\ ~Under(d)' /\ life'[d] \notin {"serving", "closing"}
  <2>1. robbed = {} /\ Under(c) /\ life'[d] = life[d]
    BY <1>1, <1>3 DEF LifeMoves
  <2>2. ~Under(d)
    BY <1>3, <2>1, OneUnder
  <2>3. QED BY <2>1, <2>2 DEF Under
<1>4. ASSUME robbed' = {} PROVE runtime = c /\ robbed = {}
  BY <1>1, <1>4 DEF LifeMoves, Entry
\* One fact per way the tools, the entry and the cleaned up client change.
<1>5. CASE LifeBegins(c) \/ LifeConnected(c)
  <2>1. /\ UNCHANGED <<runtime, tools, robbed>> /\ life[c] \notin {"serving", "closing"}
        /\ life'[c] \notin {"serving", "closing"}
    BY <1>1, <1>5 DEF LifeBegins, LifeConnected, LifeTypes
  <2>2. \A d \in tools' : life'[d] \in {"serving", "closing"}
    BY <1>1, <2>1 DEF Entry, LifeMoves, LifeTypes
  <2>3. QED BY <1>2, <1>3, <1>4, <2>1, <2>2 DEF Entry
<1>6. CASE \/ LifeNotConnected(c) \/ LifeNotListed(c) \/ LifeUndone(c) \/ LifeAborts(c) \/ LifeAborted(c)
  <2>1. /\ UNCHANGED <<runtime, tools, robbed>> /\ life[c] \notin {"serving", "closing"}
        /\ life'[c] \notin {"serving", "closing"}
    BY <1>1, <1>6 DEF LifeNotConnected, LifeNotListed, LifeUndone, LifeAborts, LifeAborted, LifeTypes
  <2>2. \A d \in tools' : life'[d] \in {"serving", "closing"}
    BY <1>1, <2>1 DEF Entry, LifeMoves, LifeTypes
  <2>3. QED BY <1>2, <1>3, <1>4, <2>1, <2>2 DEF Entry
<1>7. CASE LifeListed(c)
  <2>1. UNCHANGED <<runtime, robbed>> /\ life'[c] = "serving" /\ tools' = {c}
    BY <1>1, <1>7 DEF LifeListed, LifeTypes
  <2>2. QED BY <1>2, <1>3, <1>4, <2>1 DEF Entry
<1>8. CASE LifeStops(c) \/ LifeAbsorbs(c)
  <2>1. Terminate(c) /\ life[c] \in {"serving", "closing"}
    BY <1>8 DEF LifeStops, LifeAbsorbs
  <2>2. CASE /\ runtime # None
             /\ life' = [life EXCEPT ![c] = "closing"]
             /\ target' = [target EXCEPT ![c] = runtime]
             /\ robbed' = robbed \cup ({runtime} \ {c})
             /\ UNCHANGED tools
    <3>1. life'[c] = "closing" /\ target'[c] = runtime /\ runtime' = runtime
      BY <1>1, <2>1, <2>2 DEF LifeTypes, Terminate
    <3>2. \A d \in tools' : life'[d] \in {"serving", "closing"}
      BY <1>1, <2>2, <3>1 DEF Entry, LifeMoves, LifeTypes
    <3>3. QED BY <1>2, <1>3, <1>4, <3>1, <3>2 DEF Entry
  <2>3. CASE /\ runtime = None /\ life' = [life EXCEPT ![c] = "ended"] /\ tools' = {}
             /\ UNCHANGED robbed
    <3>1. life'[c] = "ended"
      BY <1>1, <2>3 DEF LifeTypes
    <3>2. None \notin Client
      BY McpAssumption
    <3>3. robbed' # {}
      BY <1>4, <2>3, <3>2
    <3>4. QED BY <1>2, <2>3, <3>3 DEF Entry
  <2>4. QED BY <2>1, <2>2, <2>3 DEF Terminate
<1>9. CASE LifeClosed(c)
  <2>1. life'[c] = "ended" /\ tools' = {}
    BY <1>1, <1>9 DEF LifeClosed, LifeTypes
  <2>2. ~Under(c)'
    BY <2>1 DEF Under
  <2>3. QED BY <1>2, <1>3, <2>1, <2>2 DEF Entry
<1>10. QED BY <1>5, <1>6, <1>7, <1>8, <1>9 DEF LifeStep

LEMMA RequestEntry ==
  ASSUME Types, Entry, NEW c \in Client, Request(c)
  PROVE  Entry' /\ robbed \subseteq robbed'
<1>1. LifeTypes
  BY DEF Types
<1>2. CASE Enable(c) \/ InitStarts(c)
  <2>1. /\ start[c] = "none" /\ runtime = None /\ start' = [start EXCEPT ![c] = "waiting"]
        /\ life' = [life EXCEPT ![c] = "created"] /\ runtime' = c
        /\ UNCHANGED <<tools, target, robbed>>
    BY <1>2 DEF Enable, InitStarts, Starts, IsNext
  <2>2. /\ start'[c] = "waiting" /\ life'[c] = "created" /\ life[c] = "none"
        /\ \A d \in Client \ {c} : start'[d] = start[d] /\ life'[d] = life[d]
    BY <1>1, <2>1 DEF Entry, LifeTypes
  <2>3. c \notin tools
    BY <2>2 DEF Entry
  <2>4. ASSUME robbed = {}, NEW d \in Client PROVE ~Under(d)
    <3>1. None \notin Client
      BY McpAssumption
    <3>2. QED BY <2>1, <2>4, <3>1 DEF Entry
  <2>5. \A d \in Client : /\ start'[d] = "none" => life'[d] = "none"
                          /\ start'[d] = "failed" => Over(d)'
    BY <2>2 DEF Entry, Over
  <2>6. \A d \in tools' : life'[d] \in {"serving", "closing"}
    BY <1>1, <2>1, <2>2, <2>3 DEF Entry, LifeTypes
  <2>7. ASSUME robbed' = {}, NEW d \in Client
        PROVE  /\ Under(d)' => runtime' = d
               /\ life'[d] \notin {"serving", "closing"}
    <3>1. CASE d = c
      BY <2>1, <2>2, <3>1
    <3>2. CASE d # c
      BY <2>1, <2>2, <2>4, <2>7, <3>2 DEF Under
    <3>3. QED BY <3>1, <3>2
  <2>8. QED BY <2>1, <2>5, <2>6, <2>7 DEF Entry
<1>3. CASE StartTimesOut(c)
  <2>1. /\ start[c] = "waiting" /\ start' = [start EXCEPT ![c] = "cancelling"]
        /\ UNCHANGED <<runtime, tools, life, target, robbed>>
    BY <1>3 DEF StartTimesOut
  <2>2. \A d \in Client : /\ start'[d] = "none" => life'[d] = "none"
                          /\ start'[d] = "failed" => Over(d)'
    BY <1>1, <2>1 DEF Entry, Over, LifeTypes
  <2>3. QED BY <2>1, <2>2 DEF Entry, Under
<1>4. CASE /\ start[c] = "waiting" /\ start' = [start EXCEPT ![c] = "ok"]
           /\ UNCHANGED <<runtime, tools, life, target, robbed>>
  <2>1. \A d \in Client : /\ start'[d] = "none" => life'[d] = "none"
                          /\ start'[d] = "failed" => Over(d)'
    BY <1>1, <1>4 DEF Entry, Over, LifeTypes
  <2>2. QED BY <1>4, <2>1 DEF Entry, Under
<1>5. CASE /\ start[c] # "none" /\ Over(c) /\ start' = [start EXCEPT ![c] = "failed"] /\ Pops(c)
           /\ UNCHANGED <<tools, life, target>>
  <2>1. \A d \in Client : /\ start'[d] = "none" => life'[d] = "none"
                          /\ start'[d] = "failed" => Over(d)'
    BY <1>1, <1>5 DEF Entry, Over, LifeTypes
  <2>2. ASSUME robbed' = {}, NEW d \in Client PROVE robbed = {} /\ ~Under(d)
    <3>1. robbed = {} /\ runtime \in {c, None}
      BY <1>5, <2>2 DEF Pops
    <3>2. ~Under(c) /\ None \notin Client
      BY <1>5, McpAssumption DEF Over, Under
    <3>3. QED BY <3>1, <3>2 DEF Entry
  <2>3. robbed \subseteq robbed'
    BY <1>5 DEF Pops
  <2>4. QED BY <1>5, <2>1, <2>2, <2>3 DEF Entry, Under
<1>6. CASE StartReturns(c)
  BY <1>4, <1>5, <1>6 DEF StartReturns, Over
<1>7. CASE StartGivesUp(c)
  BY <1>5, <1>7 DEF StartGivesUp
<1>8. QED BY <1>2, <1>3, <1>6, <1>7 DEF Request

LEMMA EntryStays ==
  ASSUME Entry, UNCHANGED <<runtime, tools, start, life, target, robbed>>
  PROVE  Entry'
BY DEF Entry, Under, Over

LEMMA OtherEntry ==
  ASSUME Types, Entry, Other
  PROVE  Entry' /\ robbed \subseteq robbed'
<1>1. CASE Disable \/ DisableReturns \/ DisableTimesOut
  <2>1. UNCHANGED <<runtime, tools, start, life, target, robbed>>
    BY <1>1 DEF Disable, DisableReturns, DisableTimesOut, lifeVars
  <2>2. QED BY <2>1, EntryStays
<1>2. CASE InitEnds
  <2>1. UNCHANGED <<tools, start, life, target>> /\ boot = "waiting"
    BY <1>2 DEF InitEnds, lifeVars
  <2>2. booted \in Client
    BY <2>1 DEF Types, RequestTypes
  <2>3. CASE UNCHANGED <<runtime, robbed>>
    BY <2>1, <2>3, EntryStays
  <2>4. CASE start[booted] = "failed" /\ Pops(booted)
    <3>1. ASSUME robbed' = {}, NEW d \in Client PROVE robbed = {} /\ ~Under(d)
      <4>1. robbed = {} /\ runtime \in {booted, None}
        BY <2>4, <3>1 DEF Pops
      <4>2. ~Under(booted) /\ None \notin Client
        BY <2>2, <2>4, McpAssumption DEF Entry, Over, Under
      <4>3. QED BY <4>1, <4>2 DEF Entry
    <3>2. robbed \subseteq robbed'
      BY <2>4 DEF Pops
    <3>3. \A d \in Client : /\ start'[d] = "none" => life'[d] = "none"
                            /\ start'[d] = "failed" => Over(d)'
      BY <2>1 DEF Entry, Over
    <3>4. QED BY <2>1, <3>1, <3>2, <3>3 DEF Entry, Under
  <2>5. QED BY <1>2, <2>3, <2>4 DEF InitEnds
<1>3. QED BY <1>1, <1>2 DEF Other

LEMMA EntryStep ==
  ASSUME Types, Entry, [Next]_vars
  PROVE  Entry' /\ robbed \subseteq robbed'
<1>1. ASSUME NEW k \in Conn, ConnStep(k) PROVE Entry' /\ robbed \subseteq robbed'
  BY <1>1, EntryStays DEF ConnStep
<1>2. ASSUME NEW c \in Client, LifeStep(c) PROVE Entry' /\ robbed \subseteq robbed'
  BY <1>2, LifeStepEntry, LifeStepMoves DEF LifeMoves, Types
<1>3. ASSUME NEW t \in Call, CallBegins(t) \/ CallStep(t) PROVE Entry' /\ robbed \subseteq robbed'
  BY <1>3, EntryStays DEF CallBegins, CallStep, lifeVars
<1>4. CASE UNCHANGED vars
  BY <1>4, EntryStays DEF vars, lifeVars
<1>5. QED BY <1>1, <1>2, <1>3, <1>4, NextCases, RequestEntry, OtherEntry

-----------------------------------------------------------------------------
(* The calls *)

LEMMA ServedOn ==
  ASSUME Types, Entry, [Next]_vars, NEW d \in Client, life[d] \in {"serving", "closing", "ended"}
  PROVE  life'[d] \in {"serving", "closing", "ended"}
<1>1. ASSUME NEW c \in Client, LifeStep(c) PROVE life'[d] \in {"serving", "closing", "ended"}
  <2>1. LifeMoves(c) /\ LifeTypes
    BY <1>1, LifeStepMoves DEF Types
  <2>2. CASE c # d
    BY <2>1, <2>2 DEF LifeMoves
  <2>3. CASE c = d
    <3>1. LifeStops(c) \/ LifeClosed(c) \/ LifeAbsorbs(c)
      BY <1>1, <2>3 DEF LifeStep, LifeBegins, LifeConnected, LifeNotConnected, LifeListed, LifeNotListed,
                        LifeUndone, LifeAborts, LifeAborted
    <3>2. QED BY <2>1, <2>3, <3>1 DEF LifeStops, LifeClosed, LifeAbsorbs, Terminate, LifeTypes
  <2>4. QED BY <2>2, <2>3
<1>2. ASSUME NEW c \in Client, Request(c) PROVE life'[d] = life[d]
  <2>1. CASE Enable(c) \/ InitStarts(c)
    <3>1. start[c] = "none" /\ life' = [life EXCEPT ![c] = "created"]
      BY <2>1 DEF Enable, InitStarts, Starts, IsNext
    <3>2. c # d
      BY <3>1 DEF Entry
    <3>3. QED BY <3>1, <3>2 DEF Types, LifeTypes
  <2>2. CASE StartReturns(c) \/ StartTimesOut(c) \/ StartGivesUp(c)
    BY <2>2 DEF StartReturns, StartTimesOut, StartGivesUp
  <2>3. QED BY <1>2, <2>1, <2>2 DEF Request
<1>3. CASE Other
  BY <1>3 DEF Other, InitEnds, Disable, DisableReturns, DisableTimesOut, lifeVars
<1>4. ASSUME NEW k \in Conn, ConnStep(k) PROVE life' = life
  BY <1>4 DEF ConnStep
<1>5. ASSUME NEW t \in Call, CallBegins(t) \/ CallStep(t) PROVE life' = life
  BY <1>5 DEF CallBegins, CallStep, lifeVars
<1>6. CASE UNCHANGED vars
  BY <1>6 DEF vars, lifeVars
<1>7. QED BY <1>1, <1>2, <1>3, <1>4, <1>5, <1>6, NextCases

LEMMA CallUnchanged ==
  ASSUME Next, \A t \in Call : ~CallBegins(t) /\ ~CallStep(t)
  PROVE  UNCHANGED <<callVars, revived>>
<1>1. ASSUME NEW k \in Conn, ConnStep(k) PROVE UNCHANGED <<callVars, revived>>
  BY <1>1 DEF ConnStep
<1>2. ASSUME NEW c \in Client, LifeStep(c) PROVE UNCHANGED <<callVars, revived>>
  BY <1>2 DEF LifeStep
<1>3. ASSUME NEW c \in Client, Request(c) PROVE UNCHANGED <<callVars, revived>>
  BY <1>3 DEF Request, Enable, InitStarts, Starts, StartReturns, StartTimesOut, StartGivesUp
<1>4. CASE Other
  BY <1>4 DEF Other, InitEnds, Disable, DisableReturns, DisableTimesOut
<1>5. QED BY <1>1, <1>2, <1>3, <1>4, NextCases

\* The tables of a call after its step.
LEMMA CallMoves ==
  ASSUME Types, Entry, NEW t \in Call, CallOK(t), CallBegins(t) \/ CallStep(t)
  PROVE  /\ \A u \in Call \ {t} : call'[u] = call[u] /\ callee'[u] = callee[u] /\ attempt'[u] = attempt[u]
         /\ CallOK(t)' /\ revived \subseteq revived'
         /\ \/ CallEnds(t)
            \/ call[t] \notin {"idle", "over"} /\ callee'[t] = callee[t]
            \/ Offered(t)
<1>1. CallTypes /\ LifeTypes /\ life' = life
  BY DEF Types, CallBegins, CallStep, lifeVars
<1>2. CASE CallEnds(t)
  <2>1. /\ \A u \in Call \ {t} : call'[u] = call[u] /\ callee'[u] = callee[u] /\ attempt'[u] = attempt[u]
        /\ call'[t] = "over" /\ attempt'[t] = 0
    BY <1>1, <1>2 DEF CallEnds, CallTypes
  <2>2. revived \subseteq revived'
    BY <1>2 DEF CallBegins, CallStep, Offered, Called, Answered, Broken, Reconnect, Reconnected, NotReconnected,
                Relisted, NotRelisted, CallCancelled
  <2>3. QED BY <1>2, <2>1, <2>2 DEF CallOK
<1>3. CASE Offered(t)
  <2>1. /\ \A u \in Call \ {t} : call'[u] = call[u] /\ callee'[u] = callee[u]
        /\ call[t] = "idle" /\ call'[t] = "offered" /\ callee'[t] \in tools
        /\ attempt' = attempt /\ revived' = revived
    BY <1>1, <1>3 DEF Offered, CallTypes
  <2>2. callee'[t] \in Client /\ life[callee'[t]] \in {"serving", "closing"}
    BY <1>1, <2>1 DEF Entry, LifeTypes
  <2>3. attempt[t] = 0
    BY <2>1 DEF CallOK
  <2>4. QED BY <1>1, <1>3, <2>1, <2>2, <2>3 DEF CallOK
<1>4. CASE /\ call[t] = "offered" /\ call' = [call EXCEPT ![t] = "calling"]
           /\ attempt' = [attempt EXCEPT ![t] = @ + 1] /\ callee' = callee /\ revived' = revived
  <2>1. /\ \A u \in Call \ {t} : call'[u] = call[u] /\ attempt'[u] = attempt[u]
        /\ call'[t] = "calling" /\ attempt'[t] = attempt[t] + 1 /\ attempt[t] \in 0..2 /\ attempt[t] <= 1
    BY <1>1, <1>4 DEF CallTypes, CallOK
  <2>2. QED BY <1>1, <1>4, <2>1 DEF CallOK
<1>5. CASE /\ call[t] \notin {"idle", "over", "offered"} /\ UNCHANGED <<callee, attempt>>
           /\ \/ call'[t] \in {"lock", "dialling", "listing"}
              \/ call'[t] = "offered" /\ attempt[t] = 1
           /\ \A u \in Call \ {t} : call'[u] = call[u]
           /\ revived \subseteq revived'
  BY <1>1, <1>5 DEF CallOK
<1>6. CASE Broken(t) \/ Reconnected(t) \/ Reconnect(t)
  <2>1. /\ call[t] \in {"calling", "lock", "dialling"} /\ UNCHANGED <<callee, attempt>>
        /\ call'[t] \in {"lock", "dialling", "listing"} /\ \A u \in Call \ {t} : call'[u] = call[u]
    BY <1>1, <1>6 DEF Broken, Reconnect, Reconnected, CallTypes
  <2>2. revived \subseteq revived'
    BY <1>6 DEF Broken, Reconnect, Reconnected
  <2>3. QED BY <1>5, <2>1, <2>2
<1>7. CASE /\ call[t] = "listing" /\ attempt[t] = 1 /\ call' = [call EXCEPT ![t] = "offered"]
           /\ UNCHANGED <<callee, attempt>> /\ revived' = revived
  BY <1>1, <1>5, <1>7 DEF CallTypes
<1>8. CASE Called(t)
  BY <1>2, <1>4, <1>8 DEF Called
<1>9. CASE Relisted(t)
  BY <1>2, <1>7, <1>9 DEF Relisted
<1>10. CASE Answered(t) \/ NotReconnected(t) \/ NotRelisted(t) \/ CallCancelled(t)
  BY <1>2, <1>10 DEF Answered, NotReconnected, NotRelisted, CallCancelled
<1>11. QED BY <1>3, <1>6, <1>8, <1>9, <1>10 DEF CallBegins, CallStep

LEMMA CallOKStep ==
  ASSUME Types, Entry, \A t \in Call : CallOK(t), [Next]_vars
  PROVE  (\A t \in Call : CallOK(t)') /\ revived \subseteq revived'
<1>1. CASE UNCHANGED <<callVars, revived>>
  <2>1. UNCHANGED <<call, callee, attempt, revived>>
    BY <1>1 DEF callVars
  <2>2. ASSUME NEW t \in Call PROVE CallOK(t)'
    <3>1. call[t] \notin {"idle", "over"} => life'[callee[t]] \in {"serving", "closing", "ended"}
      BY ServedOn DEF CallOK
    <3>2. QED BY <2>1, <3>1 DEF CallOK
  <2>3. QED BY <2>1, <2>2
<1>2. ASSUME NEW t \in Call, CallBegins(t) \/ CallStep(t)
      PROVE  (\A u \in Call : CallOK(u)') /\ revived \subseteq revived'
  <2>1. life' = life
    BY <1>2 DEF CallBegins, CallStep, lifeVars
  <2>2. /\ \A u \in Call \ {t} : call'[u] = call[u] /\ callee'[u] = callee[u] /\ attempt'[u] = attempt[u]
        /\ CallOK(t)' /\ revived \subseteq revived'
    BY <1>2, CallMoves
  <2>3. ASSUME NEW u \in Call PROVE CallOK(u)'
    <3>1. CASE u = t
      BY <2>2, <3>1
    <3>2. CASE u # t
      BY <2>1, <2>2, <3>2 DEF CallOK
    <3>3. QED BY <3>1, <3>2
  <2>4. QED BY <2>2, <2>3
<1>3. CASE UNCHANGED vars
  BY <1>1, <1>3 DEF vars
<1>4. QED BY <1>1, <1>2, <1>3, CallUnchanged

-----------------------------------------------------------------------------
(* The connections *)

\* Connections are left as they are or cancelled, and given up only when they
\* are; nobody begins to wait for one.
Settles ==
  /\ conn' = conn /\ owner' = owner /\ kill \subseteq kill'
  /\ \A k \in Conn : ready'[k] = "error" => ready[k] = "error"
  /\ \A c \in Client : current'[c] # current[c] =>
       /\ current'[c] = None
       /\ current[c] \in Conn => conn[current[c]] \in {"none", "closing", "done"} \/ current[c] \in kill'
  /\ \A c \in Client : life'[c] = "connecting" => life[c] = "connecting" /\ dialled'[c] = dialled[c]
  /\ \A t \in Call : call'[t] = "dialling" =>
       call[t] = "dialling" /\ dialled'[t] = dialled[t] /\ callee'[t] = callee[t]

ConnInv == Dialling /\ \A k \in Conn : ConnOK(k)

LEMMA SettlesOK ==
  ASSUME Types, ConnInv, \A t \in Call : CallOK(t), Settles
  PROVE  ConnInv'
<1>1. ASSUME NEW c \in Client, life'[c] = "connecting" PROVE Waits(c, c)'
  <2>1. Waits(c, c) /\ dialled'[c] = dialled[c] /\ current'[c] \in {current[c], None}
    BY <1>1 DEF ConnInv, Dialling, Settles
  <2>2. QED BY <2>1 DEF Waits
<1>2. ASSUME NEW t \in Call, call'[t] = "dialling" PROVE Waits(t, callee[t])'
  <2>1. callee[t] \in Client
    BY <1>2 DEF CallOK, Settles
  <2>2. /\ Waits(t, callee[t]) /\ dialled'[t] = dialled[t] /\ callee'[t] = callee[t]
        /\ current'[callee[t]] \in {current[callee[t]], None}
    BY <1>2, <2>1 DEF ConnInv, Dialling, Settles
  <2>3. QED BY <2>2 DEF Waits
<1>3. ASSUME NEW k \in Conn PROVE ConnOK(k)'
  <2>1. ConnOK(k) /\ conn'[k] = conn[k] /\ owner'[k] = owner[k]
    BY DEF ConnInv, Settles
  <2>2. ready'[k] = "error" => conn'[k] \in {"closing", "done"}
    BY <2>1 DEF ConnOK, Settles
  <2>3. ASSUME conn'[k] \in {"new", "connecting", "open"}, k \notin kill' PROVE current'[owner'[k]] = k
    <3>1. current[owner[k]] = k /\ owner[k] \in Client /\ k \notin kill
      BY <2>1, <2>3 DEF ConnOK, Settles
    <3>2. current'[owner[k]] = current[owner[k]]
      BY <2>1, <2>3, <3>1 DEF Settles
    <3>3. QED BY <2>1, <3>1, <3>2
  <2>4. QED BY <2>1, <2>2, <2>3 DEF ConnOK
<1>4. QED BY <1>1, <1>2, <1>3 DEF ConnInv, Dialling

\* How the current connection is given up.
LEMMA DropSettles ==
  ASSUME ConnTypes, NEW c \in Client, DropCurrent(c)
  PROVE  /\ kill \subseteq kill'
         /\ \A d \in Client : current'[d] # current[d] =>
              /\ current'[d] = None
              /\ current[d] \in Conn => conn[current[d]] \in {"none", "closing", "done"} \/ current[d] \in kill'
<1>1. None \notin Conn
  BY McpAssumption
<1>2. \A d \in Client \ {c} : current'[d] = current[d]
  BY DEF DropCurrent, ConnTypes
<1>3. current'[c] = None
  BY DEF DropCurrent, ConnTypes
<1>4. current[c] \in Conn => conn[current[c]] \in {"none", "done"} \/ current[c] \in kill'
  BY <1>1 DEF DropCurrent, Live
<1>5. QED BY <1>2, <1>3, <1>4 DEF DropCurrent

LEMMA TrackSettles ==
  ASSUME ConnTypes, ConnInv, NEW w \in Client \cup Call, NEW c \in Client, TrackCurrent(c),
         Waits(w, c), ready[dialled[w]] = "error"
  PROVE  \A d \in Client : current'[d] # current[d] =>
              /\ current'[d] = None
              /\ current[d] \in Conn => conn[current[d]] \in {"none", "closing", "done"} \/ current[d] \in kill'
<1>1. None \notin Conn
  BY McpAssumption
<1>2. current'[c] = None /\ \A d \in Client \ {c} : current'[d] = current[d]
  BY DEF TrackCurrent, ConnTypes
<1>3. current[c] \in Conn => conn[current[c]] \in {"closing", "done"}
  BY <1>1 DEF Waits, ConnInv, ConnOK
<1>4. QED BY <1>2, <1>3

LEMMA ReadsSettles ==
  ASSUME ConnTypes, NEW w \in Client \cup Call, Reads(w)
  PROVE  /\ conn' = conn /\ owner' = owner
         /\ \A k \in Conn : ready'[k] = "error" => ready[k] = "error"
         /\ \A v \in Client \cup Call : v # w => dialled'[v] = dialled[v]
BY DEF Reads, liveVars, ConnTypes

LEMMA LifeStepSettles ==
  ASSUME Types, Entry, ConnInv, NEW c \in Client, LifeStep(c), ~LifeBegins(c)
  PROVE  Settles
<1>1. ConnTypes /\ LifeTypes /\ LifeMoves(c)
  BY LifeStepMoves DEF Types
<1>2. UNCHANGED <<call, callee>>
  BY DEF LifeStep, callVars
<1>3. life'[c] # "connecting"
  BY <1>1 DEF LifeStep, LifeConnected, LifeNotConnected, LifeListed, LifeNotListed,
              LifeUndone, LifeAborts, LifeAborted, LifeStops, LifeClosed, LifeAbsorbs, Terminate, LifeTypes
<1>4. c \notin Call /\ \A d \in Client : life'[d] = "connecting" => d # c /\ life[d] = "connecting"
  BY <1>1, <1>3, McpAssumption DEF LifeMoves
<1>5. ASSUME connVars' = connVars
      PROVE  /\ conn' = conn /\ owner' = owner
             /\ \A k \in Conn : ready'[k] = "error" => ready[k] = "error"
             /\ \A v \in Client \cup Call : v # c => dialled'[v] = dialled[v]
  BY <1>5 DEF connVars
<1>6. ASSUME /\ conn' = conn /\ owner' = owner
             /\ \A k \in Conn : ready'[k] = "error" => ready[k] = "error"
             /\ \A v \in Client \cup Call : v # c => dialled'[v] = dialled[v],
             kill \subseteq kill',
             \A d \in Client : current'[d] # current[d] =>
               /\ current'[d] = None
               /\ current[d] \in Conn => conn[current[d]] \in {"none", "closing", "done"} \/ current[d] \in kill'
      PROVE  Settles
  BY <1>2, <1>4, <1>6 DEF Settles
<1>7. CASE LifeConnected(c)
  <2>1. Reads(c) /\ kill' = kill /\ current' = current
    BY <1>7 DEF LifeConnected, holdVars
  <2>2. QED BY <1>1, <1>6, <2>1, ReadsSettles
<1>8. CASE LifeNotConnected(c)
  <2>1. Reads(c) /\ kill' = kill /\ TrackCurrent(c) /\ ready[dialled[c]] = "error" /\ life[c] = "connecting"
    BY <1>8 DEF LifeNotConnected
  <2>2. Waits(c, c)
    BY <2>1 DEF ConnInv, Dialling
  <2>3. QED BY <1>1, <1>6, <2>1, <2>2, ReadsSettles, TrackSettles
<1>9. CASE LifeListed(c) \/ LifeUndone(c) \/ LifeAborted(c) \/ LifeClosed(c)
  <2>1. connVars' = connVars /\ kill' = kill /\ current' = current
    BY <1>9 DEF LifeListed, LifeUndone, LifeAborted, LifeClosed, holdVars
  <2>2. QED BY <1>5, <1>6, <2>1
<1>10. CASE LifeNotListed(c)
  <2>1. connVars' = connVars /\ DropCurrent(c)
    BY <1>10 DEF LifeNotListed, CleansUp
  <2>2. QED BY <1>1, <1>5, <1>6, <2>1, DropSettles
<1>11. CASE LifeAborts(c)
  <2>1. Reads(c) /\ DropCurrent(c)
    BY <1>11 DEF LifeAborts, CleansUp
  <2>2. QED BY <1>1, <1>6, <2>1, ReadsSettles, DropSettles
<1>12. CASE LifeStops(c) \/ LifeAbsorbs(c)
  <2>1. Terminate(c)
    BY <1>12 DEF LifeStops, LifeAbsorbs
  <2>2. connVars' = connVars
    BY <2>1 DEF Terminate
  <2>3. CASE runtime # None /\ CleansUp(c, runtime)
    <3>1. runtime \in Client /\ DropCurrent(runtime)
      BY <1>1, <2>3 DEF LifeTypes, CleansUp
    <3>2. QED BY <1>1, <1>5, <1>6, <2>2, <3>1, DropSettles
  <2>4. CASE UNCHANGED <<awaited, kill, holdVars, robbed>>
    <3>1. kill' = kill /\ current' = current
      BY <2>4 DEF holdVars
    <3>2. QED BY <1>5, <1>6, <2>2, <3>1
  <2>5. QED BY <2>1, <2>3, <2>4 DEF Terminate
<1>13. QED BY <1>7, <1>8, <1>9, <1>10, <1>11, <1>12 DEF LifeStep

LEMMA RequestSettles ==
  ASSUME Types, (\E c \in Client : Request(c)) \/ Other
  PROVE  Settles
<1>1. /\ UNCHANGED <<conn, owner, ready, dialled, current>> /\ UNCHANGED <<call, callee>>
      /\ kill \subseteq kill'
  BY DEF Request, Enable, InitStarts, Starts, StartReturns, StartTimesOut, StartGivesUp, CancelLife,
         Other, InitEnds, Disable, DisableReturns, DisableTimesOut, connVars, holdVars, callVars
<1>2. ASSUME NEW d \in Client, life'[d] = "connecting" PROVE life[d] = "connecting"
  <2>1. ASSUME NEW c \in Client, life' = [life EXCEPT ![c] = "created"] PROVE life[d] = "connecting"
    BY <1>2, <2>1 DEF Types, LifeTypes
  <2>2. QED BY <1>2, <2>1 DEF Request, Enable, InitStarts, Starts, StartReturns, StartTimesOut, StartGivesUp,
         Other, InitEnds, Disable, DisableReturns, DisableTimesOut, lifeVars
<1>3. QED BY <1>1, <1>2 DEF Settles

LEMMA CallSettles ==
  ASSUME Types, Entry, ConnInv, NEW t \in Call, CallOK(t), CallBegins(t) \/ CallStep(t), ~Reconnect(t)
  PROVE  Settles
<1>1. ConnTypes /\ CallTypes /\ life' = life /\ t \notin Client
  BY McpAssumption DEF Types, CallBegins, CallStep, lifeVars
<1>2. /\ \A u \in Call \ {t} : call'[u] = call[u] /\ callee'[u] = callee[u]
  BY CallMoves
<1>3. call'[t] # "dialling"
  BY <1>1 DEF CallBegins, CallStep, Offered, Called, Answered, Broken, Reconnected, NotReconnected,
                Relisted, NotRelisted, CallCancelled, CallEnds, CallTypes
<1>4. ASSUME /\ conn' = conn /\ owner' = owner
             /\ \A k \in Conn : ready'[k] = "error" => ready[k] = "error"
             /\ \A v \in Client \cup Call : v # t => dialled'[v] = dialled[v],
             kill \subseteq kill',
             \A d \in Client : current'[d] # current[d] =>
               /\ current'[d] = None
               /\ current[d] \in Conn => conn[current[d]] \in {"none", "closing", "done"} \/ current[d] \in kill'
      PROVE  Settles
  BY <1>1, <1>2, <1>3, <1>4 DEF Settles
<1>5. CASE UNCHANGED <<connVars, kill, holdVars>>
  <2>1. UNCHANGED <<conn, owner, ready, dialled, kill, current>>
    BY <1>5 DEF connVars, holdVars
  <2>2. QED BY <1>4, <2>1
<1>6. CASE Reconnected(t)
  <2>1. Reads(t) /\ kill' = kill /\ current' = current
    BY <1>6 DEF Reconnected, holdVars
  <2>2. QED BY <1>1, <1>4, <2>1, ReadsSettles
<1>7. ASSUME call[t] \notin {"idle", "over"} PROVE callee[t] \in Client
  BY <1>7 DEF CallOK
<1>8. CASE NotReconnected(t)
  <2>1. Reads(t) /\ kill' = kill /\ TrackCurrent(callee[t]) /\ ready[dialled[t]] = "error" /\ call[t] = "dialling"
    BY <1>8 DEF NotReconnected
  <2>2. Waits(t, callee[t]) /\ callee[t] \in Client
    BY <1>7, <2>1 DEF ConnInv, Dialling
  <2>3. QED BY <1>1, <1>4, <2>1, <2>2, ReadsSettles, TrackSettles
<1>9. CASE DropCurrent(callee[t]) /\ Reads(t) /\ call[t] = "dialling"
  <2>1. callee[t] \in Client
    BY <1>7, <1>9
  <2>2. QED BY <1>1, <1>4, <1>9, <2>1, ReadsSettles, DropSettles
<1>10. QED BY <1>5, <1>6, <1>8, <1>9 DEF CallBegins, CallStep, Offered, Called, Answered, Broken,
                Relisted, NotRelisted, CallCancelled

\* A new connection: the one it replaces is cancelled.
LEMMA DialOK ==
  ASSUME Types, ConnInv, \A t \in Call : CallOK(t), NEW w \in Client \cup Call, NEW c \in Client,
         NEW k \in Conn, Dial(w, c, k),
         \A d \in Client : life'[d] = "connecting" => (d = w /\ d = c) \/ (life[d] = "connecting" /\ d # c /\ d # w),
         \A t \in Call : call'[t] = "dialling" =>
           /\ callee'[t] = callee[t]
           /\ (t = w /\ callee[t] = c) \/ (call[t] = "dialling" /\ callee[t] # c /\ t # w)
  PROVE  ConnInv'
<1>1. ConnTypes /\ None \notin Conn
  BY McpAssumption DEF Types
<1>2. /\ conn[k] = "none" /\ kill \subseteq kill' /\ ready' = ready
      /\ Live(current[c]) => current[c] \in kill'
      /\ current'[c] = k /\ \A d \in Client \ {c} : current'[d] = current[d]
      /\ conn'[k] = "new" /\ \A j \in Conn \ {k} : conn'[j] = conn[j]
      /\ owner'[k] = c /\ \A j \in Conn \ {k} : owner'[j] = owner[j]
      /\ dialled'[w] = k /\ \A v \in (Client \cup Call) \ {w} : dialled'[v] = dialled[v]
  BY <1>1 DEF Dial, ConnTypes, IsNext
<1>3. ASSUME NEW d \in Client, life'[d] = "connecting" PROVE Waits(d, d)'
  <2>1. CASE d = w /\ d = c
    BY <1>2, <2>1 DEF Waits
  <2>2. CASE life[d] = "connecting" /\ d # c /\ d # w
    BY <1>2, <2>2 DEF Waits, ConnInv, Dialling
  <2>3. QED BY <1>3, <2>1, <2>2
<1>4. ASSUME NEW t \in Call, call'[t] = "dialling" PROVE Waits(t, callee[t])'
  <2>1. CASE t = w /\ callee[t] = c
    BY <1>2, <1>4, <2>1 DEF Waits
  <2>2. CASE call[t] = "dialling" /\ callee[t] # c /\ t # w
    <3>1. callee[t] \in Client /\ Waits(t, callee[t]) /\ callee'[t] = callee[t]
      BY <1>4, <2>2 DEF CallOK, ConnInv, Dialling
    <3>2. QED BY <1>2, <2>2, <3>1 DEF Waits
  <2>3. QED BY <1>4, <2>1, <2>2
<1>5. ASSUME NEW j \in Conn PROVE ConnOK(j)'
  <2>1. ConnOK(j)
    BY DEF ConnInv
  <2>2. CASE j = k
    BY <1>2, <2>1, <2>2 DEF ConnOK
  <2>3. CASE j # k
    <3>1. conn'[j] = conn[j] /\ owner'[j] = owner[j]
      BY <1>2, <2>3
    <3>2. ASSUME conn[j] \in {"new", "connecting", "open"}, j \notin kill' PROVE current'[owner[j]] = j
      <4>1. current[owner[j]] = j /\ owner[j] \in Client
        BY <1>2, <2>1, <3>2 DEF ConnOK
      <4>2. owner[j] # c
        BY <1>1, <1>2, <3>2, <4>1 DEF Live
      <4>3. QED BY <1>2, <4>1, <4>2
    <3>3. QED BY <1>2, <2>1, <3>1, <3>2 DEF ConnOK
  <2>4. QED BY <2>2, <2>3
<1>6. QED BY <1>3, <1>4, <1>5 DEF ConnInv, Dialling

LEMMA ConnStepOK ==
  ASSUME Types, ConnInv, NEW k \in Conn, ConnStep(k)
  PROVE  ConnInv'
<1>1. UNCHANGED <<current, dialled, life, call, callee, owner>>
  BY DEF ConnStep, ConnBegins, ConnNeverBegins, ConnOpens, ConnFails, ConnCancelled, ConnCloses, callVars
<1>2. ConnTypes
  BY DEF Types
<1>3. /\ \A j \in Conn \ {k} : conn'[j] = conn[j] /\ ready'[j] = ready[j] /\ (j \in kill' <=> j \in kill)
      /\ conn[k] # "none"
  BY <1>2 DEF ConnStep, ConnBegins, ConnNeverBegins, ConnOpens, ConnFails, ConnCancelled, ConnCloses, ConnTypes
<1>4. /\ ready'[k] = "error" => conn'[k] \in {"closing", "done"}
      /\ conn'[k] \in {"new", "connecting", "open"} => conn[k] \in {"new", "connecting", "open"} /\ kill' = kill
  <2>1. ConnOK(k)
    BY DEF ConnInv
  <2>2. CASE ConnBegins(k)
    BY <1>2, <2>1, <2>2 DEF ConnBegins, ConnTypes, ConnOK
  <2>3. CASE ConnNeverBegins(k)
    BY <1>2, <2>3 DEF ConnNeverBegins, ConnTypes
  <2>4. CASE ConnOpens(k)
    BY <1>2, <2>4 DEF ConnOpens, ConnTypes
  <2>5. CASE ConnFails(k)
    BY <1>2, <2>5 DEF ConnFails, ConnTypes
  <2>6. CASE ConnCancelled(k)
    BY <1>2, <2>6 DEF ConnCancelled, ConnTypes
  <2>7. CASE ConnCloses(k)
    BY <1>2, <2>7 DEF ConnCloses, ConnTypes
  <2>8. QED BY <2>2, <2>3, <2>4, <2>5, <2>6, <2>7 DEF ConnStep
<1>5. ASSUME NEW j \in Conn PROVE ConnOK(j)'
  <2>1. ConnOK(j)
    BY DEF ConnInv
  <2>2. CASE j = k
    BY <1>1, <1>3, <1>4, <2>1, <2>2 DEF ConnOK
  <2>3. CASE j # k
    BY <1>1, <1>3, <2>1, <2>3 DEF ConnOK
  <2>4. QED BY <2>2, <2>3
<1>6. QED BY <1>1, <1>5 DEF ConnInv, Dialling, Waits

LEMMA ConnInvStep ==
  ASSUME Types, Entry, \A t \in Call : CallOK(t), ConnInv, [Next]_vars
  PROVE  ConnInv'
<1>1. ASSUME NEW k \in Conn, ConnStep(k) PROVE ConnInv'
  BY <1>1, ConnStepOK
<1>2. ASSUME NEW c \in Client, LifeBegins(c), LifeStep(c) PROVE ConnInv'
  <2>1. PICK k \in Conn : Dial(c, c, k)
    BY <1>2 DEF LifeBegins
  <2>2. life[c] = "created" /\ life' = [life EXCEPT ![c] = "connecting"] /\ c \notin Call
    BY <1>2, McpAssumption DEF LifeBegins
  <2>3. UNCHANGED <<call, callee>>
    BY <1>2 DEF LifeStep, callVars
  <2>4. \A d \in Client : life'[d] = "connecting" => d = c \/ (life[d] = "connecting" /\ d # c)
    BY <2>2 DEF Types, LifeTypes
  <2>5. \A t \in Call : call'[t] = "dialling" => call[t] = "dialling" /\ callee[t] # c /\ t # c
    BY <2>2, <2>3 DEF CallOK
  <2>6. QED BY <2>1, <2>3, <2>4, <2>5, DialOK
<1>3. ASSUME NEW t \in Call, Reconnect(t), CallStep(t) PROVE ConnInv'
  <2>1. PICK k \in Conn : Dial(t, callee[t], k)
    BY <1>3 DEF Reconnect
  <2>2. callee[t] \in Client /\ life[callee[t]] \in {"serving", "closing", "ended"} /\ t \notin Client
    BY <1>3, McpAssumption DEF Reconnect, CallOK
  <2>3. life' = life /\ callee' = callee
    BY <1>3 DEF Reconnect, CallStep, lifeVars
  <2>4. \A d \in Client : life'[d] = "connecting" => life[d] = "connecting" /\ d # callee[t] /\ d # t
    BY <2>2, <2>3
  <2>5. \A u \in Call : call'[u] = "dialling" => u = t \/ (call[u] = "dialling" /\ callee[u] # callee[t] /\ u # t)
    BY <1>3 DEF Reconnect, Types, CallTypes
  <2>6. QED BY <2>1, <2>2, <2>3, <2>4, <2>5, DialOK
<1>4. ASSUME NEW c \in Client, LifeStep(c) PROVE ConnInv'
  BY <1>2, <1>4, LifeStepSettles, SettlesOK
<1>5. ASSUME NEW c \in Client, Request(c) PROVE ConnInv'
  BY <1>5, RequestSettles, SettlesOK
<1>6. CASE Other
  BY <1>6, RequestSettles, SettlesOK
<1>7. ASSUME NEW t \in Call, CallBegins(t) \/ CallStep(t) PROVE ConnInv'
  <2>1. CASE Reconnect(t) /\ CallStep(t)
    BY <1>3, <2>1
  <2>2. CASE ~Reconnect(t)
    BY <1>7, <2>2, CallSettles, SettlesOK
  <2>3. CASE Reconnect(t) /\ CallBegins(t)
    BY <2>3 DEF Reconnect, CallBegins, Offered
  <2>4. QED BY <1>7, <2>1, <2>2, <2>3
<1>8. CASE UNCHANGED vars
  <2>1. UNCHANGED <<life, call, callee, conn, owner, ready, dialled, kill, current>>
    BY <1>8 DEF vars, lifeVars, connVars, holdVars, callVars
  <2>2. QED BY <2>1, SettlesOK DEF Settles
<1>9. QED BY <1>1, <1>4, <1>5, <1>6, <1>7, <1>8, NextCases

-----------------------------------------------------------------------------
(* What a client knows of its connections *)

Held(k, c) == k = current[c] \/ k \in old[c]

Mine(k) == robbed = {} /\ Live(k) /\ owner[k] \notin revived

LEMMA KnownIs ==
  ASSUME Types, NEW k \in Conn, Known(k), Mine(k)
  PROVE  /\ Under(owner[k]) /\ life[owner[k]] \notin {"created"}
         /\ life[owner[k]] \in {"connecting", "listing", "serving"} => Held(k, owner[k])
         /\ life[owner[k]] \in {"undoing", "aborting", "closing"} => k \in awaited[owner[k]]
BY DEF Known, Mine, Held, Under

LEMMA KnownStays ==
  ASSUME Types, NEW k \in Conn, Known(k), ConnOK(k),
         conn'[k] = conn[k], owner'[k] = owner[k], robbed \subseteq robbed', revived \subseteq revived',
         Mine(k) => /\ life'[owner[k]] = life[owner[k]]
                    /\ awaited'[owner[k]] = awaited[owner[k]] \/ k \in awaited'[owner[k]]
                    /\ Held(k, owner[k]) => Held(k, owner[k])'
  PROVE  Known(k)'
<1>1. ASSUME Mine(k)' PROVE Mine(k)
  BY <1>1 DEF Mine, Live
<1>2. CASE Mine(k)'
  BY <1>1, <1>2 DEF Mine, Known, Held
<1>3. CASE ~Mine(k)'
  BY <1>3 DEF Mine, Known
<1>4. QED BY <1>2, <1>3

LEMMA TrackHolds ==
  ASSUME ConnTypes, NEW c \in Client, DropCurrent(c) \/ TrackCurrent(c),
         NEW k \in Conn, Live(k), NEW d \in Client, Held(k, d)
  PROVE  k \in old'[d] \/ (d # c /\ Held(k, d)')
<1>1. old' = [old EXCEPT ![c] = IF Live(current[c]) THEN @ \cup {current[c]} ELSE @]
      /\ current' = [current EXCEPT ![c] = None]
  BY DEF DropCurrent, TrackCurrent
<1>2. CASE d = c
  BY <1>1, <1>2 DEF Held, ConnTypes
<1>3. CASE d # c
  BY <1>1, <1>3 DEF Held, ConnTypes
<1>4. QED BY <1>2, <1>3

LEMMA DialHolds ==
  ASSUME ConnTypes, NEW w, NEW c \in Client, NEW j \in Conn, Dial(w, c, j),
         NEW k \in Conn, NEW d \in Client, Live(k), Held(k, d)
  PROVE  Held(k, d)'
<1>1. /\ old' = [old EXCEPT ![c] = IF Live(current[c]) THEN @ \cup {current[c]} ELSE @]
      /\ current' = [current EXCEPT ![c] = j]
  BY DEF Dial
<1>2. CASE d = c
  BY <1>1, <1>2 DEF Held, ConnTypes
<1>3. CASE d # c
  BY <1>1, <1>3 DEF Held, ConnTypes
<1>4. QED BY <1>2, <1>3

LEMMA ConnStepKnown ==
  ASSUME Types, NEW k \in Conn, Known(k), ConnOK(k), NEW j \in Conn, ConnStep(j)
  PROVE  Known(k)'
<1>1. /\ UNCHANGED <<current, life, owner, robbed, revived>>
      /\ \A i \in Conn \ {j} : conn'[i] = conn[i]
      /\ conn[j] # "none" /\ conn[j] # "done"
  BY DEF ConnStep, ConnBegins, ConnNeverBegins, ConnOpens, ConnFails, ConnCancelled, ConnCloses, Types,
         ConnTypes
<1>2. ConnTypes
  BY DEF Types
<1>3. ASSUME Mine(k)' PROVE Mine(k)
  BY <1>1, <1>3 DEF Mine, Live
<1>4. ASSUME conn'[k] # "done", NEW c \in Client
      PROVE  (k \in old[c] => k \in old'[c]) /\ (k \in awaited[c] => k \in awaited'[c])
  BY <1>2, <1>4 DEF ConnStep, ConnTypes
<1>5. CASE Mine(k)'
  <2>1. conn'[k] # "done" /\ owner[k] \in Client
    BY <1>3, <1>5 DEF Mine, Live, ConnOK
  <2>2. Mine(k)
    BY <1>3, <1>5
  <2>3. QED BY <1>1, <1>4, <2>1, <2>2 DEF Known, Mine
<1>6. CASE ~Mine(k)'
  BY <1>6 DEF Mine, Known
<1>7. QED BY <1>5, <1>6

LEMMA CallKnown ==
  ASSUME Types, Entry, \A t \in Call : CallOK(t), NEW k \in Conn, Known(k), ConnOK(k),
         NEW t \in Call, CallBegins(t) \/ CallStep(t)
  PROVE  Known(k)'
<1>1. UNCHANGED <<life, awaited, robbed>> /\ ConnTypes
  BY DEF CallBegins, CallStep, lifeVars, Types
<1>2. revived \subseteq revived'
  BY CallMoves
<1>3. Mine(k) => owner[k] \in Client /\ Live(k)
  BY DEF Mine, Live, ConnOK
<1>4. CASE Reconnect(t)
  <2>1. PICK j \in Conn : Dial(t, callee[t], j)
    BY <1>4 DEF Reconnect
  <2>2. callee[t] \in Client /\ life[callee[t]] \in {"serving", "closing", "ended"}
    BY <1>4 DEF Reconnect, CallOK
  <2>3. CASE k = j
    <3>1. owner'[k] = callee[t] /\ current'[callee[t]] = k
      BY <1>1, <2>1, <2>2, <2>3 DEF Dial, ConnTypes
    <3>2. life[callee[t]] \in {"closing", "ended"} => callee[t] \in revived'
      BY <1>4 DEF Reconnect
    <3>3. QED BY <1>1, <2>2, <3>1, <3>2 DEF Known
  <2>4. CASE k # j
    <3>1. conn'[k] = conn[k] /\ owner'[k] = owner[k]
      BY <1>1, <2>1, <2>4 DEF Dial, ConnTypes
    <3>2. Mine(k) /\ Held(k, owner[k]) => Held(k, owner[k])'
      <4>1. ASSUME Mine(k), Held(k, owner[k]), NEW d \in Client, d = owner[k] PROVE Held(k, d)'
        BY <1>1, <1>3, <2>1, <2>2, <4>1, DialHolds
      <4>2. QED BY <1>3, <3>1, <4>1 DEF Held
    <3>3. QED BY <1>1, <1>2, <3>1, <3>2, KnownStays
  <2>5. QED BY <2>3, <2>4
<1>5. ASSUME conn' = conn, owner' = owner, current' = current, old' = old PROVE Known(k)'
  BY <1>1, <1>2, <1>5, KnownStays DEF Held
<1>6. CASE UNCHANGED <<connVars, kill, holdVars>>
  BY <1>5, <1>6 DEF connVars, holdVars
<1>7. CASE Reconnected(t)
  BY <1>5, <1>7 DEF Reconnected, Reads, liveVars, holdVars
<1>8. CASE /\ DropCurrent(callee[t]) \/ TrackCurrent(callee[t])
           /\ Reads(t) /\ call[t] = "dialling"
  <2>1. callee[t] \in Client
    BY <1>8 DEF CallOK
  <2>2. conn' = conn /\ owner' = owner
    BY <1>8 DEF Reads, liveVars
  <2>3. Mine(k) /\ Held(k, owner[k]) => Held(k, owner[k])'
    <3>1. ASSUME Mine(k), Held(k, owner[k]), NEW d \in Client, d = owner[k] PROVE Held(k, d)'
      <4>1. k \in old'[d] \/ Held(k, d)'
        BY <1>1, <1>3, <1>8, <2>1, <3>1, TrackHolds
      <4>2. QED BY <4>1 DEF Held
    <3>2. QED BY <1>3, <2>2, <3>1 DEF Held
  <2>4. QED BY <1>1, <1>2, <2>2, <2>3, KnownStays
<1>9. QED BY <1>4, <1>6, <1>7, <1>8 DEF CallBegins, CallStep, Offered, Called, Answered, Broken,
                NotReconnected, Relisted, NotRelisted, CallCancelled

LEMMA RequestKnown ==
  ASSUME Types, Entry, robbed \subseteq robbed', NEW k \in Conn, Known(k), ConnOK(k),
         (\E c \in Client : Request(c)) \/ Other
  PROVE  Known(k)'
<1>1. /\ UNCHANGED <<conn, owner, current, old, awaited>> /\ revived' = revived
  BY DEF Request, Enable, InitStarts, Starts, StartReturns, StartTimesOut, StartGivesUp, CancelLife,
         Other, InitEnds, Disable, DisableReturns, DisableTimesOut, connVars, holdVars, lifeVars
<1>2. ASSUME Mine(k) PROVE life'[owner[k]] = life[owner[k]]
  <2>1. Under(owner[k]) /\ owner[k] \in Client
    BY <1>2, KnownIs DEF Mine, Live, ConnOK
  <2>2. ASSUME NEW c \in Client, start[c] = "none", life' = [life EXCEPT ![c] = "created"]
        PROVE  life'[owner[k]] = life[owner[k]]
    <3>1. c # owner[k]
      BY <2>1, <2>2 DEF Entry, Under
    <3>2. QED BY <2>2, <3>1 DEF Types, LifeTypes
  <2>3. QED BY <2>2 DEF Request, Enable, InitStarts, Starts, IsNext, StartReturns, StartTimesOut, StartGivesUp,
         Other, InitEnds, Disable, DisableReturns, DisableTimesOut, lifeVars
<1>3. QED BY <1>1, <1>2, KnownStays DEF Held

LEMMA LifeStepKnown ==
  ASSUME Types, Entry, ConnInv, \A j \in Conn : Known(j), NEW c \in Client, LifeStep(c), NEW k \in Conn
  PROVE  Known(k)'
<1>1. ConnTypes /\ LifeTypes /\ LifeMoves(c) /\ revived' = revived /\ Known(k) /\ ConnOK(k)
  BY LifeStepMoves DEF Types, LifeStep, ConnInv
<1>2. SUFFICES ASSUME Mine(k)'
               PROVE  /\ life'[owner'[k]] \in {"connecting", "listing", "serving", "undoing", "aborting", "closing"}
                      /\ life'[owner'[k]] \in {"connecting", "listing", "serving"} => Held(k, owner[k])'
                      /\ life'[owner'[k]] \in {"undoing", "aborting", "closing"} => k \in awaited'[owner'[k]]
  BY DEF Mine, Known, Held
<1>3. robbed = {} /\ Under(c) /\ runtime = c
  BY <1>1, <1>2 DEF Mine, LifeMoves, Entry
<1>4. CASE LifeBegins(c)
  <2>1. PICK j \in Conn : Dial(c, c, j)
    BY <1>4 DEF LifeBegins
  <2>2. life[c] = "created" /\ life'[c] = "connecting"
    BY <1>1, <1>4 DEF LifeBegins, LifeTypes
  <2>3. CASE k = j
    <3>1. owner'[k] = c /\ current'[c] = k
      BY <1>1, <2>1, <2>3 DEF Dial, ConnTypes
    <3>2. QED BY <2>2, <3>1 DEF Held
  <2>4. CASE k # j
    <3>1. conn'[k] = conn[k] /\ owner'[k] = owner[k]
      BY <1>1, <2>1, <2>4 DEF Dial, ConnTypes
    <3>2. Mine(k) /\ owner[k] \in Client
      BY <1>1, <1>2, <1>3, <3>1 DEF Mine, Live, ConnOK
    <3>3. Under(owner[k]) /\ life[owner[k]] # "created"
      BY <1>1, <3>2, KnownIs
    <3>4. owner[k] = c
      BY <1>3, <3>2, <3>3, OneUnder
    <3>5. QED BY <2>2, <3>3, <3>4
  <2>5. QED BY <2>3, <2>4
<1>5. ASSUME conn' = conn, owner' = owner
      PROVE  /\ owner[k] = c /\ owner'[k] = c /\ Live(k) /\ life[c] # "created"
             /\ life[c] \in {"connecting", "listing", "serving"} => Held(k, c)
             /\ life[c] \in {"undoing", "aborting", "closing"} => k \in awaited[c]
  <2>1. Mine(k) /\ owner[k] \in Client /\ Live(k)
    BY <1>1, <1>2, <1>3, <1>5 DEF Mine, Live, ConnOK
  <2>2. /\ Under(owner[k]) /\ life[owner[k]] # "created"
        /\ life[owner[k]] \in {"connecting", "listing", "serving"} => Held(k, owner[k])
        /\ life[owner[k]] \in {"undoing", "aborting", "closing"} => k \in awaited[owner[k]]
    BY <1>1, <2>1, KnownIs
  <2>3. owner[k] = c
    BY <1>3, <2>1, <2>2, OneUnder
  <2>4. QED BY <1>5, <2>1, <2>2, <2>3
<1>6. ASSUME conn' = conn, owner' = owner, current' = current, old' = old,
             life[c] \in {"connecting", "listing", "serving"}, life'[c] \in {"connecting", "listing", "serving"}
      PROVE  /\ life'[owner'[k]] \in {"connecting", "listing", "serving", "undoing", "aborting", "closing"}
             /\ life'[owner'[k]] \in {"connecting", "listing", "serving"} => Held(k, owner[k])'
             /\ life'[owner'[k]] \in {"undoing", "aborting", "closing"} => k \in awaited'[owner'[k]]
  BY <1>5, <1>6 DEF Held
<1>7. ASSUME conn' = conn, owner' = owner, DropCurrent(c) \/ TrackCurrent(c), awaited'[c] = old'[c],
             life[c] \in {"connecting", "listing", "serving"}, life'[c] \in {"undoing", "aborting", "closing"}
      PROVE  /\ life'[owner'[k]] \in {"connecting", "listing", "serving", "undoing", "aborting", "closing"}
             /\ life'[owner'[k]] \in {"connecting", "listing", "serving"} => Held(k, owner[k])'
             /\ life'[owner'[k]] \in {"undoing", "aborting", "closing"} => k \in awaited'[owner'[k]]
  <2>1. owner'[k] = c /\ Live(k) /\ Held(k, c)
    BY <1>5, <1>7
  <2>2. k \in old'[c]
    BY <1>1, <1>7, <2>1, TrackHolds
  <2>3. QED BY <1>7, <2>1, <2>2
<1>8. CASE LifeConnected(c)
  <2>1. UNCHANGED <<conn, owner, current, old>> /\ life[c] = "connecting" /\ life'[c] = "listing"
    BY <1>1, <1>8 DEF LifeConnected, Reads, liveVars, holdVars, LifeTypes
  <2>2. QED BY <1>6, <2>1
<1>9. CASE LifeListed(c)
  <2>1. UNCHANGED <<conn, owner, current, old>> /\ life[c] = "listing" /\ life'[c] = "serving"
    BY <1>1, <1>9 DEF LifeListed, connVars, holdVars, LifeTypes
  <2>2. QED BY <1>6, <2>1
<1>10. CASE LifeNotConnected(c)
  <2>1. /\ UNCHANGED <<conn, owner>> /\ TrackCurrent(c) /\ life[c] = "connecting" /\ life'[c] = "undoing"
        /\ awaited'[c] = old'[c]
    BY <1>1, <1>10 DEF LifeNotConnected, Reads, liveVars, LifeTypes, ConnTypes
  <2>2. QED BY <1>7, <2>1
<1>11. CASE LifeNotListed(c)
  <2>1. /\ UNCHANGED <<conn, owner>> /\ DropCurrent(c) /\ life[c] = "listing" /\ life'[c] = "undoing"
        /\ awaited'[c] = old'[c]
    BY <1>1, <1>11 DEF LifeNotListed, CleansUp, connVars, LifeTypes, ConnTypes
  <2>2. QED BY <1>7, <2>1
<1>12. CASE LifeAborts(c)
  <2>1. /\ UNCHANGED <<conn, owner>> /\ DropCurrent(c) /\ life[c] \in {"connecting", "listing"}
        /\ life'[c] = "aborting" /\ awaited'[c] = old'[c]
    BY <1>1, <1>12 DEF LifeAborts, CleansUp, Reads, liveVars, LifeTypes, ConnTypes
  <2>2. QED BY <1>7, <2>1
<1>13. CASE LifeStops(c)
  <2>1. Terminate(c) /\ life[c] = "serving" /\ c # None
    BY <1>13, McpAssumption DEF LifeStops
  <2>2. /\ UNCHANGED <<conn, owner>> /\ DropCurrent(c) /\ life'[c] = "closing" /\ awaited'[c] = old'[c]
    BY <1>1, <1>3, <2>1 DEF Terminate, CleansUp, connVars, LifeTypes, ConnTypes
  <2>3. QED BY <1>7, <2>1, <2>2
\* Nothing was left to wait for: the client has no connection of its own.
<1>14. CASE LifeUndone(c) \/ LifeAborted(c) \/ LifeClosed(c)
  <2>1. /\ UNCHANGED <<conn, owner>>
        /\ (life[c] \in {"undoing", "aborting", "closing"} /\ awaited[c] = {}) \/ life[c] = "created"
    BY <1>14 DEF LifeUndone, LifeAborted, LifeClosed, connVars
  <2>2. QED BY <1>5, <2>1
<1>15. CASE LifeAbsorbs(c)
  <2>1. UNCHANGED <<conn, owner>> /\ life[c] = "closing" /\ awaited[c] = {}
    BY <1>15 DEF LifeAbsorbs, Terminate, connVars
  <2>2. QED BY <1>5, <2>1
<1>16. QED BY <1>4, <1>8, <1>9, <1>10, <1>11, <1>12, <1>13, <1>14, <1>15 DEF LifeStep

LEMMA KnownStep ==
  ASSUME IInv, [Next]_vars, NEW k \in Conn
  PROVE  Known(k)'
<1>1. /\ Types /\ Entry /\ ConnInv
      /\ \A t \in Call : CallOK(t)
      /\ \A j \in Conn : Known(j)
      /\ Known(k) /\ ConnOK(k) /\ robbed \subseteq robbed'
  BY EntryStep DEF IInv, ConnInv
<1>2. CASE UNCHANGED vars
  <2>1. UNCHANGED <<conn, owner, current, old, awaited, life, robbed, revived>>
    BY <1>2 DEF vars, lifeVars, connVars, holdVars
  <2>2. QED BY <1>1, <2>1, KnownStays DEF Held
<1>3. CASE \E j \in Conn : ConnStep(j)
  BY <1>1, <1>3, ConnStepKnown
<1>4. CASE \E t \in Call : CallBegins(t) \/ CallStep(t)
  BY <1>1, <1>4, CallKnown
<1>5. CASE (\E c \in Client : Request(c)) \/ Other
  BY <1>1, <1>5, RequestKnown
<1>6. ASSUME NEW c \in Client, LifeStep(c) PROVE Known(k)'
  BY <1>1, <1>6, LifeStepKnown
<1>7. QED BY <1>2, <1>3, <1>4, <1>5, <1>6, NextCases

-----------------------------------------------------------------------------
(* The theorems *)

LEMMA Start == ASSUME Init PROVE IInv
<1>1. Types
  BY DEF Init, Types, LifeTypes, RequestTypes, ConnTypes, CallTypes, Lives
<1>2. Entry
  BY DEF Init, Entry, Under
<1>3. Dialling /\ \A t \in Call : CallOK(t)
  BY DEF Init, Dialling, CallOK
<1>4. \A k \in Conn : ConnOK(k) /\ Known(k)
  BY DEF Init, ConnOK, Known, Live
<1>5. QED BY <1>1, <1>2, <1>3, <1>4 DEF IInv

LEMMA Always == Spec => []IInv
<1>1. ASSUME IInv, [Next]_vars PROVE IInv'
  <2>1. Types /\ Entry /\ ConnInv /\ (\A t \in Call : CallOK(t)) /\ \A k \in Conn : ConnOK(k)
    BY <1>1 DEF IInv, ConnInv
  <2>2. Types' /\ Entry' /\ ConnInv' /\ \A t \in Call : CallOK(t)'
    BY <1>1, <2>1, TypesStep, EntryStep, ConnInvStep, CallOKStep
  <2>3. \A k \in Conn : Known(k)'
    BY <1>1, KnownStep
  <2>4. QED BY <2>2, <2>3 DEF IInv, ConnInv
<1>2. QED BY <1>1, Start, PTL DEF Spec

\* Every variable keeps its type; a call is tried at most twice
\* (mcp_client.py:748-774).
THEOREM TypeCorrect == Spec => []TypeOK
<1>1. ASSUME IInv PROVE TypeOK
  BY <1>1 DEF IInv, Types, LifeTypes, RequestTypes, ConnTypes, CallTypes, Lives, TypeOK
<1>2. QED BY <1>1, Always, PTL

\* The tools in the registry are those of a client whose lifecycle task will
\* take them out; and while nobody popped or cleaned up the entry of another
\* client, a server that serves is the only one, with its entry and its tools
\* (func_tool_manager.py:676-771, 857-884).
THEOREM RegistryHolds == Spec => []RegistryIsTrue
<1>1. ASSUME IInv PROVE RegistryIsTrue
  BY <1>1 DEF IInv, Entry, Under, RegistryIsTrue
<1>2. QED BY <1>1, Always, PTL

\* A connection that nobody has cancelled is its client's current one; and a
\* client that is over has none left, unless a call revived it or an entry was
\* robbed (mcp_client.py:483-518, 662-672, 776-791).
THEOREM NoneStrays == Spec => []NoStrayConnection
<1>1. ASSUME IInv, NEW k \in Conn
      PROVE  /\ conn[k] \in {"new", "connecting", "open"} /\ k \notin kill => current[owner[k]] = k
             /\ robbed = {} /\ Live(k) => ~Over(owner[k]) \/ owner[k] \in revived
  <2>1. ConnOK(k) /\ Known(k)
    BY <1>1 DEF IInv
  <2>2. QED BY <2>1 DEF ConnOK, Known, Over
<1>2. ASSUME IInv PROVE NoStrayConnection
  BY <1>1, <1>2 DEF NoStrayConnection
<1>3. QED BY <1>2, Always, PTL
=============================================================================
