----------------------------- MODULE McpServers -----------------------------
(***************************************************************************)
(* One MCP server by name: core/provider/func_tool_manager.py starts and   *)
(* stops its clients, core/agent/mcp_client.py holds a client's            *)
(* connections and reconnects under a tool call that finds its session     *)
(* closed.                                                                 *)
(*                                                                         *)
(* A start makes a client and a lifecycle task; the lifecycle task         *)
(* connects, lists the tools, waits for the shutdown event and cleans up.  *)
(* Each connection lives in a task of its own, which only a cancellation   *)
(* ends.  The bodies under _runtime_lock have no await, so the lock is     *)
(* never seen taken and _mcp_starting never seen set.  One action takes a  *)
(* task from one await to the next; a task that was cancelled finds out at *)
(* its next step.  A wait for connections that are all gone is a step too. *)
(***************************************************************************)
EXTENDS Naturals, FiniteSets

CONSTANTS
  Client,      \* bound: the clients of successive starts, numbered
  Conn,        \* bound: connection tasks, numbered
  Call,        \* calls of a tool of the server
  None

ASSUME McpAssumption ==
  /\ Client \subseteq Nat /\ Conn \subseteq Nat
  /\ None \notin Client \cup Conn
  /\ Client \cap Call = {}

VARIABLES
  runtime,    \* _mcp_server_runtime[name]: the client of the entry, or None
  tools,      \* func_list: the clients whose MCPTools are in it
  start,      \* [Client -> state]: the _start_mcp_server that made the client
  life,       \* [Client -> location]: its lifecycle task
  hit,        \* the clients whose lifecycle task was cancelled and has not noticed
  signal,     \* the clients whose shutdown_event is set
  target,     \* [Client -> Client or None]: whom its _terminate_mcp_client cleans up
  awaited,    \* [Client -> SUBSET Conn]: the tasks its cleanup still waits for
  boot,       \* init_mcp_clients: "idle", "waiting", "over"
  booted,     \* the client it made, or None
  disable,    \* disable_mcp_server: "idle", "waiting", "forcing"
  disabled,   \* the client it shuts down
  conn,       \* [Conn -> state]: a connection task
  owner,      \* [Conn -> Client or None]
  kill,       \* the connection tasks that were cancelled and have not noticed
  ready,      \* [Conn -> outcome]: the future connect_to_server waits for, or has read
  current,    \* [Client -> Conn or None]: _connection_task
  old,        \* [Client -> SUBSET Conn]: _old_connection_tasks that are not done
  dialled,    \* [lifecycle or call -> Conn or None]: whose `ready` it waits for
  session,    \* the clients whose session is not None, alive or not
  call,       \* [Call -> location]
  callee,     \* [Call -> Client or None]
  attempt,    \* [Call -> Nat]
  robbed,     \* (history) clients whose entry somebody else popped or cleaned up
  revived     \* (history) clients reconnected once their cleanup had begun

lifeVars == <<tools, start, life, signal, target, awaited>>
bootVars == <<boot, booted>>
disableVars == <<disable, disabled>>
connVars == <<conn, owner, ready, dialled, session>>
liveVars == <<conn, owner, session>>
holdVars == <<current, old>>
callVars == <<call, callee, attempt>>
vars == <<runtime, lifeVars, hit, bootVars, disableVars, connVars, kill, holdVars,
          callVars, robbed, revived>>

Init ==
  /\ runtime = None /\ tools = {}
  /\ start = [c \in Client |-> "none"] /\ life = [c \in Client |-> "none"]
  /\ hit = {} /\ signal = {} /\ target = [c \in Client |-> None]
  /\ awaited = [c \in Client |-> {}]
  /\ boot = "idle" /\ booted = None
  /\ disable = "idle" /\ disabled = None
  /\ conn = [k \in Conn |-> "none"] /\ owner = [k \in Conn |-> None]
  /\ kill = {} /\ ready = [k \in Conn |-> "pending"]
  /\ current = [c \in Client |-> None] /\ old = [c \in Client |-> {}]
  /\ session = {} /\ dialled = [w \in Client \cup Call |-> None]
  /\ call = [t \in Call |-> "idle"] /\ callee = [t \in Call |-> None]
  /\ attempt = [t \in Call |-> 0]
  /\ robbed = {} /\ revived = {}

\* The first of S that is still in its initial state in f.
IsNext(x, S, f) == f[x] = "none" /\ \A y \in S : y < x => f[y] # "none"

Over(c) == life[c] \in {"over", "failed", "ended"}
Live(k) == k # None /\ conn[k] \notin {"none", "done"}

-----------------------------------------------------------------------------
(* A connection task: _run_connection *)

\* Its first step, which begins to connect.
ConnBegins(k) ==
  /\ conn[k] = "new" /\ k \notin kill
  /\ conn' = [conn EXCEPT ![k] = "connecting"]
  /\ UNCHANGED <<owner, ready, session, kill>>

\* Cancelled before its first step: nothing of it runs, `ready` included.
ConnNeverBegins(k) ==
  /\ conn[k] = "new" /\ k \in kill
  /\ conn' = [conn EXCEPT ![k] = "done"]
  /\ kill' = kill \ {k}
  /\ UNCHANGED <<owner, ready, session>>

ConnOpens(k) ==
  /\ conn[k] = "connecting" /\ k \notin kill
  /\ conn' = [conn EXCEPT ![k] = "open"]
  /\ ready' = [ready EXCEPT ![k] = "ok"]
  /\ session' = session \cup {owner[k]}
  /\ UNCHANGED <<owner, kill>>

\* _do_connect raises, before or after it made the session; the exit stack is
\* closed after `ready` is told.
ConnFails(k) ==
  /\ conn[k] = "connecting" /\ k \notin kill
  /\ conn' = [conn EXCEPT ![k] = "closing"]
  /\ ready' = [ready EXCEPT ![k] = "error"]
  /\ session' \in {session, session \cup {owner[k]}}
  /\ UNCHANGED <<owner, kill>>

ConnCancelled(k) ==
  /\ conn[k] \in {"connecting", "open"} /\ k \in kill
  /\ conn' = [conn EXCEPT ![k] = "closing"]
  /\ kill' = kill \ {k}
  /\ \/ UNCHANGED session
     \/ conn[k] = "connecting" /\ session' = session \cup {owner[k]}
  /\ UNCHANGED <<owner, ready>>

\* The exit stack is closed, or its closing was cancelled.
ConnCloses(k) ==
  /\ conn[k] = "closing"
  /\ conn' = [conn EXCEPT ![k] = "done"]
  /\ kill' = kill \ {k}
  /\ ready' = [ready EXCEPT ![k] = IF @ = "pending" THEN "error" ELSE @]
  /\ UNCHANGED <<owner, session>>

ConnStep(k) ==
  /\ \/ ConnBegins(k) \/ ConnNeverBegins(k) \/ ConnOpens(k) \/ ConnFails(k)
     \/ ConnCancelled(k) \/ ConnCloses(k)
  /\ LET gone == {j \in {k} : conn'[j] = "done"} IN
     /\ old' = [c \in Client |-> old[c] \ gone]
     /\ awaited' = [c \in Client |-> awaited[c] \ gone]
  /\ UNCHANGED <<runtime, tools, start, life, signal, target, hit, bootVars, disableVars,
                 dialled, current, callVars, robbed, revived>>

-----------------------------------------------------------------------------
(* What a client does with its connections *)

\* connect_to_server goes on after its wait, or was cancelled in it.
Reads(w) ==
  /\ ready' = [k \in Conn |-> IF k = dialled[w] THEN "told" ELSE ready[k]]
  /\ dialled' = [dialled EXCEPT ![w] = None]
  /\ UNCHANGED liveVars

\* _cancel_connection_task for the current connection, which is then dropped.
DropCurrent(c) ==
  /\ kill' = kill \cup {k \in {current[c]} : Live(k)}
  /\ old' = [old EXCEPT ![c] = IF Live(current[c]) THEN @ \cup {current[c]} ELSE @]
  /\ current' = [current EXCEPT ![c] = None]

\* Mutant: the task of the connection it replaces is left alone.
DialOver(w, c, k) ==
  /\ IsNext(k, Conn, conn)
  /\ UNCHANGED <<kill, old>>
  /\ current' = [current EXCEPT ![c] = k]
  /\ conn' = [conn EXCEPT ![k] = "new"]
  /\ owner' = [owner EXCEPT ![k] = c]
  /\ dialled' = [dialled EXCEPT ![w] = k]
  /\ UNCHANGED ready

\* connect_to_server up to its wait for `ready`: the connection it replaces is
\* cancelled and tracked.
Dial(w, c, k) ==
  /\ IsNext(k, Conn, conn)
  /\ kill' = kill \cup {j \in {current[c]} : Live(j)}
  /\ old' = [old EXCEPT ![c] = IF Live(current[c]) THEN @ \cup {current[c]} ELSE @]
  /\ current' = [current EXCEPT ![c] = k]
  /\ conn' = [conn EXCEPT ![k] = "new"]
  /\ owner' = [owner EXCEPT ![k] = c]
  /\ dialled' = [dialled EXCEPT ![w] = k]
  /\ UNCHANGED ready

\* connect_to_server raises: the connection closes by itself and is tracked.
TrackCurrent(c) ==
  /\ old' = [old EXCEPT ![c] = IF Live(current[c]) THEN @ \cup {current[c]} ELSE @]
  /\ current' = [current EXCEPT ![c] = None]

-----------------------------------------------------------------------------
(* The lifecycle task of a client: connect_and_lifecycle *)

\* cleanup of client d by task c, up to its wait for d's connections.
CleansUp(c, d) ==
  /\ DropCurrent(d)
  /\ awaited' = [awaited EXCEPT ![c] = old'[d]]

\* The wait is over: whatever was added meanwhile is forgotten.
Forgets(d) == old' = [old EXCEPT ![d] = {}] /\ UNCHANGED awaited

\* The cancellation of a lifecycle task.  One that waits in cleanup passes it on
\* to the connections it waits for, and goes on waiting for them.
CancelLife(c) ==
  /\ hit' = IF Over(c) THEN hit ELSE hit \cup {c}
  /\ kill' = kill \cup awaited[c]

LifeBegins(c) ==
  /\ life[c] = "created" /\ c \notin hit
  /\ \E k \in Conn : Dial(c, c, k)
  /\ life' = [life EXCEPT ![c] = "connecting"]
  /\ UNCHANGED <<runtime, tools, hit, target, awaited, session, robbed>>

LifeConnected(c) ==
  /\ life[c] = "connecting" /\ c \notin hit /\ ready[dialled[c]] = "ok"
  /\ life' = [life EXCEPT ![c] = "listing"]
  /\ Reads(c)
  /\ UNCHANGED <<runtime, tools, hit, target, awaited, kill, holdVars, robbed>>

\* The connection failed; it closes by itself and cleanup waits for it.
LifeNotConnected(c) ==
  /\ life[c] = "connecting" /\ c \notin hit /\ ready[dialled[c]] = "error"
  /\ life' = [life EXCEPT ![c] = "undoing"]
  /\ TrackCurrent(c)
  /\ awaited' = [awaited EXCEPT ![c] = old'[c]]
  /\ Reads(c)
  /\ UNCHANGED <<runtime, tools, hit, target, kill, robbed>>

\* The tools replace those of the same server; connect_done is set.
LifeListed(c) ==
  /\ life[c] = "listing" /\ c \notin hit
  /\ life' = [life EXCEPT ![c] = "serving"]
  /\ tools' = {c}
  /\ UNCHANGED <<runtime, hit, target, awaited, connVars, kill, holdVars, robbed>>

LifeNotListed(c) ==
  /\ life[c] = "listing" /\ c \notin hit
  /\ life' = [life EXCEPT ![c] = "undoing"]
  /\ CleansUp(c, c)
  /\ UNCHANGED <<runtime, tools, hit, target, connVars, robbed>>

\* The cleanup after an error is over: connect_error, connect_done.  When it
\* was cancelled the task ends without either.
LifeUndone(c) ==
  /\ life[c] = "undoing" /\ awaited[c] = {}
  /\ life' = [life EXCEPT ![c] = IF c \in hit THEN "over" ELSE "failed"]
  /\ hit' = hit \ {c}
  /\ Forgets(c)
  /\ UNCHANGED <<runtime, tools, target, connVars, kill, current, robbed>>

\* Cancelled while it connects or lists: cleanup, and the task ends.
LifeAborts(c) ==
  /\ life[c] \in {"connecting", "listing"} /\ c \in hit
  /\ life' = [life EXCEPT ![c] = "aborting"]
  /\ hit' = hit \ {c}
  /\ CleansUp(c, c)
  /\ Reads(c)
  /\ UNCHANGED <<runtime, tools, target, robbed>>

LifeAborted(c) ==
  /\ \/ life[c] = "aborting" /\ awaited[c] = {}
     \/ life[c] = "created" /\ c \in hit
  /\ life' = [life EXCEPT ![c] = "over"]
  /\ hit' = hit \ {c}
  /\ Forgets(c)
  /\ UNCHANGED <<runtime, tools, target, connVars, kill, current, robbed>>

\* _terminate_mcp_client up to its wait: whoever has the entry is cleaned up;
\* when nobody has, only the tools go and the lifecycle task ends.
Terminate(c) ==
  /\ \/ /\ runtime # None
        /\ life' = [life EXCEPT ![c] = "closing"]
        /\ target' = [target EXCEPT ![c] = runtime]
        /\ CleansUp(c, runtime)
        /\ robbed' = robbed \cup ({runtime} \ {c})
        /\ UNCHANGED tools
     \/ /\ runtime = None
        /\ life' = [life EXCEPT ![c] = "ended"]
        /\ target' = [target EXCEPT ![c] = None]
        /\ tools' = {}
        /\ UNCHANGED <<awaited, kill, holdVars, robbed>>
  /\ hit' = hit \ {c}
  /\ UNCHANGED <<runtime, connVars>>

\* Shut down or cancelled while it serves.
LifeStops(c) ==
  /\ life[c] = "serving" /\ (c \in signal \/ c \in hit)
  /\ Terminate(c)

\* The cleanup is over: tools and entry of the name go.
LifeClosed(c) ==
  /\ life[c] = "closing" /\ c \notin hit /\ awaited[c] = {}
  /\ life' = [life EXCEPT ![c] = "ended"]
  /\ target' = [target EXCEPT ![c] = None]
  /\ tools' = {}
  /\ runtime' = None
  /\ robbed' = robbed \cup ({runtime} \ {c, None})
  /\ Forgets(target[c])
  /\ UNCHANGED <<hit, connVars, kill, current>>

\* Mutant: a late cancellation ends the task halfway.
LifeIsCut(c) ==
  /\ life[c] = "closing" /\ c \in hit /\ awaited[c] = {}
  /\ life' = [life EXCEPT ![c] = "ended"]
  /\ hit' = hit \ {c}
  /\ UNCHANGED <<runtime, tools, target, awaited, connVars, kill, holdVars, robbed>>

\* A late cancellation is absorbed and _terminate_mcp_client called again.
LifeAbsorbs(c) ==
  /\ life[c] = "closing" /\ c \in hit /\ awaited[c] = {}
  /\ Terminate(c)

LifeStep(c) ==
  /\ \/ LifeBegins(c) \/ LifeConnected(c) \/ LifeNotConnected(c) \/ LifeListed(c)
     \/ LifeNotListed(c) \/ LifeUndone(c) \/ LifeAborts(c) \/ LifeAborted(c)
     \/ LifeStops(c) \/ LifeClosed(c) \/ LifeAbsorbs(c)
  /\ signal' = {d \in signal : life'[d] \notin {"over", "failed", "ended"}}
  /\ UNCHANGED <<start, bootVars, disableVars, callVars, revived>>

-----------------------------------------------------------------------------
(* _start_mcp_server, called by init_mcp_clients or enable_mcp_server *)

\* A start while an entry exists is ignored; this one makes a client.
Starts(c) ==
  /\ IsNext(c, Client, start) /\ runtime = None
  /\ start' = [start EXCEPT ![c] = "waiting"]
  /\ life' = [life EXCEPT ![c] = "created"]
  /\ runtime' = c
  /\ UNCHANGED <<tools, hit, signal, target, awaited, disableVars, connVars, kill, holdVars,
                 callVars, robbed, revived>>

Enable(c) == Starts(c) /\ UNCHANGED bootVars

InitStarts(c) ==
  /\ boot = "idle"
  /\ boot' = "waiting" /\ booted' = c
  /\ Starts(c)

\* The entry of the name goes, whoever has it by now.
Pops(c) == runtime' = None /\ robbed' = robbed \cup ({runtime} \ {c, None})

\* connect_done is set once the tools are registered, or after an error.
StartReturns(c) ==
  /\ start[c] = "waiting"
  /\ \/ /\ life[c] \in {"serving", "closing", "ended"}
        /\ start' = [start EXCEPT ![c] = "ok"]
        /\ UNCHANGED <<runtime, robbed>>
     \/ /\ life[c] = "failed"
        /\ start' = [start EXCEPT ![c] = "failed"]
        /\ Pops(c)
  /\ UNCHANGED <<tools, life, signal, target, awaited, hit, bootVars, disableVars, connVars,
                 kill, holdVars, callVars, revived>>

\* The timeout: the lifecycle task is cancelled and waited for.
StartTimesOut(c) ==
  /\ start[c] = "waiting"
  /\ start' = [start EXCEPT ![c] = "cancelling"]
  /\ CancelLife(c)
  /\ UNCHANGED <<runtime, tools, life, signal, target, awaited, bootVars, disableVars,
                 connVars, holdVars, callVars, robbed, revived>>

\* Mutant: a start that timed out leaves the entry behind.
StartGivesUpOnly(c) ==
  /\ start[c] = "cancelling" /\ Over(c)
  /\ start' = [start EXCEPT ![c] = "failed"]
  /\ UNCHANGED <<runtime, tools, life, signal, target, awaited, hit, bootVars, disableVars,
                 connVars, kill, holdVars, callVars, robbed, revived>>

StartGivesUp(c) ==
  /\ start[c] = "cancelling" /\ Over(c)
  /\ start' = [start EXCEPT ![c] = "failed"]
  /\ Pops(c)
  /\ UNCHANGED <<tools, life, signal, target, awaited, hit, bootVars, disableVars, connVars,
                 kill, holdVars, callVars, revived>>

\* All servers have started or failed: the entry of one that failed is popped
\* again.
InitEnds ==
  /\ boot = "waiting" /\ start[booted] \in {"ok", "failed"}
  /\ boot' = "over" /\ booted' = None
  /\ \/ start[booted] = "failed" /\ Pops(booted)
     \/ start[booted] = "ok" /\ UNCHANGED <<runtime, robbed>>
  /\ UNCHANGED <<lifeVars, hit, disableVars, connVars, kill, holdVars, callVars,
                 revived>>

-----------------------------------------------------------------------------
(* disable_mcp_server *)

Disable ==
  /\ disable = "idle"
  /\ runtime # None /\ ~Over(runtime)
  /\ disable' = "waiting" /\ disabled' = runtime
  /\ signal' = signal \cup {runtime}
  /\ UNCHANGED <<runtime, tools, start, life, target, awaited, hit, bootVars, connVars, kill,
                 holdVars, callVars, robbed, revived>>

\* The lifecycle task has ended, before or after it was cancelled.
DisableReturns ==
  /\ disable # "idle" /\ Over(disabled)
  /\ disable' = "idle" /\ disabled' = None
  /\ UNCHANGED <<runtime, lifeVars, hit, bootVars, connVars, kill, holdVars,
                 callVars, robbed, revived>>

DisableTimesOut ==
  /\ disable = "waiting" /\ ~Over(disabled)
  /\ disable' = "forcing"
  /\ CancelLife(disabled)
  /\ UNCHANGED <<runtime, lifeVars, bootVars, disabled, connVars, holdVars,
                 callVars, robbed, revived>>

-----------------------------------------------------------------------------
(* call_tool_with_reconnect *)

\* An agent run has the tools of the moment it was built in.
Offered(t) ==
  /\ call[t] = "idle"
  /\ \E c \in tools : callee' = [callee EXCEPT ![t] = c]
  /\ call' = [call EXCEPT ![t] = "offered"]
  /\ UNCHANGED <<attempt, revived>>
  /\ UNCHANGED <<connVars, kill, holdVars>>

\* The call has its answer or its error.
CallEnds(t) ==
  /\ call' = [call EXCEPT ![t] = "over"]
  /\ callee' = [callee EXCEPT ![t] = None]
  /\ attempt' = [attempt EXCEPT ![t] = 0]

\* An attempt: a client without a session raises ValueError.
Called(t) ==
  /\ call[t] = "offered"
  /\ \/ /\ callee[t] \in session
        /\ call' = [call EXCEPT ![t] = "calling"]
        /\ attempt' = [attempt EXCEPT ![t] = @ + 1]
        /\ UNCHANGED callee
     \/ callee[t] \notin session /\ CallEnds(t)
  /\ UNCHANGED <<revived, connVars, kill, holdVars>>

Answered(t) ==
  /\ call[t] = "calling"
  /\ \E k \in Conn : owner[k] = callee[t] /\ conn[k] = "open"
  /\ CallEnds(t)
  /\ UNCHANGED <<revived, connVars, kill, holdVars>>

\* ClosedResourceError: the server or this side has closed the session.
Broken(t) ==
  /\ call[t] = "calling"
  /\ call' = [call EXCEPT ![t] = "lock"]
  /\ UNCHANGED <<callee, attempt, revived, connVars, kill, holdVars>>

\* _reconnect under its lock: the old connection is cancelled, a new one made.
Reconnect(t) ==
  LET c == callee[t] IN
  /\ call[t] = "lock"
  /\ \A u \in Call : callee[u] = c => call[u] \notin {"dialling", "listing"}
  /\ \E k \in Conn : Dial(t, c, k)
  /\ session' = session \ {c}
  /\ call' = [call EXCEPT ![t] = "dialling"]
  /\ revived' = revived \cup {d \in {c} : life[d] \in {"closing", "ended"}}
  /\ UNCHANGED <<callee, attempt>>

Reconnected(t) ==
  /\ call[t] = "dialling" /\ ready[dialled[t]] = "ok"
  /\ call' = [call EXCEPT ![t] = "listing"]
  /\ Reads(t)
  /\ UNCHANGED <<callee, attempt, revived, kill, holdVars>>

NotReconnected(t) ==
  /\ call[t] = "dialling" /\ ready[dialled[t]] = "error"
  /\ CallEnds(t)
  /\ TrackCurrent(callee[t])
  /\ Reads(t)
  /\ UNCHANGED <<revived, kill>>

\* Mutant: it is retried as long as the session breaks.
RelistedAlways(t) ==
  /\ call[t] = "listing"
  /\ call' = [call EXCEPT ![t] = "offered"]
  /\ UNCHANGED <<callee, attempt, revived, connVars, kill, holdVars>>

\* The tools are listed again; the first attempt is retried.
Relisted(t) ==
  /\ call[t] = "listing"
  /\ \/ /\ attempt[t] = 1
        /\ call' = [call EXCEPT ![t] = "offered"]
        /\ UNCHANGED <<callee, attempt>>
     \/ attempt[t] = 2 /\ CallEnds(t)
  /\ UNCHANGED <<revived, connVars, kill, holdVars>>

NotRelisted(t) ==
  /\ call[t] = "listing"
  /\ CallEnds(t)
  /\ UNCHANGED <<revived, connVars, kill, holdVars>>

\* The call's own timeout, or its agent run, cancels it.
CallCancelled(t) ==
  /\ call[t] \notin {"idle", "over"}
  /\ CallEnds(t)
  /\ \/ call[t] = "dialling" /\ DropCurrent(callee[t]) /\ Reads(t)
     \/ call[t] # "dialling" /\ UNCHANGED <<connVars, kill, holdVars>>
  /\ UNCHANGED revived

CallStep(t) ==
  /\ \/ Called(t) \/ Answered(t) \/ Broken(t) \/ Reconnect(t) \/ Reconnected(t)
     \/ NotReconnected(t) \/ Relisted(t) \/ NotRelisted(t) \/ CallCancelled(t)
  /\ UNCHANGED <<runtime, lifeVars, hit, bootVars, disableVars, robbed>>

CallBegins(t) ==
  Offered(t) /\ UNCHANGED <<runtime, lifeVars, hit, bootVars, disableVars, robbed>>

-----------------------------------------------------------------------------
(* The server of the name *)

Next ==
  \/ \E k \in Conn : ConnStep(k)
  \/ \E c \in Client :
       LifeStep(c) \/ Enable(c) \/ InitStarts(c) \/ StartReturns(c) \/ StartTimesOut(c)
         \/ StartGivesUp(c)
  \/ InitEnds \/ Disable \/ DisableReturns \/ DisableTimesOut
  \/ \E t \in Call : CallBegins(t) \/ CallStep(t)

\* Tasks run on, timeouts expire and closing a connection ends.  Whether a
\* server ever answers, and who enables, disables or calls, is left open.
Fairness ==
  /\ \A k \in Conn :
       WF_vars(/\ conn[k] \in {"new", "closing"} \/ k \in kill
               /\ ConnStep(k))
  /\ \A c \in Client :
       /\ WF_vars(LifeStep(c))
       /\ WF_vars(StartReturns(c) \/ StartTimesOut(c) \/ StartGivesUp(c))
  /\ WF_vars(InitEnds)
  /\ WF_vars(DisableReturns \/ DisableTimesOut)
  /\ \A t \in Call : WF_vars(CallStep(t))

Spec == Init /\ [][Next]_vars /\ Fairness

-----------------------------------------------------------------------------
(* Properties *)

\* Every variable has its type.
TypeOK ==
  /\ runtime \in Client \cup {None} /\ tools \subseteq Client
  /\ start \in [Client -> {"none", "waiting", "cancelling", "ok", "failed"}]
  /\ life \in [Client -> {"none", "created", "connecting", "listing", "undoing",
                          "aborting", "serving", "closing", "ended", "over", "failed"}]
  /\ hit \subseteq Client /\ signal \subseteq Client
  /\ target \in [Client -> Client \cup {None}] /\ awaited \in [Client -> SUBSET Conn]
  /\ boot \in {"idle", "waiting", "over"} /\ booted \in Client \cup {None}
  /\ disable \in {"idle", "waiting", "forcing"}
  /\ disabled \in Client \cup {None}
  /\ conn \in [Conn -> {"none", "new", "connecting", "open", "closing", "done"}]
  /\ owner \in [Conn -> Client \cup {None}] /\ kill \subseteq Conn
  /\ ready \in [Conn -> {"pending", "ok", "error", "told"}]
  /\ current \in [Client -> Conn \cup {None}] /\ old \in [Client -> SUBSET Conn]
  /\ session \subseteq Client
  /\ call \in [Call -> {"idle", "offered", "calling", "lock", "dialling", "listing", "over"}]
  /\ callee \in [Call -> Client \cup {None}] /\ attempt \in [Call -> 0..2]
  /\ dialled \in [Client \cup Call -> Conn \cup {None}]
  /\ robbed \subseteq Client /\ revived \subseteq Client

\* Tools in the registry belong to a client whose lifecycle task will yet take
\* them out, however its start and its shutdown were cancelled; and unless some
\* entry was popped by the start of another client, the server that serves is
\* the only one and has the entry by which it can be shut down.
RegistryIsTrue ==
  /\ \A c \in tools : life[c] \in {"serving", "closing"}
  /\ robbed = {} => \A c \in Client : life[c] = "serving" => runtime = c /\ tools = {c}

\* A connection task nobody has cancelled is the one its client would cancel, or
\* closes by itself: reconnecting leaves none behind.  A client whose lifecycle
\* task is over has none, cancelled or not, unless its entry was popped by
\* another start or a tool call has reconnected it since.
NoStrayConnection ==
  \A k \in Conn :
    /\ conn[k] \in {"new", "connecting", "open"} /\ k \notin kill => current[owner[k]] = k
    /\ robbed = {} /\ Live(k) => ~Over(owner[k]) \/ owner[k] \in revived

\* No start and no shutdown waits for ever, and no entry stays whose lifecycle
\* task is over: it would have every later start of the name ignored.
EveryRequestEnds ==
  /\ \A c \in Client : []<>(start[c] \notin {"waiting", "cancelling"})
  /\ []<>(disable = "idle")
  /\ []<>(runtime = None \/ ~Over(runtime))

\* func_tool_manager.py:673: "This method is idempotent. If the server is
\* already running, the existing runtime is kept and the new config is ignored."
OneServerRuns == \A c, d \in Client : life[c] = "serving" /\ life[d] = "serving" => c = d
=============================================================================
