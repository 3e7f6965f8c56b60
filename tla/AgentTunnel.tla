---------------------------- MODULE AgentTunnel ----------------------------
(***************************************************************************)
(* The outbound tunnel between one agent and the control plane, and the    *)
(* power requests for one of its servers.                                  *)
(*                                                                         *)
(*   agent  (Go)  apps/agent/internal/tunnel/client.go                     *)
(*   API (node)   apps/api/src/ws/agentGateway.ts, the power and delete    *)
(*                routes of routes/server.routes.ts, crash.ts, and the     *)
(*                power path of packages/bedrock/src/provider.ts           *)
(*                                                                         *)
(* The agent dials, reads commands one at a time and answers each on the   *)
(* connection it came from; it dials again when its read fails.  The API   *)
(* keeps one session per node and, per session, the commands that wait for *)
(* an answer.  Each end notices a broken link in its own time, so the API  *)
(* can still hold an old socket when the agent has dialled a new one.      *)
(*                                                                         *)
(* API code runs to completion between awaits: one action per event        *)
(* handler, one per part of a route between two awaits.  The continuations *)
(* of the power routes run in the order their promises were resolved.  The *)
(* process manager is that of AgentLifecycle for one live server, with one *)
(* step for a Restart and one for the exit of a process.  Frames that      *)
(* change no state but counters, logs and time stamps (HEARTBEAT,          *)
(* LOG_LINE, METRICS, the BACKUP frames) are left out.                     *)
(***************************************************************************)
EXTENDS Naturals, Sequences, FiniteSets

CONSTANTS MaxConns,   \* bound: connections the agent dials
          MaxCmds,    \* bound: requests
          MaxCrashes, \* bound: unexpected exits of the server
          Kinds,      \* the requests explored, out of AllKinds
          MayFail     \* the manager may fail to start or to signal

AllKinds == {"START", "STOP", "RESTART", "OTHER"}

ASSUME TunnelAssumption ==
  /\ MaxConns \in Nat
  /\ MaxCmds \in Nat
  /\ MaxCrashes \in Nat
  /\ Kinds \subseteq AllKinds
  /\ MayFail \in BOOLEAN

Conns == 1..MaxConns
Cmds == 1..MaxCmds
Nil == 0        \* no connection, no command
Results == {"ok", "failed"}

Resp(c) == [type |-> "CMD_RESP", id |-> c]
Crash == [type |-> "CRASH", id |-> Nil]
Frames == {Crash} \cup {Resp(c) : c \in Cmds}

VARIABLES
  \* the links
  link,     \* per connection: "none", "up", "cut"
  down,     \* per connection: CMD_EXEC frames in flight to the agent
  up,       \* per connection: CMD_RESP and CRASH frames in flight to the API
  \* the agent
  dialing,  \* the connection DialContext is establishing
  conn,     \* Client.conn; its readLoop runs while it is not Nil
  working,  \* the command handleCommand is executing
  bds,      \* lifecycle.Manager's state of the server
  procs,    \* lifecycle.Manager's processes of the server
  owed,     \* exits taken for crashes onProcessExit has not been called for
  crashed,  \* history: how many exits the manager took for crashes
  result,   \* history: what executing each command gave
  executed, \* history: the commands in the order they were executed
  \* the API
  ws,       \* per connection: readyState of the server-side socket
  session,  \* AgentTunnelGateway.sessions at the node's id
  node,     \* db.agentNodes: the node's status
  pending,  \* per connection: AgentSession.pendingCommands
  kind,     \* per command: what was asked
  via,      \* per command: the connection it was sent on
  promise,  \* per command: what the route's await has got
  ready,    \* resolved commands whose routes have not gone on yet
  status,   \* db.servers: the server's status
  deleted,  \* db.servers: the server's deletedAt is set
  crashes,  \* db.servers: the server's crashCount24h, within one day
  disturbed \* history: a failure, a timeout, a delete, the crash of the current
            \* process, a CRASH frame or an answer on a superseded connection

links == <<link, down, up>>
server == <<bds, procs, owed, crashed>>
agent == <<dialing, conn, working, server, result, executed>>
gateway == <<ws, session, node, pending>>
calls == <<kind, via, promise, ready>>
record == <<status, deleted, crashes>>
vars == <<links, agent, gateway, calls, record, disturbed>>

(***************************************************************************)
(* Instance.generation and Instance.cmd (the generation it was spawned by, *)
(* 0 for nil), the intentionalStop mark (0 for none), and the processes    *)
(* whose wait goroutine has not noted their exit.                          *)
(***************************************************************************)
Processes == [generation : Nat, cmd : Nat, mark : Nat, alive : SUBSET Nat]

TypeOK ==
  /\ link \in [Conns -> {"none", "up", "cut"}]
  /\ down \in [Conns -> Seq(Cmds)]
  /\ up \in [Conns -> Seq(Frames)]
  /\ dialing \in Conns \cup {Nil}
  /\ conn \in Conns \cup {Nil}
  /\ working \in Cmds \cup {Nil}
  /\ bds \in {"OFFLINE", "ONLINE", "ERROR"}
  /\ procs \in Processes
  /\ owed \in 0..MaxCrashes
  /\ crashed \in 0..MaxCrashes
  /\ result \in [Cmds -> Results \cup {"none"}]
  /\ executed \in Seq(Cmds)
  /\ ws \in [Conns -> {"none", "OPEN", "CLOSING", "CLOSED"}]
  /\ session \in Conns \cup {Nil}
  /\ node \in {"ONLINE", "OFFLINE"}
  /\ pending \in [Conns -> SUBSET Cmds]
  /\ kind \in [Cmds -> AllKinds]
  /\ via \in [Cmds -> Conns \cup {Nil}]
  /\ promise \in [Cmds -> Results \cup {"none", "waiting", "rejected"}]
  /\ ready \in Seq(Cmds)
  /\ status \in {"OFFLINE", "ONLINE", "ERROR"}
  /\ deleted \in BOOLEAN
  /\ crashes \in 0..MaxCrashes
  /\ disturbed \in BOOLEAN

Init ==
  /\ link = [k \in Conns |-> "none"]
  /\ down = [k \in Conns |-> <<>>]
  /\ up = [k \in Conns |-> <<>>]
  /\ dialing = Nil
  /\ conn = Nil
  /\ working = Nil
  /\ bds = "OFFLINE"
  /\ procs = [generation |-> 0, cmd |-> Nil, mark |-> 0, alive |-> {}]
  /\ owed = 0
  /\ crashed = 0
  /\ result = [c \in Cmds |-> "none"]
  /\ executed = <<>>
  /\ ws = [k \in Conns |-> "none"]
  /\ session = Nil
  /\ node = "OFFLINE"
  /\ pending = [k \in Conns |-> {}]
  /\ kind = [c \in Cmds |-> "OTHER"]
  /\ via = [c \in Cmds |-> Nil]
  /\ promise = [c \in Cmds |-> "none"]
  /\ ready = <<>>
  /\ status = "OFFLINE"
  /\ deleted = FALSE
  /\ crashes = 0
  /\ disturbed = FALSE

-----------------------------------------------------------------------------
(* Connections *)

Fresh(k) == link[k] = "none" /\ \A j \in 1..(k - 1) : link[j] # "none"

\* Client.session: the next attempt of Run's loop.
Dial(k) ==
  /\ conn = Nil /\ dialing = Nil
  /\ Fresh(k)
  /\ dialing' = k
  /\ link' = [link EXCEPT ![k] = "up"]
  /\ UNCHANGED <<down, up, conn, working, server, result, executed,
                 gateway, calls, record, disturbed>>

\* AgentTunnelGateway.handleConnection: the newest socket takes the node's
\* place in the session map.
HandleConnection(k) ==
  /\ dialing = k /\ ws[k] = "none"
  /\ ws' = [ws EXCEPT ![k] = "OPEN"]
  /\ session' = k
  /\ node' = "ONLINE"
  /\ UNCHANGED <<links, agent, pending, calls, record, disturbed>>

DialReturns(k) ==
  /\ dialing = k /\ ws[k] # "none"
  /\ dialing' = Nil
  /\ conn' = k
  /\ UNCHANGED <<links, working, server, result, executed,
                 gateway, calls, record, disturbed>>

DialFails(k) ==
  /\ dialing = k
  /\ dialing' = Nil
  /\ link' = [link EXCEPT ![k] = "cut"]
  /\ UNCHANGED <<down, up, conn, working, server, result, executed,
                 gateway, calls, record, disturbed>>

CutLink(k) ==
  /\ link[k] = "up" /\ ws[k] # "none"
  /\ link' = [link EXCEPT ![k] = "cut"]
  /\ UNCHANGED <<down, up, agent, gateway, calls, record, disturbed>>

\* readLoop's read fails, session closes the connection and returns.  The
\* loop executes commands itself, so that happens between two of them.
ReadFails(k) ==
  /\ conn = k
  /\ link[k] = "cut"
  /\ working = Nil
  /\ conn' = Nil
  /\ down' = [down EXCEPT ![k] = <<>>]
  /\ UNCHANGED <<link, up, dialing, working, server, result,
                 executed, gateway, calls, record, disturbed>>

SocketCloses(k) ==
  /\ link[k] = "cut"
  /\ ws[k] = "OPEN"
  /\ ws' = [ws EXCEPT ![k] = "CLOSING"]
  /\ UNCHANGED <<links, agent, session, node, pending, calls, record, disturbed>>

\* Mutations of the close handler: the session is left in the map; the timers
\* of the commands that wait for an answer are dropped without a rejection.
KeepSession(k) ==
  /\ node' = "OFFLINE"
  /\ UNCHANGED <<session, pending>>
DropPending(k) ==
  /\ session' = Nil
  /\ node' = "OFFLINE"
  /\ pending' = [pending EXCEPT ![k] = {}]

\* The handler deletes whatever session the node has by now, and leaves the
\* pending commands of this socket to their timers.
Forget(k) ==
  /\ session' = Nil
  /\ node' = "OFFLINE"
  /\ UNCHANGED pending

\* The 'close' event (agentGateway.ts:68-74).
OnClose(k) ==
  /\ ws[k] = "CLOSING"
  /\ ws' = [ws EXCEPT ![k] = "CLOSED"]
  /\ up' = [up EXCEPT ![k] = <<>>]
  /\ Forget(k)
  /\ UNCHANGED <<link, down, agent, calls, record, disturbed>>

-----------------------------------------------------------------------------
(* The agent's commands and crashes *)

\* Mutation: every command gets a goroutine of its own.
AnyFrame(k) == 1..Len(down[k])

\* readLoop takes the frames as they come.
NextFrame(k) == {i \in 1..Len(down[k]) : i = 1}

Receive(k) ==
  /\ conn = k /\ working = Nil
  /\ \E i \in NextFrame(k) :
       /\ working' = down[k][i]
       /\ down' = [down EXCEPT ![k] = SubSeq(@, 1, i - 1)
                                        \o SubSeq(@, i + 1, Len(@))]
  /\ UNCHANGED <<link, up, dialing, conn, server, result, executed,
                 gateway, calls, record, disturbed>>

Spawned(p) ==
  [p EXCEPT !.generation = @ + 1, !.cmd = p.generation + 1,
            !.alive = @ \cup {p.generation + 1}]

\* A Start that fails has incremented the generation; cmd names what it named.
NotSpawned(p) == [p EXCEPT !.generation = @ + 1]

Marked(p) == [p EXCEPT !.mark = p.generation]

\* What Manager.Start makes of state s and processes p, and what it answers.
Started(s, p) ==
  IF s = "ONLINE" THEN {<<s, p, "ok">>}
  ELSE {<<"ONLINE", Spawned(p), "ok">>}
         \cup IF MayFail THEN {<<"ERROR", NotSpawned(p), "failed">>} ELSE {}

\* Manager.Stop: a process there is gets a signal, which may be refused.
Stopped(s, p) ==
  IF s = "OFFLINE" THEN {<<s, p, "ok">>}
  ELSE {<<"OFFLINE", Marked(p), "ok">>}
         \cup IF MayFail /\ p.cmd # Nil
              THEN {<<"ERROR", Marked(p), "failed">>} ELSE {}

\* The process that was told to stop has exited.
Gone(p) ==
  IF p.cmd # Nil /\ p.mark = p.cmd
  THEN [p EXCEPT !.cmd = Nil, !.mark = 0, !.alive = @ \ {p.cmd}] ELSE p

Halted(s, p) == {h \in Stopped(s, p) : h[3] = "ok"}

\* Manager.Restart is a Stop and, if it succeeded, a Start; the process may
\* exit between the two.
Restarted(s, p) ==
  (Stopped(s, p) \ Halted(s, p)) \cup
    UNION {Started("OFFLINE", h[2]) \cup Started("OFFLINE", Gone(h[2])) :
             h \in Halted(s, p)}

Outcomes(what) ==
  CASE what = "START"   -> Started(bds, procs)
    [] what = "STOP"    -> Stopped(bds, procs)
    [] what = "RESTART" -> Restarted(bds, procs)
    [] what = "OTHER"   -> {<<bds, procs, r>> : r \in Results}

HandleCommand ==
  /\ working # Nil
  /\ result[working] = "none"
  /\ \E o \in Outcomes(kind[working]) :
       /\ bds' = o[1]
       /\ procs' = o[2]
       /\ result' = [result EXCEPT ![working] = o[3]]
       /\ disturbed' = (disturbed \/ o[3] = "failed")
  /\ executed' = Append(executed, working)
  /\ UNCHANGED <<links, dialing, conn, working, owed, crashed,
                 gateway, calls, record>>

\* Client.sendFrame: what is written to a broken link is lost unnoticed.
SendFrame(f) ==
  up' = IF conn # Nil /\ link[conn] = "up"
        THEN [up EXCEPT ![conn] = Append(@, f)] ELSE up

Respond ==
  /\ working # Nil
  /\ result[working] # "none"
  /\ SendFrame(Resp(working))
  /\ working' = Nil
  /\ UNCHANGED <<link, down, dialing, conn, server, result, executed,
                 gateway, calls, record, disturbed>>

\* The last Stop came after the Start that spawned the process and before
\* the next Start.
WasIntentional(g) == procs.mark = g

\* Mutation: any exit decides the state.
EveryExit(g) == TRUE

\* No later Start has replaced the process.
IsCurrent(g) == procs.cmd = g

\* A process has exited, asked to or not, and its wait goroutine notes it: the
\* state follows only if cmd still names that process, but any exit that was
\* not marked is taken for a crash, that of a superseded process included.
ProcessExits(g) ==
  /\ g \in procs.alive
  /\ ~WasIntentional(g) => crashed < MaxCrashes
  /\ procs' = [procs EXCEPT !.cmd = IF IsCurrent(g) THEN Nil ELSE @,
                            !.mark = IF WasIntentional(g) THEN 0 ELSE @,
                            !.alive = @ \ {g}]
  /\ bds' = CASE ~IsCurrent(g) -> bds
             [] IsCurrent(g) /\ WasIntentional(g) -> "OFFLINE"
             [] IsCurrent(g) /\ ~WasIntentional(g) -> "ERROR"
  /\ IF WasIntentional(g) THEN UNCHANGED <<owed, crashed>>
                           ELSE owed' = owed + 1 /\ crashed' = crashed + 1
  /\ disturbed' = (disturbed \/ (procs.cmd = g /\ ~WasIntentional(g)))
  /\ UNCHANGED <<links, dialing, conn, working, result, executed,
                 gateway, calls, record>>

\* Mutation: the frame is sent again until a link is up, with nothing that
\* would tell one crash from two.
KeepReporting ==
  /\ owed > 0
  /\ SendFrame(Crash)
  /\ UNCHANGED <<link, down, dialing, conn, working, server, result,
                 executed, gateway, calls, record, disturbed>>

\* onProcessExit runs in that goroutine, after the manager's lock is released.
OnProcessExit ==
  /\ owed > 0
  /\ SendFrame(Crash)
  /\ owed' = owed - 1
  /\ UNCHANGED <<link, down, dialing, conn, working, bds, procs, crashed,
                 result, executed, gateway, calls, record, disturbed>>

-----------------------------------------------------------------------------
(* The API *)

NextCmd(c) == promise[c] = "none" /\ \A d \in 1..(c - 1) : promise[d] # "none"

IsNodeConnected == session # Nil /\ ws[session] = "OPEN"

\* A route finds the server and calls the provider, which finds the node
\* connected and sends the command: all before the first await.
SendCommand(c, what) ==
  /\ NextCmd(c)
  /\ ~deleted
  /\ IsNodeConnected
  /\ kind' = [kind EXCEPT ![c] = what]
  /\ via' = [via EXCEPT ![c] = session]
  /\ promise' = [promise EXCEPT ![c] = "waiting"]
  /\ pending' = [pending EXCEPT ![session] = @ \cup {c}]
  /\ down' = IF link[session] = "up"
             THEN [down EXCEPT ![session] = Append(@, c)] ELSE down
  /\ UNCHANGED <<link, up, agent, ws, session, node, ready, record, disturbed>>

\* Without a connection the provider turns to the local runner, whatever the
\* agent's server is doing.  Its answer is not modelled here.
RunLocally(c, what) ==
  /\ NextCmd(c)
  /\ ~deleted
  /\ ~IsNodeConnected
  /\ what # "OTHER"
  /\ kind' = [kind EXCEPT ![c] = what]
  /\ \E r \in Results : promise' = [promise EXCEPT ![c] = r]
  /\ ready' = Append(ready, c)
  /\ disturbed' = TRUE
  /\ UNCHANGED <<links, agent, gateway, via, record>>

\* setTimeout in sendCommand.  A timer exists as long as the entry does.
CommandTimeout(c) ==
  /\ promise[c] = "waiting"
  /\ c \in pending[via[c]]
  /\ promise' = [promise EXCEPT ![c] = "rejected"]
  /\ pending' = [pending EXCEPT ![via[c]] = @ \ {c}]
  /\ disturbed' = TRUE
  /\ UNCHANGED <<links, agent, ws, session, node, kind, via, ready, record>>

\* Mutation: an answer settles the oldest command of the session.
Oldest(k, c) ==
  IF pending[k] = {} THEN {} ELSE {CHOOSE d \in pending[k] :
                                     \A e \in pending[k] : d <= e}

\* pendingCommands.get(frame.id)
Awaited(k, c) == pending[k] \cap {c}

\* processFrame, case CMD_RESP: a late answer finds nothing and is dropped.
OnResponse(k, c) ==
  /\ \A d \in Awaited(k, c) :
       /\ promise' = [promise EXCEPT ![d] = result[c]]
       /\ ready' = Append(ready, d)
       /\ pending' = [pending EXCEPT ![k] = @ \ {d}]
  /\ Awaited(k, c) = {} => UNCHANGED <<promise, ready, pending>>
  /\ disturbed' = (disturbed \/ k # session)
  /\ UNCHANGED <<status, crashes>>

\* processFrame, case CRASH, and recordServerCrash.
OnCrash ==
  /\ IF deleted THEN UNCHANGED <<status, crashes>>
                ELSE status' = "ERROR" /\ crashes' = crashes + 1
  /\ disturbed' = TRUE
  /\ UNCHANGED <<promise, ready, pending>>

\* The message handler of a socket is the same whether or not the session
\* map still points to it.
ProcessFrame(k) ==
  /\ ws[k] = "OPEN"
  /\ up[k] # <<>>
  /\ up' = [up EXCEPT ![k] = Tail(@)]
  /\ LET f == Head(up[k]) IN
       IF f.type = "CRASH" THEN OnCrash ELSE OnResponse(k, f.id)
  /\ UNCHANGED <<link, down, agent, ws, session, node, kind, via, deleted>>

\* A negative answer leaves the status as it is, a rejection never gets here.
SetStatus(c) ==
  status' = CASE promise[c] = "ok" /\ kind[c] \in {"START", "RESTART"} -> "ONLINE"
              [] promise[c] = "ok" /\ kind[c] = "STOP" -> "OFFLINE"
              [] OTHER -> status

\* The rest of the power route, after its await.  It looks neither for a
\* crash nor for a delete that came in between.
RouteGoesOn ==
  /\ ready # <<>>
  /\ SetStatus(Head(ready))
  /\ ready' = Tail(ready)
  /\ UNCHANGED <<links, agent, gateway, kind, via, promise, deleted, crashes,
                 disturbed>>

DeleteServer ==
  /\ ~deleted
  /\ deleted' = TRUE
  /\ status' = "OFFLINE"
  /\ disturbed' = TRUE
  /\ UNCHANGED <<links, agent, gateway, calls, crashes>>

-----------------------------------------------------------------------------
Agent ==
  \/ \E k \in Conns : Dial(k) \/ DialReturns(k) \/ DialFails(k) \/ ReadFails(k)
                        \/ Receive(k)
  \/ HandleCommand \/ Respond \/ OnProcessExit
  \/ \E g \in procs.alive : ProcessExits(g)

Gateway ==
  \/ \E k \in Conns : HandleConnection(k) \/ SocketCloses(k) \/ OnClose(k)
                        \/ ProcessFrame(k)
  \/ \E c \in Cmds : CommandTimeout(c)

Routes ==
  \/ \E c \in Cmds, what \in Kinds : SendCommand(c, what) \/ RunLocally(c, what)
  \/ RouteGoesOn
  \/ DeleteServer

Next == Agent \/ Gateway \/ Routes \/ \E k \in Conns : CutLink(k)

(***************************************************************************)
(* Timers fire, sockets that are broken are closed, the agent dials again  *)
(* and both sides keep reading.  Nothing makes a link break, a dial        *)
(* succeed, a process crash or anyone ask for anything.                    *)
(***************************************************************************)
Fairness ==
  /\ \A k \in Conns :
       /\ WF_vars(Dial(k)) /\ WF_vars(HandleConnection(k))
       /\ WF_vars(DialReturns(k) \/ DialFails(k)) /\ WF_vars(ReadFails(k))
       /\ WF_vars(Receive(k)) /\ WF_vars(SocketCloses(k)) /\ WF_vars(OnClose(k))
       /\ WF_vars(ProcessFrame(k))
  /\ \A c \in Cmds : WF_vars(CommandTimeout(c))
  /\ WF_vars(HandleCommand) /\ WF_vars(Respond) /\ WF_vars(OnProcessExit)
  /\ WF_vars(RouteGoesOn)

Spec == Init /\ [][Next]_vars
FairSpec == Spec /\ Fairness

-----------------------------------------------------------------------------
(* Properties *)

\* The session map never points to a socket that was superseded or has been
\* closed, and the node is shown ONLINE exactly while it has a session.
SessionIsNewest ==
  /\ session # Nil =>
       /\ ws[session] \in {"OPEN", "CLOSING"}
       /\ \A k \in Conns : ws[k] # "none" => k <= session
  /\ node = "ONLINE" <=> session # Nil

\* Across reconnects no command overtakes another: the agent executes each
\* command once at most, those of one connection in the order they were sent,
\* and never one of an old connection after one of a new connection.
ExecutedInOrder ==
  \A i, j \in 1..Len(executed) : i < j =>
    /\ executed[i] < executed[j]
    /\ via[executed[i]] <= via[executed[j]]

\* With every command answered in time on the connection the session map
\* points to, the server's own process alive and no CRASH frame taken in,
\* whatever the concurrency of requests, the reconnects between them and the
\* exits of the processes they end, the record agrees with the agent as soon
\* as no request is under way.  A CRASH frame is excepted whatever it stands
\* for: that of a superseded process makes the record ERROR beside a server
\* that is ONLINE.
AgreesUndisturbed ==
  ~disturbed /\ ready = <<>> /\ (\A c \in Cmds : promise[c] # "waiting") =>
    (status = "ONLINE" <=> bds = "ONLINE")

\* The record says ONLINE only on the strength of a start that succeeded:
\* neither a rejection, nor a failure, nor somebody else's answer brings it up.
OnlineHasCause ==
  status = "ONLINE" =>
    \E c \in Cmds : /\ kind[c] \in {"START", "RESTART"}
                    /\ promise[c] = "ok"
                    /\ via[c] # Nil => result[c] = "ok"

\* A crash is counted once: every CRASH frame, in flight or counted, stands
\* for a process exit of its own.
CrashCountedOnce ==
  LET InFlight(k) == {i \in 1..Len(up[k]) : up[k][i] = Crash}
      flying == UNION {InFlight(k) \X {k} : k \in Conns}
  IN crashes + owed + Cardinality(flying) <= crashed

\* A route waits for an answer exactly as long as the session it sent its command
\* on holds the entry with its timer: no reconnect, late close or late answer
\* drops an entry and leaves the route waiting, or leaves one nobody waits for.
WaitingIsPending ==
  \A c \in Cmds, k \in Conns :
    c \in pending[k] <=> promise[c] = "waiting" /\ via[c] = k

\* Every request gets its answer or its rejection, whatever breaks.
CallsEnd == \A c \in Cmds : promise[c] = "waiting" ~> promise[c] # "waiting"

\* The calls of the routes behave like remote calls that are carried out at
\* most once and answered with their own outcome.
Remote == INSTANCE RemoteCall WITH
  Calls <- Cmds,
  call <- [c \in Cmds |-> IF via[c] = Nil /\ promise[c] # "none"
                          THEN "local" ELSE promise[c]],
  effect <- result
CallsAreRemoteCalls == Remote!RSpec

\* agentGateway.ts:181: listConnectedNodeIds gives the "Node ids with an open
\* outbound tunnel session".  So a node whose newest socket is open is listed.
OpenIsListed ==
  \A k \in Conns :
    conn = k /\ ws[k] = "OPEN" => IsNodeConnected

\* SHIP_READINESS.md:18: "agent auto-reports unexpected process exit".  So a
\* crash of a server that is not deleted ends up in its crash count.
CrashReachesApi == crashed > 0 ~> crashes > 0 \/ deleted

=============================================================================
