------------------------------ MODULE LocalHost ------------------------------
(***************************************************************************)
(* Who runs a server: LocalServerRunner (packages/bedrock), the provider   *)
(* that falls back to it while the agent is away, and what writes the      *)
(* status of the record meanwhile: the power, rcon, status and delete      *)
(* routes, stop-all and the live broadcaster.                              *)
(*                                                                         *)
(* One server.  Everything between two awaits is one step; exit events,    *)
(* timers, answers and pings are steps of their own.  What travels through *)
(* the tunnel is AgentTunnel's subject: here a command is answered or not. *)
(***************************************************************************)
EXTENDS Integers, FiniteSets

CONSTANTS
  MaxPid,     \* bound: the processes that can be spawned
  None,       \* no process
  Requests,   \* bound: requests that wait at a time
  MaxRestart  \* bound: restarts of the API

ASSUME LocalHostAssumption == MaxPid \in Nat /\ MaxRestart \in Nat /\ None \notin Nat

Pids == 1..MaxPid

VARIABLES
  record,     \* server.status
  deleted,    \* server.deletedAt is set
  local,      \* LocalState.status
  handle,     \* LocalState.process
  proc,       \* per process: "none", "up", "gone", "seen" (its exit event was handled)
  mine,       \* processes spawned by the API process that runs now
  told,       \* processes "stop" was written to
  killed,     \* processes whose kill() succeeded
  timers,     \* processes whose stop left a timer behind that has not fired
  waiting,    \* per request: what it waits for
  connected,  \* isNodeConnected
  restarts,
  cleared,    \* history: an exit event dropped the handle of another process
  exposed,    \* history: processes spawned while a timer was pending
  bypassed    \* history: OFFLINE was recorded for the agent, or with the deletion of
              \* the server, while a local process was up

runnerVars == <<record, local, handle, proc, mine, told, killed, timers, waiting,
                connected, restarts, deleted, cleared, exposed, bypassed>>

state == <<record, local, handle, proc, mine, told, killed, timers>>
host == <<connected, restarts, deleted>>

Status == {"ONLINE", "OFFLINE", "ERROR"}
Waits == {"idle", "START", "STOP", "RESTART", "STOPALL",  \* for the agent
          "pause",                                        \* between stop and start
          "STATUS", "BROADCAST"}                          \* for a ping that is answered

RunnerTypeOK ==
  /\ record \in Status /\ deleted \in BOOLEAN /\ local \in Status \ {"ERROR"}
  /\ handle \in Pids \cup {None}
  /\ proc \in [Pids -> {"none", "up", "gone", "seen"}]
  /\ mine \subseteq Pids /\ told \subseteq Pids /\ killed \subseteq Pids
  /\ timers \subseteq Pids /\ exposed \subseteq Pids
  /\ waiting \in [Requests -> Waits]

RunnerInit ==
  /\ record = "OFFLINE" /\ local = "OFFLINE" /\ deleted = FALSE
  /\ handle = None
  /\ proc = [p \in Pids |-> "none"]
  /\ mine = {} /\ told = {} /\ killed = {} /\ timers = {}
  /\ waiting = [q \in Requests |-> "idle"]
  /\ connected \in BOOLEAN
  /\ restarts = 0
  /\ cleared = FALSE /\ exposed = {} /\ bypassed = FALSE

Up == {p \in Pids : proc[p] = "up"}

\* state.process && !state.process.killed
Usable == handle # None /\ handle \notin killed

\* Mutation: startServer does not look at what it has.
NeverUp == FALSE
AlreadyUp == local = "ONLINE" /\ Usable

-----------------------------------------------------------------------------
(* LocalServerRunner                                                        *)

\* startServer up to the status the route writes: nothing to do, the process
\* runner that has no process, or a process.  A handle is overwritten.
LocalStart ==
  /\ record' = "ONLINE"
  /\ \/ /\ AlreadyUp
        /\ UNCHANGED <<local, handle, proc, mine, exposed>>
     \/ /\ ~AlreadyUp
        /\ local' = "ONLINE"
        /\ UNCHANGED <<handle, proc, mine, exposed>>
     \/ /\ ~AlreadyUp
        /\ local' = "ONLINE"
        /\ \E p \in Pids :
             /\ proc[p] = "none" /\ \A o \in 1..(p - 1) : proc[o] # "none"
             /\ handle' = p
             /\ proc' = [proc EXCEPT ![p] = "up"]
             /\ mine' = mine \cup {p}
             /\ exposed' = IF timers # {} THEN exposed \cup {p} ELSE exposed
  /\ UNCHANGED <<told, killed, timers, cleared, bypassed>>

\* Mutation: the handle is dropped before the process is written to.
StopForgets ==
  /\ handle' = IF Usable THEN None ELSE handle
  /\ local' = "OFFLINE" /\ record' = "OFFLINE"
  /\ UNCHANGED <<proc, mine, told, timers, killed, cleared, exposed, bypassed>>

\* stopServer: "stop" to the process, a timer, and the handle is dropped at once.
LocalStop ==
  /\ IF Usable
     THEN /\ told' = told \cup {handle}
          /\ timers' = timers \cup {handle}
          /\ handle' = None
     ELSE UNCHANGED <<told, timers, handle>>
  /\ local' = "OFFLINE" /\ record' = "OFFLINE"
  /\ UNCHANGED <<proc, mine, killed, cleared, exposed, bypassed>>

\* Mutation: the timer kills the process that was told to stop.
TimerRemembers ==
  /\ \E t \in timers :
       /\ timers' = timers \ {t}
       /\ killed' = IF t \in Up THEN killed \cup {t} ELSE killed
  /\ UNCHANGED <<record, local, handle, proc, mine, told, waiting, host, cleared, exposed, bypassed>>

\* Two seconds after a stop: the timer kills the process it finds in the handle.
TimerFires ==
  /\ \E t \in timers : timers' = timers \ {t}
  /\ killed' = IF Usable /\ handle \in Up THEN killed \cup {handle} ELSE killed
  /\ UNCHANGED <<record, local, handle, proc, mine, told, waiting, host, cleared, exposed, bypassed>>

\* A process ends: asked, killed, or by itself.
Die(p) ==
  /\ p \in Up
  /\ proc' = [proc EXCEPT ![p] = IF p \in mine THEN "gone" ELSE "seen"]
  /\ UNCHANGED <<record, local, handle, mine, told, killed, timers, waiting, host, cleared, exposed, bypassed>>

\* proc.on('exit'): whichever process it was, status and handle are cleared.
ExitHandler(p) ==
  /\ proc[p] = "gone"
  /\ proc' = [proc EXCEPT ![p] = "seen"]
  /\ record' = "OFFLINE" /\ local' = "OFFLINE"
  /\ handle' = None
  /\ cleared' = (cleared \/ handle \notin {None, p})
  /\ UNCHANGED <<mine, told, killed, timers, waiting, host, exposed, bypassed>>

\* restartServer: stop, 200 ms, start.
RestartStops(q) ==
  /\ waiting[q] = "idle"
  /\ LocalStop
  /\ waiting' = [waiting EXCEPT ![q] = "pause"]
  /\ UNCHANGED host

RestartStarts(q) ==
  /\ waiting[q] = "pause"
  /\ LocalStart
  /\ waiting' = [waiting EXCEPT ![q] = "idle"]
  /\ UNCHANGED host

-----------------------------------------------------------------------------
(* Routes and the provider.  No route finds a deleted server, but what was  *)
(* under way when it was deleted goes on, and so does the broadcaster.      *)

StartHere == LocalStart /\ UNCHANGED <<waiting, host>>
StopHere == LocalStop /\ UNCHANGED <<waiting, host>>

AskAgent(q, action) ==
  /\ waiting[q] = "idle"
  /\ waiting' = [waiting EXCEPT ![q] = action]
  /\ UNCHANGED <<state, host, cleared, exposed, bypassed>>

\* The provider asks the agent while it is connected, else its own runner.
power(q, action) ==
  IF connected THEN AskAgent(q, action)
  ELSE \/ action = "START" /\ StartHere
       \/ action \in {"STOP", "STOPALL"} /\ StopHere
       \/ action = "RESTART" /\ RestartStops(q)

\* POST power; KILL differs from STOP in what the agent does only.
PowerRoute(q) == ~deleted /\ \E action \in {"START", "STOP", "RESTART"} : power(q, action)

\* LocalServerRunner.executeRcon: a command is written to the process and answered
\* by the runner itself.  Only "stop" does more, it stops the server as well.
ConsoleStop == StopHere

\* POST rcon: a command goes to the agent, of which nothing is recorded here, or
\* to the runner.
RconRoute == ~deleted /\ ~connected /\ ConsoleStop

\* POST control does what POST power does and takes commands too.
ControlRoute(q) == PowerRoute(q) \/ RconRoute

StopAll(q) == ~deleted /\ power(q, "STOPALL")

\* The status a route writes beside the runner, which may have a process up.
Recorded(status) ==
  /\ record' = status
  /\ bypassed' = (bypassed \/ (status = "OFFLINE" /\ Up \cap mine # {}))
  /\ UNCHANGED <<local, handle, proc, mine, told, killed, timers, connected, restarts,
                 cleared, exposed>>

\* The agent's answer to a power route.
AgentAnswers(q, ok) ==
  /\ waiting[q] \in {"START", "STOP", "RESTART"}
  /\ waiting' = [waiting EXCEPT ![q] = "idle"]
  /\ Recorded(IF ~ok THEN record ELSE IF waiting[q] = "STOP" THEN "OFFLINE" ELSE "ONLINE")
  /\ UNCHANGED deleted

\* stop-all records OFFLINE whatever the answer.
StopAllAnswered(q) ==
  /\ waiting[q] = "STOPALL"
  /\ waiting' = [waiting EXCEPT ![q] = "idle"]
  /\ Recorded("OFFLINE") /\ UNCHANGED deleted

\* POST crash, or the agent's CRASH frame.
CrashRecorded ==
  ~deleted /\ record # "ERROR" /\ Recorded("ERROR") /\ UNCHANGED <<waiting, deleted>>

\* DELETE the server: nothing is told to stop.
DeleteRoute == ~deleted /\ deleted' = TRUE /\ Recorded("OFFLINE") /\ UNCHANGED waiting

\* Timeout or disconnect: stop-all catches the exception.
AgentSilent(q) ==
  /\ waiting[q] = "STOPALL"
  /\ waiting' = [waiting EXCEPT ![q] = "idle"]
  /\ UNCHANGED <<state, host, cleared, exposed, bypassed>>

\* The port is pinged; any program there may answer.
Ping(q, w) ==
  /\ waiting[q] = "idle"
  /\ waiting' = [waiting EXCEPT ![q] = w]
  /\ UNCHANGED <<state, host, cleared, exposed, bypassed>>

\* getStatus comes to the runner without an agent, or when the agent does not answer.
StatusRoute(q) == ~deleted /\ Ping(q, "STATUS")

StatusReturns(q) ==
  /\ waiting[q] = "STATUS"
  /\ waiting' = [waiting EXCEPT ![q] = "idle"]
  /\ record' = "ONLINE" /\ local' = "ONLINE"
  /\ UNCHANGED <<handle, proc, mine, told, killed, timers, host, cleared, exposed, bypassed>>

BroadcasterReturns(q) ==
  /\ waiting[q] = "BROADCAST"
  /\ waiting' = [waiting EXCEPT ![q] = "idle"]
  /\ Recorded("ONLINE") /\ UNCHANGED deleted

\* The agent's connection comes and goes.
AgentChanges ==
  /\ connected' = ~connected
  /\ UNCHANGED <<state, waiting, restarts, deleted, cleared, exposed, bypassed>>

\* The API process ends - by itself, of a rejection that nobody handles, or of an
\* 'error' event without a listener: a binary that cannot be executed, "stop" to a
\* process whose exit was not handled yet - and starts again.  Its children live
\* on; the record is loaded.
ApiRestarts ==
  /\ restarts < MaxRestart
  /\ restarts' = restarts + 1
  /\ local' = "OFFLINE"
  /\ handle' = None
  /\ proc' = [p \in Pids |-> IF proc[p] = "gone" THEN "seen" ELSE proc[p]]
  /\ mine' = {} /\ timers' = {}
  /\ waiting' = [q \in Requests |-> "idle"]
  /\ connected' = FALSE
  /\ UNCHANGED <<record, deleted, told, killed, cleared, exposed, bypassed>>

\* Timeout or disconnect: the power routes do not catch the exception.
RouteRejects(q) == waiting[q] \in {"START", "STOP", "RESTART"} /\ ApiRestarts

RunnerNext ==
  \/ \E q \in Requests :
       \/ ControlRoute(q) \/ StopAll(q) \/ RestartStarts(q)
       \/ AgentAnswers(q, TRUE) \/ AgentAnswers(q, FALSE)
       \/ StopAllAnswered(q) \/ AgentSilent(q) \/ RouteRejects(q)
       \/ StatusRoute(q) \/ StatusReturns(q) \/ Ping(q, "BROADCAST") \/ BroadcasterReturns(q)
  \/ CrashRecorded \/ DeleteRoute
  \/ \E p \in Pids : Die(p) \/ ExitHandler(p)
  \/ TimerFires \/ AgentChanges \/ ApiRestarts

RunnerSpec == RunnerInit /\ [][RunnerNext]_runnerVars

-----------------------------------------------------------------------------
(* Properties                                                               *)

\* The runner loses no process it still means to run: one that is up and was
\* neither told to stop nor killed is the one in the handle, unless the exit event
\* of an older process dropped it.  So there are never two of them.
\* (localRunner.ts: startServer, stopServer and the exit listener.)
UntoldIsHeld ==
  ~cleared => (Up \cap mine) \ (told \cup killed) \subseteq {handle}

\* A record that says OFFLINE means that every process the runner has up was told
\* to stop or killed - unless it was set OFFLINE for the agent's process, or with the
\* deletion of the server, while the runner's own was up.  (provider.ts: the
\* fallback; the routes, the exit listener and the broadcaster write one status.)
OfflineIsStopped ==
  record = "OFFLINE" /\ ~cleared /\ ~bypassed => Up \cap mine \subseteq told \cup killed

\* The timer of a stop kills only a process spawned while it was pending, never the
\* one that was told to stop.  (localRunner.ts: the timer reads the handle again.)
KillHasCause == killed \subseteq exposed /\ killed \cap told = {}

\* A process that was told to stop and is still up when its timer has fired was
\* killed.  (PROJECT.md: "process runner with automatic taskkill/cleanup".)
StoppedIsCleanedUp == \A p \in (told \cap mine) \ timers : proc[p] = "up" => p \in killed

=============================================================================
