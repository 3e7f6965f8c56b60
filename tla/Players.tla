------------------------------ MODULE Players -------------------------------
(***************************************************************************)
(* Who plays, and who may: the player tracker the agents' logs feed        *)
(* (packages/moderation/src/players.ts), with the join-flood monitor and   *)
(* the rate limiter of module Windows, and the way an allowlist takes from *)
(* the API's route (apps/api/src/routes/moderation.routes.ts) over the     *)
(* tunnel to the agent's file writer (apps/agent/internal/allowlist) and   *)
(* to the game server that is told to reload it.                           *)
(*                                                                         *)
(* One server has an agent, the others have players only.  The tunnel      *)
(* delivers commands in order and the agent executes them one after the    *)
(* other (AgentTunnel); a call ends with the answer or after 15 s.  A      *)
(* sync's contents are the set of players it allows.                       *)
(***************************************************************************)
EXTENDS Windows, Sequences

CONSTANTS
  Servers,    \* the servers players join
  Managed,    \* the server of Servers the syncs are for
  Nowhere,    \* no server: of a player not tracked yet, of a join without one
  Syncs,      \* the allowlist requests
  MaxFaults   \* bound: lost tunnels, timeouts, silent game servers

ASSUME PlayersAssumption ==
  /\ Managed \in Servers /\ Nowhere \notin Servers
  /\ MaxFaults \in Nat

VARIABLES
  tracked,   \* playerTracker: the server each player joined last
  request,   \* each sync: where its route is
  contents,  \* each sync: the contents of its plan
  wire,      \* the commands on their way to the agent
  agent,     \* the file writer: idle, or a temporary file and for whom
  answers,   \* the commands the agent answered, on their way back
  target,    \* allowlist.json on the host
  loaded,    \* the allowlist the game server runs with
  agentUp,   \* the agent is connected
  faults     \* the number of faults so far

route == <<request, contents>>
host == <<agent, target, loaded>>
tunnel == <<wire, answers, agentUp, faults>>
playersVars == <<wvars, tracked, route, host, tunnel>>

Entries == SUBSET Players
Command == {"write", "reload"} \X Syncs
AtRest == <<"idle">>

\* Where a sync's route is: before it, waiting for the write, waiting for the
\* reload, answered 200, 202 (nobody to write it) or 503.
Stages == {"none", "writing", "reloading", "synced", "planned", "failed"}
Pending(q) == request[q] \in {"writing", "reloading"}

PlayersTypeOK ==
  /\ WTypeOK
  /\ tracked \in [Players -> Servers \cup {Nowhere}]
  /\ request \in [Syncs -> Stages] /\ contents \in [Syncs -> Entries]
  /\ wire \in Seq(Command) /\ answers \subseteq Command \X BOOLEAN
  /\ agent \in {AtRest} \cup ({"torn", "whole"} \X Syncs)
  /\ target \in Entries /\ loaded \in Entries
  /\ agentUp \in BOOLEAN /\ faults \in 0..MaxFaults

PlayersInit ==
  /\ WInit
  /\ tracked = [p \in Players |-> Nowhere]
  /\ request = [q \in Syncs |-> "none"] /\ contents = [q \in Syncs |-> {}]
  /\ wire = <<>> /\ answers = {} /\ agent = AtRest
  /\ target = {} /\ loaded = {}
  /\ agentUp = TRUE /\ faults = 0

-----------------------------------------------------------------------------
(* Joins.                                                                   *)

\* A player has one record, which moves to the server of the last join that
\* names one.
RecordJoin(p, s) ==
  tracked' = IF s = Nowhere THEN tracked ELSE [tracked EXCEPT ![p] = s]

\* A "Player connected" line of an agent's log.
LogLineJoins(p, s) ==
  /\ s # Nowhere /\ agentUp
  /\ RecordJoin(p, s) /\ notePlayerJoin(p)
  /\ UNCHANGED <<route, host, tunnel>>

\* POST /players/join, for which the server is optional.
JoinPosted(p, s) ==
  /\ RecordJoin(p, s) /\ notePlayerJoin(p)
  /\ UNCHANGED <<route, host, tunnel>>

\* PlayerTracker.list: the players whose record names the server.
PlayersOf(s) == {p \in Players : tracked[p] = s}

fromPlayerTracker == PlayersOf(Managed)

WindowStep == (Tick \/ Check) /\ UNCHANGED <<tracked, route, host, tunnel>>

-----------------------------------------------------------------------------
(* The route.                                                               *)

Sent(q, s) == request' = [request EXCEPT ![q] = s]

\* POST /allowlist/sync: the plan is made from the tracker or from the entries
\* of the request; with a connected agent it is sent.  Syncs are interchangeable.
SyncBegins(q) ==
  /\ request[q] = "none"
  /\ \E es \in {fromPlayerTracker, {}, Players} : contents' = [contents EXCEPT ![q] = es]
  /\ IF agentUp
       THEN Sent(q, "writing") /\ wire' = Append(wire, <<"write", q>>)
       ELSE Sent(q, "planned") /\ UNCHANGED wire
  /\ UNCHANGED <<wvars, tracked, host, answers, agentUp, faults>>

\* Mutant of Reloads: a sync leaves the reload to another one under way.
Coalesced(q) == \A r \in Syncs \ {q} : request[r] # "writing"

\* A written file is always followed by a reload.
Reloads(q) == TRUE

\* The agent wrote the file: the route asks the provider for the reload, which
\* goes to the agent while it is connected and otherwise to the API's own
\* runner, whose answer it takes for the server's.
Written(q) ==
  /\ request[q] = "writing" /\ <<<<"write", q>>, TRUE>> \in answers
  /\ answers' = answers \ {<<<<"write", q>>, TRUE>>}
  /\ IF agentUp /\ Reloads(q)
       THEN Sent(q, "reloading") /\ wire' = Append(wire, <<"reload", q>>)
       ELSE Sent(q, "synced") /\ UNCHANGED wire
  /\ UNCHANGED <<wvars, tracked, contents, host, agentUp, faults>>

\* The agent refused, which the route passes on; nothing is reloaded.
Refused(q) ==
  /\ request[q] = "writing" /\ <<<<"write", q>>, FALSE>> \in answers
  /\ answers' = answers \ {<<<<"write", q>>, FALSE>>}
  /\ Sent(q, "failed")
  /\ UNCHANGED <<wvars, tracked, contents, host, wire, agentUp, faults>>

\* The reload was answered, whatever the answer: success.
Reloaded(q) ==
  /\ request[q] = "reloading"
  /\ \E ok \in BOOLEAN :
       /\ <<<<"reload", q>>, ok>> \in answers
       /\ answers' = answers \ {<<<<"reload", q>>, ok>>}
  /\ Sent(q, "synced")
  /\ UNCHANGED <<wvars, tracked, contents, host, wire, agentUp, faults>>

\* No answer for 15 s: 503.  The command may still be executed, its answer
\* finds nobody.  Once something has failed, it is a consequence and no new fault.
TimesOut(q) ==
  /\ Pending(q) /\ MaxFaults > 0
  /\ Sent(q, "failed") /\ faults' = IF faults = 0 THEN 1 ELSE faults
  /\ answers' = {a \in answers : a[1][2] # q}
  /\ UNCHANGED <<wvars, tracked, contents, host, wire, agentUp>>

-----------------------------------------------------------------------------
(* The agent and its game server.                                           *)

Answer(c, ok) ==
  answers' = IF Pending(c[2]) THEN answers \cup {<<c, ok>>} ELSE answers

\* A write command begins: the temporary file is written.
BeginWrite ==
  /\ agentUp /\ agent = AtRest /\ wire # <<>> /\ Head(wire)[1] = "write"
  /\ wire' = Tail(wire)
  /\ agent' = <<"torn", Head(wire)[2]>>
  /\ UNCHANGED <<wvars, tracked, route, target, loaded, answers, agentUp, faults>>

\* The temporary file is complete.
Fill ==
  /\ agent[1] = "torn"
  /\ agent' = <<"whole", agent[2]>>
  /\ UNCHANGED <<wvars, tracked, route, target, loaded, tunnel>>

\* It is renamed onto the target, and the answer is sent.
Rename ==
  /\ agent[1] = "whole"
  /\ target' = contents[agent[2]]
  /\ Answer(<<"write", agent[2]>>, TRUE)
  /\ agent' = AtRest
  /\ UNCHANGED <<wvars, tracked, route, loaded, wire, agentUp, faults>>

\* The directory, the temporary file or the rename fails.
WriteFails ==
  /\ agent # AtRest
  /\ Answer(<<"write", agent[2]>>, FALSE)
  /\ agent' = AtRest
  /\ UNCHANGED <<wvars, tracked, route, target, loaded, wire, agentUp, faults>>

\* The reload by RCON: the game server reads the file.
Reload ==
  /\ agentUp /\ agent = AtRest /\ wire # <<>> /\ Head(wire)[1] = "reload"
  /\ wire' = Tail(wire)
  /\ loaded' = target
  /\ Answer(Head(wire), TRUE)
  /\ UNCHANGED <<wvars, tracked, route, agent, target, agentUp, faults>>

\* RCON does not answer.
ReloadFails ==
  /\ agentUp /\ agent = AtRest /\ wire # <<>> /\ Head(wire)[1] = "reload"
  /\ faults < MaxFaults /\ faults' = faults + 1
  /\ wire' = Tail(wire)
  /\ Answer(Head(wire), FALSE)
  /\ UNCHANGED <<wvars, tracked, route, host, agentUp>>

\* The agent ends or loses the tunnel: commands and answers under way are
\* lost, and if it ended the temporary file is left as it is.
AgentLost ==
  /\ agentUp /\ faults < MaxFaults
  /\ agentUp' = FALSE /\ faults' = faults + 1
  /\ wire' = <<>> /\ answers' = {}
  /\ \E a \in {agent, AtRest} : agent' = a
  /\ UNCHANGED <<wvars, tracked, route, target, loaded>>
AgentBack ==
  /\ ~agentUp /\ agentUp' = TRUE
  /\ UNCHANGED <<wvars, tracked, route, host, wire, answers, faults>>

PlayersNext ==
  \/ \E p \in Players, s \in Servers \cup {Nowhere} : LogLineJoins(p, s) \/ JoinPosted(p, s)
  \/ WindowStep
  \/ \E q \in Syncs : \/ SyncBegins(q) \/ Written(q) \/ Refused(q)
                      \/ Reloaded(q) \/ TimesOut(q)
  \/ BeginWrite \/ Fill \/ Rename \/ WriteFails \/ Reload \/ ReloadFails
  \/ AgentLost \/ AgentBack

PlayersSpec == PlayersInit /\ [][PlayersNext]_playersVars

-----------------------------------------------------------------------------
(* Properties.                                                              *)

\* When no sync is under way and nothing has failed on the way, the game
\* server runs with the list that is on its disk, in whichever order
\* concurrent syncs wrote and reloaded.
QuietIsLoaded ==
  faults = 0 /\ (\A q \in Syncs : ~Pending(q)) => loaded = target

=============================================================================
