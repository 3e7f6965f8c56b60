---------------------------- MODULE MCGameServer ----------------------------
(***************************************************************************)
(* A small instance of ProcessPump and of Rcon: the output of a game       *)
(* server and its remote console.                                          *)
(*                                                                         *)
(* The pumps and the remote console share nothing, nor do the clients of   *)
(* the API and of the agent, which are two processes, so that a product of *)
(* them shows nothing that they do not show one by one: only one of the    *)
(* three does anything at all.                                             *)
(***************************************************************************)
EXTENDS ProcessPump, Rcon

gameServerVars == <<pumpVars, vars>>

GameServerInit == PumpInit /\ Init

\* One of the two has done nothing yet, and is left alone.
ConsoleAlone == (\A c \in Calls : at[c] = "none") /\ UNCHANGED vars
PumpsAlone ==
  /\ child = "running" /\ open /\ \A st \in Streams : written[st] = 0
  /\ UNCHANGED pumpVars

GameServerNext == (PumpNext /\ ConsoleAlone) \/ (Next /\ PumpsAlone)

\* Goroutines run and timers fire.
GameServerSpec ==
  /\ GameServerInit /\ [][GameServerNext]_gameServerVars
  /\ WF_gameServerVars(Waiter /\ ConsoleAlone)
  /\ \A st \in Streams : WF_gameServerVars(Pump(st) /\ ConsoleAlone)
  /\ \A c \in Calls : WF_gameServerVars(Fails(c) /\ PumpsAlone)

Separate ==
  /\ (\A c \in ApiCalls : at[c] = "none") \/ (\A c \in AgentCalls : at[c] = "none")
  /\ (\A c \in Calls : at[c] = "none") => nextApi = nextAgent

=============================================================================
