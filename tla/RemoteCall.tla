----------------------------- MODULE RemoteCall -----------------------------
(***************************************************************************)
(* What a caller of AgentTunnelGateway.sendCommand may rely on, with no    *)
(* sockets, frames or sessions: a call is carried out at most once, it is  *)
(* answered at most once, an answer is the outcome of that very call, and  *)
(* a call that is given up may still be carried out later.  AgentTunnel    *)
(* implements this specification.                                          *)
(***************************************************************************)
CONSTANT Calls

VARIABLES
  call,   \* what the caller has seen
  effect  \* what the agent has done

rvars == <<call, effect>>

Answers == {"ok", "failed"}

RInit ==
  /\ call = [c \in Calls |-> "none"]
  /\ effect = [c \in Calls |-> "none"]

Issue(c) ==
  /\ call[c] = "none"
  /\ call' = [call EXCEPT ![c] = "waiting"]
  /\ UNCHANGED effect

\* No agent is connected: the call never leaves the control plane.
Divert(c) ==
  /\ call[c] = "none"
  /\ call' = [call EXCEPT ![c] = "local"]
  /\ UNCHANGED effect

CarryOut(c) ==
  /\ call[c] \in Answers \cup {"waiting", "rejected"}
  /\ effect[c] = "none"
  /\ \E v \in Answers : effect' = [effect EXCEPT ![c] = v]
  /\ UNCHANGED call

Answer(c) ==
  /\ call[c] = "waiting"
  /\ effect[c] # "none"
  /\ call' = [call EXCEPT ![c] = effect[c]]
  /\ UNCHANGED effect

GiveUp(c) ==
  /\ call[c] = "waiting"
  /\ call' = [call EXCEPT ![c] = "rejected"]
  /\ UNCHANGED effect

RNext == \E c \in Calls : Issue(c) \/ Divert(c) \/ CarryOut(c)
                            \/ Answer(c) \/ GiveUp(c)

RSpec == RInit /\ [][RNext]_rvars

=============================================================================
