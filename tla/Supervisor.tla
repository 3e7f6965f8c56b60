----------------------------- MODULE Supervisor -----------------------------
(***************************************************************************)
(* What the agent's process manager promises, with no generations, no      *)
(* pointers and no map of intentional stops: a server's status, the one    *)
(* child that is wanted for it, the children still alive, and those an     *)
(* operator dismissed.  AgentLifecycle implements this specification.      *)
(***************************************************************************)
CONSTANTS Servers, Children, Nobody

VARIABLES
  status,    \* what GetState answers
  wanted,    \* the child that backs an ONLINE server, or Nobody
  alive,     \* per server, the children that have not exited
  dismissed  \* per server, the children an operator asked to end

svars == <<status, wanted, alive, dismissed>>

SInit ==
  /\ status = [s \in Servers |-> "OFFLINE"]
  /\ wanted = [s \in Servers |-> Nobody]
  /\ alive = [s \in Servers |-> {}]
  /\ dismissed = [s \in Servers |-> {}]

\* A server that is not ONLINE gets a child of its own.
Launch(s, p) ==
  /\ wanted[s] = Nobody
  /\ p \notin alive[s] \cup dismissed[s]
  /\ status' = [status EXCEPT ![s] = "ONLINE"]
  /\ wanted' = [wanted EXCEPT ![s] = p]
  /\ alive' = [alive EXCEPT ![s] = @ \cup {p}]
  /\ UNCHANGED dismissed

\* The wanted child is dismissed; it may live on for a while or be gone.
Dismiss(s) ==
  /\ wanted[s] # Nobody
  /\ \E v \in {"OFFLINE", "ERROR"} : status' = [status EXCEPT ![s] = v]
  /\ wanted' = [wanted EXCEPT ![s] = Nobody]
  /\ dismissed' = [dismissed EXCEPT ![s] = @ \cup {wanted[s]}]
  /\ \E gone \in {{}, {wanted[s]}} : alive' = [alive EXCEPT ![s] = @ \ gone]

Exit(s, p) ==
  /\ p \in alive[s]
  /\ alive' = [alive EXCEPT ![s] = @ \ {p}]
  /\ UNCHANGED <<status, wanted, dismissed>>

\* The wanted child was found dead.
Lose(s) ==
  /\ wanted[s] # Nobody
  /\ wanted[s] \notin alive[s]
  /\ status' = [status EXCEPT ![s] = "ERROR"]
  /\ wanted' = [wanted EXCEPT ![s] = Nobody]
  /\ UNCHANGED <<alive, dismissed>>

\* With nothing wanted the status is OFFLINE or ERROR: a failed Start, a Stop
\* of a failed server, the end of a dismissed child.
Rest(s) ==
  /\ wanted[s] = Nobody
  /\ \E v \in {"OFFLINE", "ERROR"} : status' = [status EXCEPT ![s] = v]
  /\ UNCHANGED <<wanted, alive, dismissed>>

SNext ==
  \E s \in Servers :
    \/ \E p \in Children : Launch(s, p) \/ Exit(s, p)
    \/ Dismiss(s) \/ Lose(s) \/ Rest(s)

SSpec == SInit /\ [][SNext]_svars

=============================================================================
