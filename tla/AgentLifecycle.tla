--------------------------- MODULE AgentLifecycle ---------------------------
(***************************************************************************)
(* The process manager of the Go agent                                     *)
(* (apps/agent/internal/lifecycle/manager.go).                             *)
(*                                                                         *)
(* One Manager owns every Bedrock Dedicated Server (BDS) process of a      *)
(* node.  Start, Stop and Restart are called by the goroutine that reads   *)
(* the tunnel; each process that is spawned gets a goroutine that waits    *)
(* for its exit.  Every critical section of the manager's mutex is one     *)
(* action, so STARTING and STOPPING, which are assigned and overwritten    *)
(* inside one section, are never visible and the tests for them            *)
(* (manager.go:142, :256) never succeed.                                   *)
(*                                                                         *)
(* A process is named by its server and by the generation of the Start     *)
(* that spawned it: Start increments the generation exactly once, so       *)
(* comparing two *exec.Cmd pointers is comparing generations.  Why a Start *)
(* fails (no path, no directory, no pipe, no fork) is not told apart.  A   *)
(* server the manager has never heard of is OFFLINE with generation 0.     *)
(***************************************************************************)
EXTENDS Naturals, FiniteSets

CONSTANTS Servers,          \* server ids the control plane may name
          Callers,          \* goroutines that call the manager (one: readLoop)
          MaxGen,           \* bound: Starts per server
          InterruptCanFail, \* os.Interrupt may be refused (it is on Windows)
          StartCanFail,     \* Start may meet a failing mkdir, pipe or exec
          None              \* no server

ASSUME LifecycleAssumption ==
  /\ MaxGen \in Nat
  /\ InterruptCanFail \in BOOLEAN
  /\ StartCanFail \in BOOLEAN
  /\ None \notin Servers

Gens == 1..MaxGen
NoCmd == 0

VARIABLES
  mode,        \* Manager.mode, chosen once by NewManager
  state,       \* Instance.State
  generation,  \* Instance.generation
  cmd,         \* Instance.cmd: the generation whose process it is, or NoCmd
  timed,       \* Instance.StartedAt is not the zero time
  intentional, \* Manager.intentionalStop; 0 stands for a missing entry
  proc,        \* the life of each process and of the goroutine waiting for it
  signal,      \* the strongest signal the process was sent
  report,      \* what onExit was told of the process
  resume,      \* per caller: the server whose Restart has done only its Stop
  asked        \* history: what an operator asked of the process

managerVars == <<state, generation, cmd, timed, intentional>>
vars == <<mode, managerVars, proc, signal, report, resume, asked>>

(***************************************************************************)
(* "running": the child runs.  "dead": it has exited, cmd.Wait has not     *)
(* returned.  "reaped": cmd.Wait has returned, the goroutine has not yet   *)
(* locked the mutex.  "settled": the critical section is over, onExit has  *)
(* not been called.  "reported": onExit has been called.                   *)
(***************************************************************************)
Phases == {"none", "running", "dead", "reaped", "settled", "reported"}

TypeOK ==
  /\ mode \in {"simulated", "live"}
  /\ state \in [Servers -> {"OFFLINE", "ONLINE", "ERROR"}]
  /\ generation \in [Servers -> 0..MaxGen]
  /\ cmd \in [Servers -> 0..MaxGen]
  /\ timed \in [Servers -> BOOLEAN]
  /\ intentional \in [Servers -> 0..MaxGen]
  /\ proc \in [Servers -> [Gens -> Phases]]
  /\ signal \in [Servers -> [Gens -> {"none", "interrupt", "kill"}]]
  /\ report \in [Servers -> [Gens -> {"none", "intentional", "unexpected"}]]
  /\ resume \in [Callers -> Servers \cup {None}]
  /\ asked \in [Servers -> [Gens -> {"none", "stop", "kill"}]]

Init ==
  /\ mode \in {"simulated", "live"}
  /\ state = [s \in Servers |-> "OFFLINE"]
  /\ generation = [s \in Servers |-> 0]
  /\ cmd = [s \in Servers |-> NoCmd]
  /\ timed = [s \in Servers |-> FALSE]
  /\ intentional = [s \in Servers |-> 0]
  /\ proc = [s \in Servers |-> [g \in Gens |-> "none"]]
  /\ signal = [s \in Servers |-> [g \in Gens |-> "none"]]
  /\ report = [s \in Servers |-> [g \in Gens |-> "none"]]
  /\ resume = [c \in Callers |-> None]
  /\ asked = [s \in Servers |-> [g \in Gens |-> "none"]]

-----------------------------------------------------------------------------
(* Start (manager.go:132-229), one critical section *)

\* A server that is ONLINE already is left as it is.
AlreadyUp(s) ==
  /\ state[s] = "ONLINE"
  /\ UNCHANGED <<managerVars, proc>>

\* inst.generation++ happens before anything can fail.
BumpGeneration(s) ==
  /\ state[s] # "ONLINE"
  /\ generation[s] < MaxGen
  /\ generation' = [generation EXCEPT ![s] = @ + 1]

\* An early error return: the new generation has no process, and cmd still
\* names whatever process it named before.
FailToStart(s) ==
  /\ mode = "live"
  /\ StartCanFail
  /\ BumpGeneration(s)
  /\ state' = [state EXCEPT ![s] = "ERROR"]
  /\ UNCHANGED <<cmd, timed, intentional, proc>>

Spawn(s) ==
  /\ cmd' = [cmd EXCEPT ![s] = generation'[s]]
  /\ proc' = [proc EXCEPT ![s][generation'[s]] = "running"]

BringUp(s) ==
  /\ BumpGeneration(s)
  /\ state' = [state EXCEPT ![s] = "ONLINE"]
  /\ timed' = [timed EXCEPT ![s] = TRUE]
  /\ IF mode = "live" THEN Spawn(s) ELSE UNCHANGED <<cmd, proc>>
  /\ UNCHANGED intentional

StartSection(s) ==
  /\ AlreadyUp(s) \/ FailToStart(s) \/ BringUp(s)
  /\ UNCHANGED <<mode, signal, report, asked>>

Start(c, s) ==
  /\ resume[c] = None
  /\ StartSection(s)
  /\ UNCHANGED resume

-----------------------------------------------------------------------------
(* Stop (manager.go:248-285), one critical section *)

HasProcess(s) == mode = "live" /\ cmd[s] # NoCmd

\* Process.Kill and Process.Signal reach a child until Wait has reaped it;
\* afterwards they return os.ErrProcessDone.
Reachable(s) == proc[s][cmd[s]] \in {"running", "dead"}

Stronger(old, force) == IF force \/ old = "kill" THEN "kill" ELSE "interrupt"

MarkIntentional(s) ==
  intentional' = [intentional EXCEPT ![s] = generation[s]]

AlreadyDown(s) ==
  /\ state[s] = "OFFLINE"
  /\ UNCHANGED <<state, timed, intentional, signal>>

\* For the API's sake the state is OFFLINE before the process has ended.
SignalDelivered(s, force) ==
  /\ Reachable(s)
  /\ signal' = [signal EXCEPT ![s][cmd[s]] = Stronger(@, force)]
  /\ state' = [state EXCEPT ![s] = "OFFLINE"]
  /\ timed' = [timed EXCEPT ![s] = FALSE]

SignalRefused(s, force) ==
  /\ ~Reachable(s) \/ (InterruptCanFail /\ ~force)
  /\ state' = [state EXCEPT ![s] = "ERROR"]
  /\ UNCHANGED <<signal, timed>>

SignalProcess(s, force) ==
  /\ state[s] # "OFFLINE"
  /\ HasProcess(s)
  /\ MarkIntentional(s)
  /\ SignalDelivered(s, force) \/ SignalRefused(s, force)

MarkOffline(s) ==
  /\ state[s] # "OFFLINE"
  /\ ~HasProcess(s)
  /\ MarkIntentional(s)
  /\ state' = [state EXCEPT ![s] = "OFFLINE"]
  /\ timed' = [timed EXCEPT ![s] = FALSE]
  /\ UNCHANGED signal

\* History: the operator's wish concerns the process cmd names, if any.
RecordRequest(s, force) ==
  IF HasProcess(s)
  THEN asked' = [asked EXCEPT ![s][cmd[s]] =
                    IF force \/ @ = "kill" THEN "kill" ELSE "stop"]
  ELSE UNCHANGED asked

StopSection(s, force) ==
  /\ AlreadyDown(s) \/ SignalProcess(s, force) \/ MarkOffline(s)
  /\ RecordRequest(s, force)
  /\ UNCHANGED <<mode, generation, cmd, proc, report>>

Stop(c, s, force) ==
  /\ resume[c] = None
  /\ StopSection(s, force)
  /\ UNCHANGED resume

-----------------------------------------------------------------------------
(* Restart (manager.go:288-293): Stop, the mutex released, then Start.  A   *)
(* Stop that returns an error ends the Restart.                             *)

RestartStop(c, s) ==
  /\ resume[c] = None
  /\ StopSection(s, FALSE)
  /\ resume' = IF state'[s] = "ERROR" THEN resume
                                      ELSE [resume EXCEPT ![c] = s]

\* At the bound the caller gives up, so that a run can end.
RestartStart(c) ==
  /\ resume[c] # None
  /\ \/ StartSection(resume[c])
     \/ /\ generation[resume[c]] = MaxGen
        /\ UNCHANGED <<mode, managerVars, proc, signal, report, asked>>
  /\ resume' = [resume EXCEPT ![c] = None]

-----------------------------------------------------------------------------
(* The child process and the goroutine waiting for it (manager.go:199-223)  *)

\* A child may exit at any time: it crashed, or it obeyed a signal.
Die(s, g) ==
  /\ proc[s][g] = "running"
  /\ proc' = [proc EXCEPT ![s][g] = "dead"]
  /\ UNCHANGED <<mode, managerVars, signal, report, resume, asked>>

WaitReturns(s, g) ==
  /\ proc[s][g] = "dead"
  /\ proc' = [proc EXCEPT ![s][g] = "reaped"]
  /\ UNCHANGED <<mode, managerVars, signal, report, resume, asked>>

WasIntentional(s, g) == intentional[s] = g

\* Mutations: the *exec.Cmd comparison is dropped; it is negated.
EveryExit(s, g) == TRUE
SupersededExit(s, g) == cmd[s] # g

IsCurrent(s, g) == cmd[s] = g

\* The critical section after Wait.  Only the exit of the process cmd still
\* names changes the server's state.
Settle(s, g) ==
  /\ proc[s][g] = "reaped"
  /\ proc' = [proc EXCEPT ![s][g] = "settled"]
  /\ report' = [report EXCEPT ![s][g] =
                  IF WasIntentional(s, g) THEN "intentional" ELSE "unexpected"]
  /\ intentional' = [intentional EXCEPT ![s] =
                       IF WasIntentional(s, g) THEN 0 ELSE @]
  /\ IF IsCurrent(s, g)
     THEN /\ state' = [state EXCEPT ![s] =
                         IF WasIntentional(s, g) THEN "OFFLINE" ELSE "ERROR"]
          /\ cmd' = [cmd EXCEPT ![s] = NoCmd]
          /\ timed' = [timed EXCEPT ![s] = FALSE]
     ELSE UNCHANGED <<state, cmd, timed>>
  /\ UNCHANGED <<mode, generation, signal, resume, asked>>

CallOnExit(s, g) ==
  /\ proc[s][g] = "settled"
  /\ proc' = [proc EXCEPT ![s][g] = "reported"]
  /\ UNCHANGED <<mode, managerVars, signal, report, resume, asked>>

-----------------------------------------------------------------------------
Call(c) ==
  \/ \E s \in Servers : \/ Start(c, s)
                        \/ \E force \in BOOLEAN : Stop(c, s, force)
                        \/ RestartStop(c, s)
  \/ RestartStart(c)

Waiter(s, g) == WaitReturns(s, g) \/ Settle(s, g) \/ CallOnExit(s, g)

Next ==
  \/ \E c \in Callers : Call(c)
  \/ \E s \in Servers, g \in Gens : Die(s, g) \/ Waiter(s, g)

(***************************************************************************)
(* Goroutines are scheduled fairly, a Restart that has begun goes on, and  *)
(* the kernel ends a killed process.  Nothing makes a process obey an      *)
(* interrupt, crash, or an operator act.                                   *)
(***************************************************************************)
Fairness ==
  /\ \A c \in Callers : WF_vars(RestartStart(c))
  /\ \A s \in Servers, g \in Gens :
       /\ WF_vars(Waiter(s, g))
       /\ WF_vars(signal[s][g] = "kill" /\ Die(s, g))

Spec == Init /\ [][Next]_vars
FairSpec == Spec /\ Fairness

-----------------------------------------------------------------------------
(* Properties *)

\* Whatever the interleaving of Starts, Stops and exits, a live server shown
\* ONLINE is backed by the process of its latest Start, which nobody has been
\* told to end, whose exit has not been processed, and whose exit would be
\* reported as a crash.
OnlineIsBacked ==
  \A s \in Servers : mode = "live" /\ state[s] = "ONLINE" =>
    /\ cmd[s] = generation[s]
    /\ cmd[s] # NoCmd
    /\ proc[s][cmd[s]] \in {"running", "dead", "reaped"}
    /\ signal[s][cmd[s]] = "none" /\ asked[s][cmd[s]] = "none"
    /\ intentional[s] # cmd[s]
    /\ timed[s]

\* No process is forgotten: a child still running either backs its ONLINE
\* server or has been sent a signal.  Since ONLINE names one cmd, a server has
\* at most one process nobody asked to end.  It needs interrupts that arrive.
NoOrphan ==
  \A s \in Servers, g \in Gens :
    proc[s][g] = "running" /\ signal[s][g] = "none" =>
      state[s] = "ONLINE" /\ cmd[s] = g

\* An exit is hushed up (no CRASH frame) only if an operator had asked for
\* the end of that very process: a Stop meant for an earlier or a later
\* generation never hides a crash.
HushedOnlyIfAsked ==
  \A s \in Servers, g \in Gens :
    report[s][g] = "intentional" => asked[s][g] # "none"

\* The exit of a superseded process never takes down its successor: an ONLINE
\* server turns to ERROR by itself only when its own process was reaped, and
\* the mutex section that does so is the one that reports that process.
OnlyOwnExitEndsOnline ==
  [][\A s \in Servers :
       state[s] = "ONLINE" /\ state'[s] = "ERROR" /\ asked' = asked =>
         /\ proc[s][generation[s]] = "reaped"
         /\ report'[s][generation[s]] = "unexpected"]_vars

\* A stopped server stays OFFLINE until someone starts it: no late exit of a
\* process flips it to ERROR, unless a Start has failed since that process was
\* spawned.  Then the mark a Stop leaves is of a generation that has no process.
OfflineIsFinal ==
  [][\A s \in Servers :
       /\ state[s] = "OFFLINE" /\ generation'[s] = generation[s]
       /\ cmd[s] \in {NoCmd, generation[s]}
       => state'[s] = "OFFLINE"]_vars

\* A server is not shown ONLINE for ever over a process that has exited.
DeadIsNoticed ==
  \A s \in Servers, g \in Gens :
    (proc[s][g] = "dead" /\ state[s] = "ONLINE" /\ cmd[s] = g)
      ~> ~(state[s] = "ONLINE" /\ cmd[s] = g)

\* Every process that exits is reported to onExit in the end.
ExitIsReported ==
  \A s \in Servers, g \in Gens :
    proc[s][g] = "dead" ~> proc[s][g] = "reported" /\ report[s][g] # "none"

\* manager.go:37: "unexpected is true when the process died without an
\* intentional Stop/Kill".  So a process that was told to stop while it ran,
\* and died afterwards, is not reported as unexpected.
UnexpectedOnlyIfUnasked ==
  \A s \in Servers, g \in Gens :
    report[s][g] = "unexpected" => signal[s][g] = "none"

\* manager.go:247: "force=true sends Kill".  So a running process an operator
\* asked to kill has been sent Kill.
ForceSendsKill ==
  \A s \in Servers, g \in Gens :
    proc[s][g] = "running" /\ asked[s][g] = "kill" => signal[s][g] = "kill"

-----------------------------------------------------------------------------
(* The abstract supervisor this manager implements.  A simulated server     *)
(* counts as a child that is alive exactly while it is ONLINE.              *)

wantedChild ==
  [s \in Servers |-> IF state[s] # "ONLINE" THEN NoCmd
                     ELSE IF mode = "live" THEN cmd[s] ELSE generation[s]]
aliveChildren ==
  [s \in Servers |-> {g \in Gens :
     IF mode = "live" THEN proc[s][g] = "running"
                      ELSE g = generation[s] /\ state[s] = "ONLINE"}]
dismissedChildren ==
  [s \in Servers |-> {g \in Gens :
     IF mode = "live" THEN asked[s][g] # "none"
                      ELSE g < generation[s] \/
                           (g = generation[s] /\ state[s] # "ONLINE")}]

Promise == INSTANCE Supervisor WITH
  Children <- Gens, Nobody <- NoCmd, status <- state,
  wanted <- wantedChild, alive <- aliveChildren,
  dismissed <- dismissedChildren

\* Every behaviour of the manager is a behaviour of the supervisor: an ONLINE
\* server always has its own child, which it gives up only when an operator
\* dismisses it or when that very child is found dead.
Supervises == Promise!SSpec

=============================================================================
