------------------------ MODULE AgentLifecycleProofs ------------------------
(***************************************************************************)
(* The manager's safety properties for every set of servers and callers    *)
(* and every number of Starts.  OnlineIsBacked and HushedOnlyIfAsked are   *)
(* not inductive by themselves: whether an exit is hushed up depends on a  *)
(* mark left by an earlier Stop, so the invariant says where such a mark   *)
(* can stand and that cmd always names an unprocessed child of a           *)
(* generation already begun.                                               *)
(***************************************************************************)
EXTENDS AgentLifecycle, TLAPS

Pending == {"running", "dead", "reaped"}

\* A generation not begun has no process and no history.
FutureIsBlank ==
  \A s \in Servers, g \in Gens : g > generation[s] =>
    /\ proc[s][g] = "none"
    /\ signal[s][g] = "none"
    /\ report[s][g] = "none"
    /\ asked[s][g] = "none"

\* A simulated manager never has a process.
SimulatedHasNone ==
  mode = "simulated" =>
    \A s \in Servers : cmd[s] = NoCmd /\ \A g \in Gens : proc[s][g] = "none"

\* cmd names a child whose exit has not been processed.
CmdIsPending ==
  \A s \in Servers : cmd[s] # NoCmd =>
    cmd[s] <= generation[s] /\ proc[s][cmd[s]] \in Pending

\* The child of the latest generation, while unprocessed, is the one cmd names.
LatestIsCmd ==
  \A s \in Servers : generation[s] \in Gens =>
    (proc[s][generation[s]] \in Pending => cmd[s] = generation[s])

\* A mark on an unprocessed child was left by a Stop meant for that child.
MarkIsARequest ==
  \A s \in Servers :
    /\ intentional[s] <= generation[s]
    /\ \A g \in Gens : intentional[s] = g /\ proc[s][g] \in Pending =>
         asked[s][g] # "none"

IInv ==
  /\ TypeOK
  /\ FutureIsBlank
  /\ SimulatedHasNone
  /\ CmdIsPending
  /\ LatestIsCmd
  /\ MarkIsARequest
  /\ OnlineIsBacked
  /\ HushedOnlyIfAsked

-----------------------------------------------------------------------------
(* A table of tables stays one when one of its entries is replaced. *)
LEMMA NestedExcept ==
  ASSUME NEW S, NEW G, NEW V, NEW f \in [S -> [G -> V]],
         NEW s \in S, NEW g \in G, NEW v \in V
  PROVE  [f EXCEPT ![s][g] = v] \in [S -> [G -> V]]
OBVIOUS

-----------------------------------------------------------------------------
(* Initially *)

\* The initial states satisfy the invariant.
LEMMA InitIInv == Init => IInv
<1> SUFFICES ASSUME Init PROVE IInv
  OBVIOUS
<1> USE LifecycleAssumption DEF Init, Gens, NoCmd, Phases, Pending
<1>1. TypeOK
  BY DEF TypeOK
<1>2. FutureIsBlank /\ SimulatedHasNone /\ CmdIsPending /\ LatestIsCmd
  BY DEF FutureIsBlank, SimulatedHasNone, CmdIsPending, LatestIsCmd
<1>3. MarkIsARequest /\ OnlineIsBacked /\ HushedOnlyIfAsked
  BY DEF MarkIsARequest, OnlineIsBacked, HushedOnlyIfAsked
<1> QED
  BY <1>1, <1>2, <1>3 DEF IInv

-----------------------------------------------------------------------------
(* The steps, one lemma per critical section *)

\* A failed or successful Start keeps the invariant.
LEMMA StartKeepsIInv ==
  ASSUME IInv, NEW s \in Servers, StartSection(s),
         resume' \in [Callers -> Servers \cup {None}]
  PROVE  IInv'
<1> USE LifecycleAssumption DEF IInv, TypeOK, StartSection, BumpGeneration,
        Gens, NoCmd, Phases, Pending
<1>1. CASE AlreadyUp(s)
  BY <1>1 DEF AlreadyUp, managerVars, FutureIsBlank, SimulatedHasNone,
     CmdIsPending, LatestIsCmd, MarkIsARequest, OnlineIsBacked,
     HushedOnlyIfAsked
<1>2. CASE FailToStart(s)
  <2> USE <1>2 DEF FailToStart
  <2>1. TypeOK'
    OBVIOUS
  <2>2. FutureIsBlank' /\ SimulatedHasNone' /\ CmdIsPending'
    BY DEF FutureIsBlank, SimulatedHasNone, CmdIsPending
  <2>3. LatestIsCmd'
    <3> SUFFICES ASSUME NEW r \in Servers, generation'[r] \in Gens,
                        proc'[r][generation'[r]] \in Pending
                 PROVE  cmd'[r] = generation'[r]
      BY DEF LatestIsCmd
    <3>1. CASE r = s
      <4>1. generation'[s] > generation[s]
        OBVIOUS
      <4>2. proc[s][generation'[s]] = "none"
        BY <3>1, <4>1 DEF FutureIsBlank
      <4> QED
        BY <3>1, <4>2
    <3>2. CASE r # s
      BY <3>2 DEF LatestIsCmd
    <3> QED
      BY <3>1, <3>2
  <2>4. MarkIsARequest' /\ HushedOnlyIfAsked'
    BY DEF MarkIsARequest, HushedOnlyIfAsked
  <2>5. OnlineIsBacked'
    BY DEF OnlineIsBacked
  <2> QED
    BY <2>1, <2>2, <2>3, <2>4, <2>5
<1>3. CASE BringUp(s)
  <2> USE <1>3 DEF BringUp, Spawn
  <2>0. generation'[s] \in Gens /\ generation'[s] = generation[s] + 1
    OBVIOUS
  <2>1. TypeOK'
    <3>1. proc' \in [Servers -> [Gens -> Phases]]
      <4>1. PICK h \in Gens : h = generation'[s]
        BY <2>0
      <4>2. \/ proc' = [proc EXCEPT ![s][h] = "running"]
            \/ proc' = proc
        BY <4>1
      <4> QED
        <5>1. CASE proc' = proc
          BY <5>1
        <5>2. CASE proc' = [proc EXCEPT ![s][h] = "running"]
          BY ONLY <5>2, IInv, "running" \in Phases, h \in Gens, NestedExcept DEF IInv, TypeOK
        <5> QED
          BY <4>2, <5>1, <5>2
    <3>2. generation' \in [Servers -> 0..MaxGen]
      BY <2>0
    <3>3. cmd' \in [Servers -> 0..MaxGen]
      BY <2>0
    <3> QED
      BY <3>1, <3>2, <3>3
  <2>2. FutureIsBlank' /\ SimulatedHasNone' /\ CmdIsPending'
    BY DEF FutureIsBlank, SimulatedHasNone, CmdIsPending
  <2>3. LatestIsCmd'
    BY DEF LatestIsCmd, SimulatedHasNone
  <2>4. MarkIsARequest' /\ HushedOnlyIfAsked'
    BY DEF MarkIsARequest, HushedOnlyIfAsked
  <2>5. OnlineIsBacked'
    BY DEF OnlineIsBacked, MarkIsARequest, FutureIsBlank
  <2> QED
    BY <2>1, <2>2, <2>3, <2>4, <2>5
<1> QED
  BY <1>1, <1>2, <1>3

\* A Stop keeps it, whether it signals a process, is refused, or finds none.
LEMMA StopKeepsIInv ==
  ASSUME IInv, NEW s \in Servers, NEW force \in BOOLEAN, StopSection(s, force),
         resume' \in [Callers -> Servers \cup {None}]
  PROVE  IInv'
<1> USE LifecycleAssumption DEF IInv, Gens, NoCmd, Pending
<1>1. /\ state' \in [Servers -> {"OFFLINE", "ONLINE", "ERROR"}]
      /\ timed' \in [Servers -> BOOLEAN]
      /\ intentional' \in [Servers -> 0..MaxGen]
  BY DEF TypeOK, StopSection, AlreadyDown, SignalProcess, MarkOffline,
     SignalDelivered, SignalRefused, MarkIntentional
<1>2. \A r \in Servers : r # s =>
        /\ state'[r] = state[r] /\ timed'[r] = timed[r]
        /\ intentional'[r] = intentional[r]
        /\ signal'[r] = signal[r] /\ asked'[r] = asked[r]
  BY DEF TypeOK, StopSection, AlreadyDown, SignalProcess, MarkOffline,
     SignalDelivered, SignalRefused, MarkIntentional, RecordRequest
<1>3. state'[s] # "ONLINE"
  BY DEF TypeOK, StopSection, AlreadyDown, SignalProcess, MarkOffline,
     SignalDelivered, SignalRefused
<1>4. UNCHANGED <<mode, generation, cmd, proc, report>>
  BY DEF StopSection
<1>5. /\ asked' \in [Servers -> [Gens -> {"none", "stop", "kill"}]]
      /\ \A r \in Servers, g \in Gens :
           /\ asked[r][g] # "none" => asked'[r][g] # "none"
           /\ asked'[r][g] # asked[r][g] => r = s /\ g = cmd[s]
      /\ HasProcess(s) => asked'[s][cmd[s]] # "none"
  <2>1. CASE HasProcess(s)
    <3>1. cmd[s] \in Gens
      BY <2>1 DEF TypeOK, HasProcess
    <3>2. PICK v \in {"stop", "kill"} : asked' = [asked EXCEPT ![s][cmd[s]] = v]
      BY <2>1 DEF StopSection, RecordRequest
    <3>3. asked \in [Servers -> [Gens -> {"none", "stop", "kill"}]]
      BY DEF TypeOK
    <3> QED
      BY ONLY <3>1, <3>2, <3>3, s \in Servers
  <2>2. CASE ~HasProcess(s)
    BY <2>2 DEF StopSection, RecordRequest, TypeOK
  <2> QED
    BY <2>1, <2>2
<1>6. /\ signal' \in [Servers -> [Gens -> {"none", "interrupt", "kill"}]]
      /\ \A r \in Servers, g \in Gens :
           signal'[r][g] # signal[r][g] => r = s /\ g = cmd[s]
  <2>1. CASE signal' = signal
    BY <2>1 DEF TypeOK
  <2>2. CASE signal' # signal
    <3>1. cmd[s] \in Gens
      BY <2>2 DEF TypeOK, HasProcess, StopSection, AlreadyDown, SignalProcess,
         MarkOffline
    <3>2. PICK v \in {"interrupt", "kill"} :
            signal' = [signal EXCEPT ![s][cmd[s]] = v]
      BY <2>2 DEF StopSection, AlreadyDown, SignalProcess, MarkOffline,
         SignalDelivered, SignalRefused, Stronger
    <3>3. signal \in [Servers -> [Gens -> {"none", "interrupt", "kill"}]]
      BY DEF TypeOK
    <3> QED
      BY ONLY <3>1, <3>2, <3>3, s \in Servers
  <2> QED
    BY <2>1, <2>2
<1>7. TypeOK'
  BY <1>1, <1>4, <1>5, <1>6 DEF TypeOK
<1>8. FutureIsBlank'
  <2>1. SUFFICES ASSUME NEW r \in Servers, NEW g \in Gens, g > generation[r]
                 PROVE  /\ proc[r][g] = "none" /\ signal'[r][g] = "none"
                        /\ report[r][g] = "none" /\ asked'[r][g] = "none"
    BY <1>4 DEF FutureIsBlank
  <2>2. ~(r = s /\ g = cmd[s])
    <3>1. cmd[s] # 0 => cmd[s] <= generation[s]
      BY DEF CmdIsPending
    <3>2. cmd[s] \in 0..MaxGen /\ generation[s] \in 0..MaxGen
      BY DEF TypeOK
    <3> QED
      BY ONLY <2>1, <3>1, <3>2, MaxGen \in Nat, g \in 1..MaxGen
  <2>3. /\ proc[r][g] = "none" /\ signal[r][g] = "none"
        /\ report[r][g] = "none" /\ asked[r][g] = "none"
    BY <2>1 DEF FutureIsBlank
  <2> QED
    BY <1>5, <1>6, <2>2, <2>3
<1>9. SimulatedHasNone' /\ CmdIsPending' /\ LatestIsCmd'
  <2>1. SimulatedHasNone'
    BY <1>4 DEF SimulatedHasNone
  <2>2. CmdIsPending'
    BY <1>4 DEF CmdIsPending
  <2>3. LatestIsCmd'
    BY <1>4 DEF LatestIsCmd
  <2> QED
    BY <2>1, <2>2, <2>3
<1>12. HushedOnlyIfAsked'
  BY <1>4, <1>5 DEF HushedOnlyIfAsked
<1>10. MarkIsARequest'
  <2>1. intentional'[s] \in {intentional[s], generation[s]}
    BY DEF TypeOK, StopSection, AlreadyDown, SignalProcess, MarkOffline,
       MarkIntentional
  <2>2. generation[s] \in Gens /\ proc[s][generation[s]] \in Pending =>
          HasProcess(s)
    BY DEF LatestIsCmd, HasProcess, SimulatedHasNone, TypeOK
  <2>3. SUFFICES ASSUME NEW r \in Servers
                 PROVE  /\ intentional'[r] <= generation[r]
                        /\ \A g \in Gens :
                             intentional'[r] = g /\ proc[r][g] \in Pending =>
                               asked'[r][g] # "none"
    BY <1>4 DEF MarkIsARequest
  <2>4. CASE r # s \/ intentional'[s] = intentional[s]
    BY <1>2, <1>5, <2>4 DEF MarkIsARequest
  <2>5. CASE r = s /\ intentional'[s] = generation[s]
    BY <1>5, <2>2, <2>5 DEF LatestIsCmd, TypeOK
  <2> QED
    BY <2>1, <2>4, <2>5
<1>11. OnlineIsBacked'
  BY <1>2, <1>3, <1>4 DEF OnlineIsBacked
<1> QED
  BY <1>7, <1>8, <1>9, <1>10, <1>11, <1>12

\* So does the critical section that processes an exit.
LEMMA SettleKeepsIInv ==
  ASSUME IInv, NEW s \in Servers, NEW g \in Gens, Settle(s, g)
  PROVE  IInv'
<1> USE LifecycleAssumption DEF IInv, Gens, NoCmd, Pending
<1>1. /\ proc' = [proc EXCEPT ![s][g] = "settled"]
      /\ proc[s][g] = "reaped"
      /\ UNCHANGED <<mode, generation, signal, resume, asked>>
  BY DEF Settle, IsCurrent
<1>2. PICK v \in {"intentional", "unexpected"} :
        /\ report' = [report EXCEPT ![s][g] = v]
        /\ v = "intentional" => intentional[s] = g
  BY DEF Settle, IsCurrent, WasIntentional
<1>3. /\ intentional' \in [Servers -> 0..MaxGen]
      /\ \A r \in Servers : \/ intentional'[r] = intentional[r]
                             \/ intentional'[r] = 0
  BY DEF Settle, IsCurrent, TypeOK
<1>4. /\ state' \in [Servers -> {"OFFLINE", "ONLINE", "ERROR"}]
      /\ cmd' \in [Servers -> 0..MaxGen]
      /\ timed' \in [Servers -> BOOLEAN]
  <2>1. /\ state \in [Servers -> {"OFFLINE", "ONLINE", "ERROR"}]
        /\ cmd \in [Servers -> 0..MaxGen]
        /\ timed \in [Servers -> BOOLEAN]
    BY DEF TypeOK
  <2>2. 0 \in 0..MaxGen
    OBVIOUS
  <2>3. CASE cmd[s] = g
    <3>1. PICK w \in {"OFFLINE", "ERROR"} :
            /\ state' = [state EXCEPT ![s] = w]
            /\ cmd' = [cmd EXCEPT ![s] = 0]
            /\ timed' = [timed EXCEPT ![s] = FALSE]
      BY <2>3 DEF Settle, IsCurrent
    <3> QED
      BY ONLY <2>1, <2>2, <3>1, s \in Servers
  <2>4. CASE cmd[s] # g
    BY <2>1, <2>4 DEF Settle, IsCurrent
  <2> QED
    BY <2>3, <2>4
<1>5. /\ cmd[s] = g => cmd'[s] = NoCmd /\ state'[s] # "ONLINE"
      /\ cmd[s] # g => /\ cmd'[s] = cmd[s] /\ state'[s] = state[s]
                       /\ timed'[s] = timed[s]
      /\ \A r \in Servers : r # s =>
           /\ cmd'[r] = cmd[r] /\ state'[r] = state[r] /\ timed'[r] = timed[r]
  BY DEF Settle, IsCurrent, TypeOK
<1>6. /\ proc' \in [Servers -> [Gens -> Phases]]
      /\ proc'[s][g] = "settled"
      /\ \A r \in Servers, h \in Gens :
           r # s \/ h # g => proc'[r][h] = proc[r][h]
  <2>1. proc \in [Servers -> [Gens -> Phases]] /\ "settled" \in Phases
    BY DEF TypeOK, Phases
  <2> QED
    BY ONLY <1>1, <2>1, s \in Servers, g \in Gens
<1>7. /\ report' \in [Servers -> [Gens -> {"none", "intentional", "unexpected"}]]
      /\ report'[s][g] = v
      /\ \A r \in Servers, h \in Gens :
           r # s \/ h # g => report'[r][h] = report[r][h]
  <2>1. report \in [Servers -> [Gens -> {"none", "intentional", "unexpected"}]]
    BY DEF TypeOK
  <2> QED
    BY ONLY <1>2, <2>1, s \in Servers, g \in Gens
<1>8. TypeOK'
  BY <1>1, <1>3, <1>4, <1>6, <1>7 DEF TypeOK
<1>9. FutureIsBlank'
  <2>1. ~(g > generation[s])
    BY <1>1 DEF FutureIsBlank
  <2> QED
    BY <1>1, <1>6, <1>7, <2>1 DEF FutureIsBlank
<1>10. SimulatedHasNone'
  BY <1>1 DEF SimulatedHasNone
<1>11. CmdIsPending'
  BY <1>1, <1>5, <1>6 DEF CmdIsPending, TypeOK
<1>12. LatestIsCmd'
  BY <1>1, <1>5, <1>6 DEF LatestIsCmd
<1>13. MarkIsARequest'
  BY <1>1, <1>3, <1>6 DEF MarkIsARequest, TypeOK
<1>14. OnlineIsBacked'
  BY <1>1, <1>3, <1>5, <1>6 DEF OnlineIsBacked, TypeOK
<1>15. HushedOnlyIfAsked'
  BY <1>1, <1>2, <1>7 DEF HushedOnlyIfAsked, MarkIsARequest
<1> QED
  BY <1>8, <1>9, <1>10, <1>11, <1>12, <1>13, <1>14, <1>15

\* The steps of a child and of its waiter that touch only proc.
LEMMA PhaseKeepsIInv ==
  ASSUME IInv, NEW s \in Servers, NEW g \in Gens,
         Die(s, g) \/ WaitReturns(s, g) \/ CallOnExit(s, g)
  PROVE  IInv'
<1> USE LifecycleAssumption DEF IInv, Gens, NoCmd, Pending
<1>1. UNCHANGED <<mode, managerVars, signal, report, resume, asked>>
  BY DEF Die, WaitReturns, CallOnExit
<1>2. PICK v \in {"dead", "reaped", "reported"} :
        /\ proc' = [proc EXCEPT ![s][g] = v]
        /\ proc[s][g] # "none"
        /\ v \in Pending <=> proc[s][g] \in Pending
  BY DEF Die, WaitReturns, CallOnExit
<1>3. /\ proc' \in [Servers -> [Gens -> Phases]]
      /\ proc'[s][g] = v
      /\ \A r \in Servers, h \in Gens :
           r # s \/ h # g => proc'[r][h] = proc[r][h]
  <2>1. proc \in [Servers -> [Gens -> Phases]] /\ v \in Phases
    BY DEF TypeOK, Phases
  <2> QED
    BY ONLY <1>2, <2>1, s \in Servers, g \in Gens
<1>4. \A r \in Servers, h \in Gens :
        /\ proc'[r][h] \in Pending <=> proc[r][h] \in Pending
        /\ proc[r][h] = "none" => proc'[r][h] = "none"
  BY <1>2, <1>3
<1>5. TypeOK'
  BY <1>1, <1>3 DEF TypeOK, managerVars
<1>6. FutureIsBlank' /\ SimulatedHasNone'
  BY <1>1, <1>4 DEF FutureIsBlank, SimulatedHasNone, managerVars
<1>7. CmdIsPending'
  <2>1. \A r \in Servers : cmd[r] # 0 => cmd[r] \in Gens
    BY DEF TypeOK
  <2> QED
    BY <1>1, <1>4, <2>1 DEF CmdIsPending, managerVars
<1>8. LatestIsCmd'
  BY <1>1, <1>4 DEF LatestIsCmd, managerVars
<1>9. MarkIsARequest'
  BY <1>1, <1>4 DEF MarkIsARequest, managerVars
<1>10. OnlineIsBacked' /\ HushedOnlyIfAsked'
  BY <1>1, <1>4 DEF OnlineIsBacked, HushedOnlyIfAsked, TypeOK, managerVars
<1> QED
  BY <1>5, <1>6, <1>7, <1>8, <1>9, <1>10

-----------------------------------------------------------------------------
(* The theorems *)

\* Every step keeps the invariant.
LEMMA NextKeepsIInv == IInv /\ [Next]_vars => IInv'
<1> SUFFICES ASSUME IInv, [Next]_vars PROVE IInv'
  OBVIOUS
<1>1. CASE UNCHANGED vars
  BY <1>1 DEF IInv, TypeOK, FutureIsBlank, SimulatedHasNone, CmdIsPending,
     LatestIsCmd, MarkIsARequest, OnlineIsBacked, HushedOnlyIfAsked, vars,
     managerVars
<1>2. ASSUME NEW c \in Callers, Call(c) PROVE IInv'
  <2>1. resume \in [Callers -> Servers \cup {None}]
    BY DEF IInv, TypeOK
  <2>2. ASSUME NEW s \in Servers, Start(c, s) PROVE IInv'
    BY <2>1, <2>2, StartKeepsIInv DEF Start
  <2>3. ASSUME NEW s \in Servers, NEW force \in BOOLEAN, Stop(c, s, force)
        PROVE IInv'
    BY <2>1, <2>3, StopKeepsIInv DEF Stop
  <2>4. ASSUME NEW s \in Servers, RestartStop(c, s) PROVE IInv'
    BY <2>1, <2>4, StopKeepsIInv DEF RestartStop
  <2>5. CASE RestartStart(c)
    <3>1. resume[c] \in Servers /\ resume' \in [Callers -> Servers \cup {None}]
      BY <2>1, <2>5 DEF RestartStart
    <3>2. CASE StartSection(resume[c])
      BY <3>1, <3>2, StartKeepsIInv
    <3>3. CASE UNCHANGED <<mode, managerVars, proc, signal, report, asked>>
      BY <3>1, <3>3 DEF IInv, TypeOK, FutureIsBlank, SimulatedHasNone,
         CmdIsPending, LatestIsCmd, MarkIsARequest, OnlineIsBacked,
         HushedOnlyIfAsked, managerVars
    <3> QED
      BY <2>5, <3>2, <3>3 DEF RestartStart
  <2> QED
    BY <1>2, <2>2, <2>3, <2>4, <2>5 DEF Call
<1>3. ASSUME NEW s \in Servers, NEW g \in Gens, Die(s, g) \/ Waiter(s, g)
      PROVE IInv'
  BY <1>3, SettleKeepsIInv, PhaseKeepsIInv DEF Waiter
<1> QED
  BY <1>1, <1>2, <1>3 DEF Next

\* The invariant holds in every reachable state.
THEOREM InductiveInvariant == Spec => []IInv
<1> QED
  BY InitIInv, NextKeepsIInv, PTL DEF Spec

\* The variables keep their types.
THEOREM TypeCorrect == Spec => []TypeOK
<1>1. IInv => TypeOK
  BY DEF IInv
<1> QED
  BY <1>1, InductiveInvariant, PTL

\* A live server shown ONLINE is backed by its latest process, unasked to end.
THEOREM OnlineIsAlwaysBacked == Spec => []OnlineIsBacked
<1>1. IInv => OnlineIsBacked
  BY DEF IInv
<1> QED
  BY <1>1, InductiveInvariant, PTL

\* An exit is hushed up only when an operator asked for that process's end.
THEOREM NeverHushedUnasked == Spec => []HushedOnlyIfAsked
<1>1. IInv => HushedOnlyIfAsked
  BY DEF IInv
<1> QED
  BY <1>1, InductiveInvariant, PTL

\* The exit of a superseded process never takes an ONLINE server down.
THEOREM OnlyOwnExit == Spec => OnlyOwnExitEndsOnline
<1> DEFINE Own(s) == state[s] = "ONLINE" /\ state'[s] = "ERROR" /\ asked' = asked =>
                       /\ proc[s][generation[s]] = "reaped"
                       /\ report'[s][generation[s]] = "unexpected"
<1>1. ASSUME IInv, [Next]_vars, NEW s \in Servers PROVE Own(s)
  <2> USE <1>1, LifecycleAssumption DEF IInv, NoCmd
  <2> SUFFICES ASSUME state[s] = "ONLINE", state'[s] = "ERROR", asked' = asked
               PROVE  /\ proc[s][generation[s]] = "reaped"
                      /\ report'[s][generation[s]] = "unexpected"
    OBVIOUS
  <2>1. ASSUME NEW r \in Servers, StartSection(r) PROVE FALSE
    BY <2>1 DEF StartSection, AlreadyUp, FailToStart, BringUp, Spawn, BumpGeneration,
       TypeOK, managerVars
  <2>2. ASSUME NEW r \in Servers, NEW force \in BOOLEAN, StopSection(r, force)
        PROVE FALSE
    <3>1. r = s /\ HasProcess(s)
      BY <2>2 DEF StopSection, AlreadyDown, SignalProcess, MarkOffline,
         MarkIntentional, SignalDelivered, SignalRefused, TypeOK
    <3>2. asked[s][cmd[s]] = "none" /\ cmd[s] \in Gens
      BY <3>1 DEF OnlineIsBacked, HasProcess, TypeOK, Gens
    <3>3. asked'[s][cmd[s]] # "none"
      <4>1. PICK v \in {"stop", "kill"} : asked' = [asked EXCEPT ![s][cmd[s]] = v]
        BY <2>2, <3>1 DEF StopSection, RecordRequest
      <4>2. asked \in [Servers -> [Gens -> {"none", "stop", "kill"}]]
        BY DEF TypeOK
      <4> QED
        BY ONLY <3>2, <4>1, <4>2, s \in Servers
    <3> QED
      BY <3>2, <3>3
  <2>3. ASSUME NEW r \in Servers, NEW g \in Gens, Die(r, g) \/ Waiter(r, g)
        PROVE  /\ proc[s][generation[s]] = "reaped"
               /\ report'[s][generation[s]] = "unexpected"
    <3>1. Settle(r, g) /\ r = s /\ cmd[s] = g /\ ~WasIntentional(s, g)
      BY <2>3 DEF Die, Waiter, WaitReturns, CallOnExit, Settle, IsCurrent, TypeOK,
         managerVars
    <3>2. generation[s] = g
      BY <3>1 DEF OnlineIsBacked, SimulatedHasNone, TypeOK, Settle, IsCurrent, Gens
    <3>3. report \in [Servers -> [Gens -> {"none", "intentional", "unexpected"}]]
      BY DEF TypeOK
    <3>4. report' = [report EXCEPT ![s][g] = "unexpected"]
      BY <3>1 DEF Settle, IsCurrent
    <3>5. report'[s][g] = "unexpected"
      BY ONLY <3>3, <3>4, s \in Servers, g \in Gens
    <3> QED
      BY <3>1, <3>2, <3>5 DEF Settle, IsCurrent
  <2>4. CASE UNCHANGED vars
    BY <2>4 DEF vars, managerVars
  <2>5. ASSUME NEW c \in Callers, RestartStart(c) PROVE FALSE
    BY <2>1, <2>5 DEF RestartStart, TypeOK, managerVars
  <2> QED
    BY <2>1, <2>2, <2>3, <2>4, <2>5 DEF Next, Call, Start, Stop, RestartStop
<1>2. IInv /\ [Next]_vars => [\A s \in Servers : Own(s)]_vars
  BY <1>1
<1> QED
  BY <1>2, InductiveInvariant, PTL DEF Spec, OnlyOwnExitEndsOnline

\* Where interrupts arrive, every process nobody asked to end backs its server.
THEOREM NoOrphanEver == ASSUME ~InterruptCanFail PROVE Spec => []NoOrphan
<1>1. Init => NoOrphan
  BY DEF Init, NoOrphan, Gens
<1>2. ASSUME IInv, NoOrphan, [Next]_vars PROVE NoOrphan'
  <2> USE <1>2, LifecycleAssumption DEF IInv, NoCmd
  <2>1. ASSUME NEW s \in Servers, StartSection(s) PROVE NoOrphan'
    <3>1. CASE AlreadyUp(s)
      BY <2>1, <3>1 DEF StartSection, AlreadyUp, managerVars, NoOrphan
    <3>2. CASE FailToStart(s)
      BY <2>1, <3>2 DEF StartSection, FailToStart, BumpGeneration, NoOrphan,
         TypeOK
    <3>3. CASE BringUp(s) /\ mode # "live"
      BY <2>1, <3>3 DEF StartSection, BringUp, Spawn, BumpGeneration, NoOrphan,
         TypeOK, SimulatedHasNone
    <3>4. CASE BringUp(s) /\ mode = "live"
      <4>1. PICK h \in Gens : h = generation'[s]
        BY <3>4 DEF BringUp, Spawn, BumpGeneration, TypeOK, Gens
      <4>2. /\ proc' = [proc EXCEPT ![s][h] = "running"]
            /\ cmd' = [cmd EXCEPT ![s] = h]
            /\ state' = [state EXCEPT ![s] = "ONLINE"]
            /\ state[s] # "ONLINE"
            /\ signal' = signal
        BY <2>1, <3>4, <4>1 DEF StartSection, BringUp, Spawn, BumpGeneration
      <4>3. /\ proc \in [Servers -> [Gens -> Phases]]
            /\ state \in [Servers -> {"OFFLINE", "ONLINE", "ERROR"}]
            /\ cmd \in [Servers -> 0..MaxGen]
        BY DEF TypeOK
      <4> QED
        BY ONLY <4>2, <4>3, NoOrphan, s \in Servers, h \in Gens DEF NoOrphan
    <3> QED
      BY <2>1, <3>1, <3>2, <3>3, <3>4 DEF StartSection
  <2>2. ASSUME NEW s \in Servers, NEW force \in BOOLEAN, StopSection(s, force)
        PROVE NoOrphan'
    <3>1. CASE AlreadyDown(s)
      BY <2>2, <3>1 DEF StopSection, AlreadyDown, NoOrphan
    <3>2. CASE MarkOffline(s)
      BY <2>2, <3>2 DEF StopSection, MarkOffline, HasProcess, NoOrphan,
         OnlineIsBacked, SimulatedHasNone, TypeOK
    <3>3. CASE SignalProcess(s, force) /\ SignalRefused(s, force)
      BY <2>2, <3>3 DEF StopSection, SignalProcess, SignalRefused, Reachable,
         NoOrphan, TypeOK
    <3>4. CASE SignalProcess(s, force) /\ SignalDelivered(s, force)
      <4>1. cmd[s] \in Gens
        BY <3>4 DEF SignalProcess, HasProcess, TypeOK, Gens
      <4>2. PICK v \in {"interrupt", "kill"} :
              signal' = [signal EXCEPT ![s][cmd[s]] = v]
        BY <3>4 DEF SignalDelivered, Stronger
      <4>3. /\ state' = [state EXCEPT ![s] = "OFFLINE"]
            /\ UNCHANGED <<cmd, proc>>
        BY <2>2, <3>4 DEF StopSection, SignalDelivered
      <4>4. /\ signal \in [Servers -> [Gens -> {"none", "interrupt", "kill"}]]
            /\ state \in [Servers -> {"OFFLINE", "ONLINE", "ERROR"}]
        BY DEF TypeOK
      <4> QED
        BY ONLY <4>1, <4>2, <4>3, <4>4, NoOrphan, s \in Servers DEF NoOrphan
    <3> QED
      BY <2>2, <3>1, <3>2, <3>3, <3>4 DEF StopSection, SignalProcess
  <2>3. ASSUME NEW s \in Servers, NEW g \in Gens, Die(s, g) \/ Waiter(s, g)
        PROVE NoOrphan'
    <3>1. PICK v \in {"dead", "reaped", "settled", "reported"} :
            /\ proc' = [proc EXCEPT ![s][g] = v]
            /\ signal' = signal
      BY <2>3 DEF Die, Waiter, WaitReturns, Settle, IsCurrent, CallOnExit
    <3>2. /\ proc \in [Servers -> [Gens -> Phases]]
          /\ state \in [Servers -> {"OFFLINE", "ONLINE", "ERROR"}]
          /\ cmd \in [Servers -> 0..MaxGen]
      BY DEF TypeOK
    <3>3. \A r \in Servers : proc[r][cmd[r]] = "running" /\ cmd[r] \in Gens =>
            state'[r] = state[r] /\ cmd'[r] = cmd[r]
      BY <2>3, <3>2 DEF Die, Waiter, WaitReturns, Settle, IsCurrent, CallOnExit, managerVars
    <3> QED
      BY ONLY <3>1, <3>2, <3>3, NoOrphan, s \in Servers, g \in Gens DEF NoOrphan
  <2>4. ASSUME NEW c \in Callers, RestartStart(c) PROVE NoOrphan'
    BY <2>1, <2>4 DEF RestartStart, TypeOK, managerVars, NoOrphan
  <2>5. CASE UNCHANGED vars
    BY <2>5 DEF vars, managerVars, NoOrphan
  <2> QED
    BY <2>1, <2>2, <2>3, <2>4, <2>5 DEF Next, Call, Start, Stop, RestartStop
<1> QED
  BY <1>1, <1>2, InductiveInvariant, PTL DEF Spec

-----------------------------------------------------------------------------
(* A stopped server stays OFFLINE.  Unless a Start failed since the process *)
(* that cmd names was spawned, cmd is the latest generation, and the mark a *)
(* Stop leaves is the one the exit of that process will find.               *)

OfflineIsMarked ==
  mode = "live" =>
    \A s \in Servers : state[s] = "OFFLINE" /\ cmd[s] # NoCmd /\ cmd[s] = generation[s] =>
      intentional[s] = cmd[s]

FinalInv == IInv /\ OfflineIsMarked

\* Every step keeps the strengthened invariant.
LEMMA NextKeepsFinalInv ==
  ASSUME FinalInv, [Next]_vars
  PROVE  FinalInv'
<1> USE LifecycleAssumption DEF FinalInv, IInv, NoCmd
<1>0. IInv'
  BY NextKeepsIInv
<1>1. ASSUME NEW s \in Servers, StartSection(s) PROVE OfflineIsMarked'
  <2>1. CASE AlreadyUp(s)
    BY <1>1, <2>1 DEF StartSection, AlreadyUp, managerVars, OfflineIsMarked
  <2>2. CASE FailToStart(s)
    BY <1>1, <2>2 DEF StartSection, FailToStart, BumpGeneration, OfflineIsMarked, TypeOK
  <2>3. CASE BringUp(s)
    <3>1. /\ generation' = [generation EXCEPT ![s] = @ + 1]
          /\ state' = [state EXCEPT ![s] = "ONLINE"]
          /\ UNCHANGED <<mode, intentional>>
          /\ \A r \in Servers : r # s => cmd'[r] = cmd[r]
      BY <1>1, <2>3 DEF StartSection, BringUp, Spawn, BumpGeneration, TypeOK
    <3> QED
      BY <3>1 DEF OfflineIsMarked, TypeOK
  <2> QED
    BY <1>1, <2>1, <2>2, <2>3 DEF StartSection
<1>2. ASSUME NEW s \in Servers, NEW force \in BOOLEAN, StopSection(s, force)
      PROVE OfflineIsMarked'
  <2>1. UNCHANGED <<mode, cmd, generation>>
    BY <1>2 DEF StopSection
  <2>2. CASE AlreadyDown(s)
    BY <2>1, <2>2 DEF AlreadyDown, OfflineIsMarked
  <2>3. CASE SignalProcess(s, force) \/ MarkOffline(s)
    <3>1. /\ intentional' = [intentional EXCEPT ![s] = generation[s]]
          /\ \A r \in Servers : r # s => state'[r] = state[r]
      BY <2>3 DEF SignalProcess, MarkOffline, MarkIntentional,
         SignalDelivered, SignalRefused, TypeOK
    <3> QED
      BY <2>1, <3>1 DEF OfflineIsMarked, TypeOK
  <2> QED
    BY <1>2, <2>2, <2>3 DEF StopSection
<1>3. ASSUME NEW s \in Servers, NEW g \in Gens, Settle(s, g) PROVE OfflineIsMarked'
  <2>1. UNCHANGED <<mode, generation>>
    BY <1>3 DEF Settle
  <2>2. /\ \A r \in Servers : r # s =>
             cmd'[r] = cmd[r] /\ state'[r] = state[r] /\ intentional'[r] = intentional[r]
        /\ cmd[s] = g => cmd'[s] = 0
        /\ cmd[s] # g => cmd'[s] = cmd[s] /\ state'[s] = state[s]
        /\ intentional[s] # g => intentional'[s] = intentional[s]
    BY <1>3 DEF Settle, IsCurrent, WasIntentional, TypeOK
  <2> SUFFICES ASSUME mode = "live", NEW r \in Servers,
                      state'[r] = "OFFLINE", cmd'[r] # 0, cmd'[r] = generation[r]
               PROVE  intentional'[r] = cmd'[r]
    BY <2>1 DEF OfflineIsMarked
  <2>3. CASE r # s
    BY <2>2, <2>3 DEF OfflineIsMarked
  <2>4. CASE r = s
    BY <2>2, <2>4 DEF OfflineIsMarked
  <2> QED
    BY <2>3, <2>4
<1>4. ASSUME NEW s \in Servers, NEW g \in Gens,
             Die(s, g) \/ WaitReturns(s, g) \/ CallOnExit(s, g)
      PROVE OfflineIsMarked'
  BY <1>4 DEF Die, WaitReturns, CallOnExit, managerVars, OfflineIsMarked
<1>5. ASSUME NEW c \in Callers, RestartStart(c) PROVE OfflineIsMarked'
  <2>1. resume[c] \in Servers
    BY <1>5 DEF RestartStart, TypeOK
  <2>2. CASE StartSection(resume[c])
    BY <1>1, <2>1, <2>2
  <2>3. CASE UNCHANGED managerVars /\ UNCHANGED mode
    BY <2>3 DEF managerVars, OfflineIsMarked
  <2> QED
    BY <1>5, <2>2, <2>3 DEF RestartStart
<1>6. ASSUME UNCHANGED vars PROVE OfflineIsMarked'
  BY <1>6 DEF vars, managerVars, OfflineIsMarked
<1>7. ASSUME NEW c \in Callers, Call(c) PROVE OfflineIsMarked'
  <2>1. CASE RestartStart(c)
    BY <1>5, <2>1
  <2>2. ASSUME NEW s \in Servers, Start(c, s) PROVE OfflineIsMarked'
    <3>1. StartSection(s)
      BY <2>2 DEF Start
    <3> QED
      BY <1>1, <3>1
  <2>3. ASSUME NEW s \in Servers, NEW force \in BOOLEAN, Stop(c, s, force) PROVE OfflineIsMarked'
    <3>1. StopSection(s, force)
      BY <2>3 DEF Stop
    <3> QED
      BY <1>2, <3>1
  <2>4. ASSUME NEW s \in Servers, RestartStop(c, s) PROVE OfflineIsMarked'
    <3>1. StopSection(s, FALSE)
      BY <2>4 DEF RestartStop
    <3> QED
      BY <1>2, <3>1
  <2> QED
    BY <1>7, <2>1, <2>2, <2>3, <2>4 DEF Call
<1>8. ASSUME NEW s \in Servers, NEW g \in Gens, Die(s, g) \/ Waiter(s, g)
      PROVE OfflineIsMarked'
  BY <1>3, <1>4, <1>8 DEF Waiter
<1>9. OfflineIsMarked'
  <2>1. CASE Next
    BY <1>7, <1>8, <2>1 DEF Next
  <2> QED
    BY <1>6, <2>1
<1> QED
  BY <1>0, <1>9

\* No late exit of the process the last Start spawned flips a stopped server to
\* ERROR (manager.go: Stop's mark and the section after Wait), whatever earlier
\* Starts did.
THEOREM OfflineStays == Spec => OfflineIsFinal
<1> DEFINE Stays(s) == /\ state[s] = "OFFLINE" /\ generation'[s] = generation[s]
                       /\ cmd[s] \in {NoCmd, generation[s]}
                       => state'[s] = "OFFLINE"
<1>1. Init => FinalInv
  <2>1. Init => OfflineIsMarked
    BY DEF Init, OfflineIsMarked, NoCmd
  <2> QED
    BY <2>1, InitIInv DEF FinalInv
<1>2. ASSUME FinalInv, [Next]_vars, NEW s \in Servers PROVE Stays(s)
  <2> USE <1>2, LifecycleAssumption DEF FinalInv, IInv, NoCmd
  <2> SUFFICES ASSUME state[s] = "OFFLINE", generation'[s] = generation[s],
                      cmd[s] \in {0, generation[s]}
               PROVE  state'[s] = "OFFLINE"
    OBVIOUS
  <2>1. ASSUME NEW r \in Servers, StartSection(r) PROVE state'[s] = "OFFLINE"
    BY <2>1 DEF StartSection, AlreadyUp, FailToStart, BringUp, BumpGeneration,
       TypeOK, managerVars
  <2>2. ASSUME NEW r \in Servers, NEW force \in BOOLEAN, StopSection(r, force)
        PROVE state'[s] = "OFFLINE"
    BY <2>2 DEF StopSection, AlreadyDown, SignalProcess, MarkOffline,
       SignalDelivered, SignalRefused, TypeOK
  <2>3. ASSUME NEW r \in Servers, NEW g \in Gens, Settle(r, g)
        PROVE state'[s] = "OFFLINE"
    <3>1. CASE r # s \/ cmd[s] # g
      BY <2>3, <3>1 DEF Settle, IsCurrent, TypeOK
    <3>2. CASE r = s /\ cmd[s] = g
      <4>1. mode = "live"
        BY <2>3, <3>2 DEF SimulatedHasNone, TypeOK, Gens
      <4>2. intentional[s] = g
        BY <3>2, <4>1 DEF OfflineIsMarked, Gens
      <4> QED
        BY <2>3, <3>2, <4>2 DEF Settle, IsCurrent, WasIntentional, TypeOK
    <3> QED
      BY <3>1, <3>2
  <2>4. ASSUME NEW r \in Servers, NEW g \in Gens,
               Die(r, g) \/ WaitReturns(r, g) \/ CallOnExit(r, g)
        PROVE state'[s] = "OFFLINE"
    BY <2>4 DEF Die, WaitReturns, CallOnExit, managerVars
  <2>5. ASSUME NEW c \in Callers, RestartStart(c) PROVE state'[s] = "OFFLINE"
    BY <2>1, <2>5 DEF RestartStart, TypeOK, managerVars
  <2>6. CASE UNCHANGED vars
    BY <2>6 DEF vars, managerVars
  <2> QED
    BY <2>1, <2>2, <2>3, <2>4, <2>5, <2>6
       DEF Next, Call, Start, Stop, RestartStop, Waiter
<1>3. FinalInv /\ [Next]_vars => FinalInv'
  BY NextKeepsFinalInv
<1>4. FinalInv /\ [Next]_vars => [\A s \in Servers : Stays(s)]_vars
  BY <1>2
<1> QED
  BY <1>1, <1>3, <1>4, PTL DEF Spec, OfflineIsFinal

-----------------------------------------------------------------------------
(***************************************************************************)
(* The process manager implements the abstract Supervisor, for every set   *)
(* of servers and callers, with refused interrupts and failing Starts.     *)
(* One fact is needed beyond the manager's own invariant: a child cmd      *)
(* still names while its server is not ONLINE was dismissed by an operator.*)
(***************************************************************************)


CmdIsDismissed ==
  \A s \in Servers : state[s] # "ONLINE" /\ cmd[s] # NoCmd =>
    asked[s][cmd[s]] # "none"

\* A server shown ONLINE has been started at least once.
OnlineIsStarted ==
  \A s \in Servers : state[s] = "ONLINE" => generation[s] > 0

RInv == IInv /\ CmdIsDismissed /\ OnlineIsStarted

\* Initially no server has a child.
LEMMA InitRInv == Init => RInv
<1>1. Init => CmdIsDismissed /\ OnlineIsStarted
  BY DEF Init, CmdIsDismissed, OnlineIsStarted
<1> QED
  BY <1>1, InitIInv DEF RInv

\* A Stop never withdraws a request, and leaves one for the child cmd names.
LEMMA StopRecords ==
  ASSUME TypeOK, NEW s \in Servers, NEW force \in BOOLEAN, RecordRequest(s, force)
  PROVE  /\ HasProcess(s) =>
              /\ asked'[s][cmd[s]] # "none"
              /\ \A r \in Servers, g \in Gens :
                   r # s \/ g # cmd[s] => asked'[r][g] = asked[r][g]
         /\ ~HasProcess(s) => asked' = asked
<1>1. CASE HasProcess(s)
  <2>1. PICK v \in {"stop", "kill"} : asked' = [asked EXCEPT ![s][cmd[s]] = v]
    BY <1>1 DEF RecordRequest
  <2>2. /\ asked \in [Servers -> [Gens -> {"none", "stop", "kill"}]]
        /\ cmd[s] \in Gens
    BY <1>1, LifecycleAssumption DEF TypeOK, HasProcess, NoCmd, Gens
  <2>3. /\ asked'[s][cmd[s]] # "none"
        /\ \A r \in Servers, g \in Gens :
             r # s \/ g # cmd[s] => asked'[r][g] = asked[r][g]
    BY ONLY <2>1, <2>2, s \in Servers
  <2> QED
    BY <1>1, <2>3
<1>2. CASE ~HasProcess(s)
  BY <1>2 DEF RecordRequest
<1> QED
  BY <1>1, <1>2

\* Every step keeps the invariant the mapping needs.
LEMMA NextKeepsRInv == RInv /\ [Next]_vars => RInv'
<1> SUFFICES ASSUME RInv, [Next]_vars PROVE CmdIsDismissed' /\ OnlineIsStarted'
  BY NextKeepsIInv DEF RInv
<1> USE LifecycleAssumption DEF RInv, IInv, NoCmd
<1>0. OnlineIsStarted'
  <2>1. ASSUME generation' = generation,
               \A r \in Servers : state'[r] = "ONLINE" => state[r] = "ONLINE"
        PROVE  OnlineIsStarted'
    BY <2>1 DEF OnlineIsStarted
  <2>2. ASSUME NEW s \in Servers, StartSection(s) PROVE OnlineIsStarted'
    <3>1. CASE AlreadyUp(s)
      BY <2>1, <3>1 DEF AlreadyUp, managerVars
    <3>2. CASE BumpGeneration(s)
      BY <2>2, <3>2 DEF StartSection, AlreadyUp, FailToStart, BringUp,
         BumpGeneration, OnlineIsStarted, TypeOK
    <3> QED
      BY <2>2, <3>1, <3>2 DEF StartSection, FailToStart, BringUp
  <2>3. ASSUME NEW s \in Servers, NEW force \in BOOLEAN, StopSection(s, force)
        PROVE OnlineIsStarted'
    BY <2>1, <2>3 DEF StopSection, AlreadyDown, SignalProcess, MarkOffline,
       SignalDelivered, SignalRefused, TypeOK
  <2>4. ASSUME NEW s \in Servers, NEW g \in Gens, Die(s, g) \/ Waiter(s, g)
        PROVE OnlineIsStarted'
    BY <2>1, <2>4 DEF Die, Waiter, WaitReturns, Settle, CallOnExit,
       managerVars, TypeOK
  <2>5. ASSUME NEW c \in Callers, RestartStart(c) PROVE OnlineIsStarted'
    BY <2>1, <2>2, <2>5 DEF RestartStart, managerVars, TypeOK
  <2>6. ASSUME UNCHANGED vars PROVE OnlineIsStarted'
    BY <2>1, <2>6 DEF vars, managerVars
  <2> QED
    BY <2>2, <2>3, <2>4, <2>5, <2>6 DEF Next, Call, Start, Stop, RestartStop
<1>1. ASSUME NEW s \in Servers, StartSection(s) PROVE CmdIsDismissed'
  <2>1. CASE AlreadyUp(s)
    BY <1>1, <2>1 DEF StartSection, AlreadyUp, managerVars, CmdIsDismissed
  <2>2. CASE FailToStart(s)
    BY <1>1, <2>2 DEF StartSection, FailToStart, BumpGeneration,
       CmdIsDismissed, TypeOK
  <2>3. CASE BringUp(s)
    <3>1. /\ state' = [state EXCEPT ![s] = "ONLINE"]
          /\ asked' = asked
          /\ \A r \in Servers : r # s => cmd'[r] = cmd[r]
      BY <1>1, <2>3 DEF StartSection, BringUp, Spawn, TypeOK
    <3> QED
      BY <3>1 DEF CmdIsDismissed, TypeOK
  <2> QED
    BY <1>1, <2>1, <2>2, <2>3 DEF StartSection
<1>2. ASSUME NEW s \in Servers, NEW force \in BOOLEAN, StopSection(s, force)
      PROVE CmdIsDismissed'
  <2>1. /\ cmd' = cmd /\ mode' = mode
        /\ RecordRequest(s, force)
        /\ \A r \in Servers : r # s => state'[r] = state[r]
    BY <1>2 DEF StopSection, AlreadyDown, SignalProcess, MarkOffline,
       SignalDelivered, SignalRefused, TypeOK
  <2> SUFFICES ASSUME NEW r \in Servers, state'[r] # "ONLINE", cmd[r] # 0
               PROVE  asked'[r][cmd[r]] # "none"
    BY <2>1 DEF CmdIsDismissed
  <2>2. cmd[r] \in Gens /\ mode = "live"
    BY DEF TypeOK, Gens, SimulatedHasNone
  <2>3. CASE r = s
    BY <2>1, <2>2, <2>3, StopRecords DEF HasProcess
  <2>4. CASE r # s
    BY <2>1, <2>2, <2>4, StopRecords DEF CmdIsDismissed
  <2> QED
    BY <2>3, <2>4
<1>3. ASSUME NEW s \in Servers, NEW g \in Gens, Settle(s, g)
      PROVE CmdIsDismissed'
  BY <1>3 DEF Settle, IsCurrent, CmdIsDismissed, TypeOK
<1>4. ASSUME NEW s \in Servers, NEW g \in Gens,
             Die(s, g) \/ WaitReturns(s, g) \/ CallOnExit(s, g)
      PROVE CmdIsDismissed'
  BY <1>4 DEF Die, WaitReturns, CallOnExit, managerVars, CmdIsDismissed
<1>5. ASSUME NEW c \in Callers, RestartStart(c) PROVE CmdIsDismissed'
  BY <1>1, <1>5 DEF RestartStart, TypeOK, managerVars, CmdIsDismissed
<1>6. ASSUME UNCHANGED vars PROVE CmdIsDismissed'
  BY <1>6 DEF vars, managerVars, CmdIsDismissed
<1> QED
  BY <1>0, <1>1, <1>2, <1>3, <1>4, <1>5, <1>6
     DEF Next, Call, Start, Stop, RestartStop, Waiter

-----------------------------------------------------------------------------
(* One server's share of the mapping *)

Wanted(s) == IF state[s] # "ONLINE" THEN NoCmd
             ELSE IF mode = "live" THEN cmd[s] ELSE generation[s]
Alive(s) == {g \in Gens : IF mode = "live" THEN proc[s][g] = "running"
                          ELSE g = generation[s] /\ state[s] = "ONLINE"}
Dismissed(s) == {g \in Gens : IF mode = "live" THEN asked[s][g] # "none"
                              ELSE g < generation[s] \/
                                   (g = generation[s] /\ state[s] # "ONLINE")}

SameChildren(s) ==
  /\ state'[s] = state[s]
  /\ Wanted(s)' = Wanted(s)
  /\ Alive(s)' = Alive(s)
  /\ Dismissed(s)' = Dismissed(s)

\* A server none of whose variables change keeps its children.
LEMMA UntouchedServer ==
  ASSUME NEW s \in Servers, mode' = mode, state'[s] = state[s], cmd'[s] = cmd[s],
         generation'[s] = generation[s],
         \A g \in Gens : (proc'[s][g] = "running") <=> (proc[s][g] = "running"),
         \A g \in Gens : asked'[s][g] = asked[s][g]
  PROVE  SameChildren(s)
<1>1. Wanted(s)' = Wanted(s)
  BY DEF Wanted
<1>2. Alive(s)' = Alive(s)
  BY DEF Alive
<1>3. Dismissed(s)' = Dismissed(s)
  BY DEF Dismissed
<1> QED
  BY <1>1, <1>2, <1>3 DEF SameChildren

\* If the other servers keep theirs, what changes is one entry of each table.
LEMMA OneServer ==
  ASSUME state \in [Servers -> {"OFFLINE", "ONLINE", "ERROR"}],
         state' \in [Servers -> {"OFFLINE", "ONLINE", "ERROR"}],
         NEW s \in Servers, \A r \in Servers \ {s} : SameChildren(r)
  PROVE  /\ state' = [state EXCEPT ![s] = state'[s]]
         /\ wantedChild' = [wantedChild EXCEPT ![s] = Wanted(s)']
         /\ aliveChildren' = [aliveChildren EXCEPT ![s] = Alive(s)']
         /\ dismissedChildren' = [dismissedChildren EXCEPT ![s] = Dismissed(s)']
         /\ wantedChild[s] = Wanted(s)
         /\ aliveChildren[s] = Alive(s)
         /\ dismissedChildren[s] = Dismissed(s)
<1>1. state' = [state EXCEPT ![s] = state'[s]]
  BY DEF SameChildren
<1>2. /\ wantedChild = [r \in Servers |-> Wanted(r)]
      /\ wantedChild' = [r \in Servers |-> Wanted(r)']
  BY DEF wantedChild, Wanted
<1>3. /\ aliveChildren = [r \in Servers |-> Alive(r)]
      /\ aliveChildren' = [r \in Servers |-> Alive(r)']
  BY DEF aliveChildren, Alive
<1>4. /\ dismissedChildren = [r \in Servers |-> Dismissed(r)]
      /\ dismissedChildren' = [r \in Servers |-> Dismissed(r)']
  BY DEF dismissedChildren, Dismissed
<1> QED
  BY <1>1, <1>2, <1>3, <1>4 DEF SameChildren

\* The supervisor's actions, read on one server's share.
Launched(s, p) ==
  /\ Wanted(s) = NoCmd /\ p \notin Alive(s) \cup Dismissed(s)
  /\ state'[s] = "ONLINE" /\ Wanted(s)' = p
  /\ Alive(s)' = Alive(s) \cup {p} /\ Dismissed(s)' = Dismissed(s)
LetGo(s) ==
  /\ Wanted(s) # NoCmd /\ Wanted(s)' = NoCmd
  /\ state'[s] \in {"OFFLINE", "ERROR"}
  /\ Dismissed(s)' = Dismissed(s) \cup {Wanted(s)}
  /\ Alive(s)' \in {Alive(s), Alive(s) \ {Wanted(s)}}
Exited(s, p) ==
  /\ p \in Alive(s) /\ Alive(s)' = Alive(s) \ {p}
  /\ state'[s] = state[s] /\ Wanted(s)' = Wanted(s)
  /\ Dismissed(s)' = Dismissed(s)
Lost(s) ==
  /\ Wanted(s) # NoCmd /\ Wanted(s) \notin Alive(s) /\ Wanted(s)' = NoCmd
  /\ state'[s] = "ERROR"
  /\ Alive(s)' = Alive(s) /\ Dismissed(s)' = Dismissed(s)
Rested(s) ==
  /\ Wanted(s) = NoCmd /\ Wanted(s)' = NoCmd
  /\ state'[s] \in {"OFFLINE", "ERROR"}
  /\ Alive(s)' = Alive(s) /\ Dismissed(s)' = Dismissed(s)

\* Such a change of one server is a step of the supervisor, or a stutter.
LEMMA AbstractStep ==
  ASSUME state \in [Servers -> {"OFFLINE", "ONLINE", "ERROR"}],
         state' \in [Servers -> {"OFFLINE", "ONLINE", "ERROR"}],
         NEW s \in Servers, \A r \in Servers \ {s} : SameChildren(r),
         \/ SameChildren(s) \/ LetGo(s) \/ Lost(s) \/ Rested(s)
         \/ \E p \in Gens : Launched(s, p) \/ Exited(s, p)
  PROVE  [Promise!SNext]_(Promise!svars)
<1>1. /\ state' = [state EXCEPT ![s] = state'[s]]
      /\ wantedChild' = [wantedChild EXCEPT ![s] = Wanted(s)']
      /\ aliveChildren' = [aliveChildren EXCEPT ![s] = Alive(s)']
      /\ dismissedChildren' = [dismissedChildren EXCEPT ![s] = Dismissed(s)']
      /\ wantedChild[s] = Wanted(s)
      /\ aliveChildren[s] = Alive(s)
      /\ dismissedChildren[s] = Dismissed(s)
  BY OneServer
<1>2. CASE SameChildren(s)
  <2>1. /\ state' = [state EXCEPT ![s] = state[s]]
        /\ wantedChild' = [wantedChild EXCEPT ![s] = wantedChild[s]]
        /\ aliveChildren' = [aliveChildren EXCEPT ![s] = aliveChildren[s]]
        /\ dismissedChildren' = [dismissedChildren EXCEPT ![s] = dismissedChildren[s]]
    BY <1>1, <1>2 DEF SameChildren
  <2>2. UNCHANGED <<state, wantedChild, aliveChildren, dismissedChildren>>
    <3>1. state' = state
      BY <2>1
    <3>2. wantedChild' = wantedChild
      BY <2>1 DEF wantedChild
    <3>3. aliveChildren' = aliveChildren
      BY <2>1 DEF aliveChildren
    <3>4. dismissedChildren' = dismissedChildren
      BY <2>1 DEF dismissedChildren
    <3> QED
      BY <3>1, <3>2, <3>3, <3>4
  <2> QED
    BY <2>2 DEF Promise!svars
<1>3. ASSUME NEW p \in Gens, Launched(s, p) PROVE Promise!SNext
  <2>1. Promise!Launch(s, p)
    <3>1. dismissedChildren' = dismissedChildren
      BY <1>1, <1>3 DEF Launched, dismissedChildren
    <3> QED
      BY <1>1, <1>3, <3>1 DEF Launched, Promise!Launch
  <2> QED
    BY <2>1 DEF Promise!SNext
<1>4. ASSUME NEW p \in Gens, Exited(s, p) PROVE Promise!SNext
  <2>1. Promise!Exit(s, p)
    <3>1. UNCHANGED <<state, wantedChild, dismissedChildren>>
      <4>1. state' = state
        BY <1>1, <1>4 DEF Exited
      <4>2. wantedChild' = wantedChild
        BY <1>1, <1>4 DEF Exited, wantedChild
      <4>3. dismissedChildren' = dismissedChildren
        BY <1>1, <1>4 DEF Exited, dismissedChildren
      <4> QED
        BY <4>1, <4>2, <4>3
    <3> QED
      BY <1>1, <1>4, <3>1 DEF Exited, Promise!Exit
  <2> QED
    BY <2>1 DEF Promise!SNext
<1>5. CASE LetGo(s)
  <2>1. Promise!Dismiss(s)
    <3>1. \E gone \in {{}, {wantedChild[s]}} :
            aliveChildren' = [aliveChildren EXCEPT ![s] = @ \ gone]
      <4>1. CASE Alive(s)' = Alive(s)
        BY <1>1, <4>1
      <4>2. CASE Alive(s)' = Alive(s) \ {Wanted(s)}
        BY <1>1, <4>2
      <4> QED
        BY <1>5, <4>1, <4>2 DEF LetGo
    <3>2. \E v \in {"OFFLINE", "ERROR"} : state' = [state EXCEPT ![s] = v]
      BY <1>1, <1>5 DEF LetGo
    <3>3. /\ wantedChild[s] # NoCmd
          /\ wantedChild' = [wantedChild EXCEPT ![s] = NoCmd]
          /\ dismissedChildren' =
               [dismissedChildren EXCEPT ![s] = @ \cup {wantedChild[s]}]
      BY <1>1, <1>5 DEF LetGo
    <3> QED
      BY <3>1, <3>2, <3>3 DEF Promise!Dismiss
  <2> QED
    BY <2>1 DEF Promise!SNext
<1>6. CASE Lost(s)
  <2>1. Promise!Lose(s)
    <3>1. UNCHANGED <<aliveChildren, dismissedChildren>>
      <4>1. aliveChildren' = aliveChildren
        BY <1>1, <1>6 DEF Lost, aliveChildren
      <4>2. dismissedChildren' = dismissedChildren
        BY <1>1, <1>6 DEF Lost, dismissedChildren
      <4> QED
        BY <4>1, <4>2
    <3> QED
      BY <1>1, <1>6, <3>1 DEF Lost, Promise!Lose
  <2> QED
    BY <2>1 DEF Promise!SNext
<1>7. CASE Rested(s)
  <2>1. Promise!Rest(s)
    <3>1. UNCHANGED <<wantedChild, aliveChildren, dismissedChildren>>
      <4>1. wantedChild' = wantedChild
        BY <1>1, <1>7 DEF Rested, wantedChild
      <4>2. aliveChildren' = aliveChildren
        BY <1>1, <1>7 DEF Rested, aliveChildren
      <4>3. dismissedChildren' = dismissedChildren
        BY <1>1, <1>7 DEF Rested, dismissedChildren
      <4> QED
        BY <4>1, <4>2, <4>3
    <3> QED
      BY <1>1, <1>7, <3>1 DEF Rested, Promise!Rest
  <2> QED
    BY <2>1 DEF Promise!SNext
<1> QED
  BY <1>2, <1>3, <1>4, <1>5, <1>6, <1>7

-----------------------------------------------------------------------------
(* Each critical section is a step of the supervisor or a stutter *)

\* Start launches a child, leaves the server at rest, or changes nothing.
LEMMA StartRefines ==
  ASSUME RInv, TypeOK', NEW s \in Servers, StartSection(s)
  PROVE  [Promise!SNext]_(Promise!svars)
<1> USE LifecycleAssumption DEF RInv, IInv, NoCmd
<1>1. /\ state \in [Servers -> {"OFFLINE", "ONLINE", "ERROR"}]
      /\ state' \in [Servers -> {"OFFLINE", "ONLINE", "ERROR"}]
  BY DEF TypeOK
<1>2. \A r \in Servers \ {s} : SameChildren(r)
  <2> SUFFICES ASSUME NEW r \in Servers \ {s} PROVE SameChildren(r)
    OBVIOUS
  <2>1. /\ mode' = mode /\ state'[r] = state[r] /\ cmd'[r] = cmd[r]
        /\ generation'[r] = generation[r] /\ proc'[r] = proc[r]
        /\ asked' = asked
    BY DEF StartSection, AlreadyUp, FailToStart, BringUp, Spawn,
       BumpGeneration, managerVars, TypeOK
  <2> QED
    BY <2>1, UntouchedServer
<1>3. CASE AlreadyUp(s)
  <2>1. SameChildren(s)
    BY <1>3, UntouchedServer DEF AlreadyUp, StartSection, managerVars
  <2> QED
    BY <1>1, <1>2, <2>1, AbstractStep
<1>4. CASE FailToStart(s)
  <2>1. /\ mode = "live" /\ state[s] # "ONLINE" /\ state'[s] = "ERROR"
        /\ UNCHANGED <<mode, proc, asked>>
    BY <1>4 DEF FailToStart, StartSection, BumpGeneration, TypeOK
  <2>2. Rested(s)
    BY <2>1 DEF Rested, Wanted, Alive, Dismissed
  <2> QED
    BY <1>1, <1>2, <2>2, AbstractStep
<1>5. CASE BringUp(s)
  <2>1. PICK h \in Gens : h = generation'[s] /\ h = generation[s] + 1
    BY <1>5 DEF BringUp, BumpGeneration, TypeOK, Gens
  <2>2. /\ state[s] # "ONLINE" /\ state'[s] = "ONLINE"
        /\ UNCHANGED <<mode, asked>>
    BY <1>5 DEF BringUp, StartSection, BumpGeneration, TypeOK
  <2>3. generation[s] \in Nat /\ Gens \subseteq Nat
    BY DEF TypeOK, Gens
  <2>4. CASE mode = "live"
    <3>1. proc' = [proc EXCEPT ![s][h] = "running"] /\ cmd'[s] = h
      BY <1>5, <2>1, <2>4 DEF BringUp, Spawn, TypeOK
    <3>2. proc \in [Servers -> [Gens -> Phases]]
      BY DEF TypeOK
    <3>3. /\ proc'[s][h] = "running"
          /\ \A g \in Gens : g # h => proc'[s][g] = proc[s][g]
      BY ONLY <3>1, <3>2, s \in Servers, h \in Gens
    <3>4. proc[s][h] = "none" /\ asked[s][h] = "none"
      BY <2>1, <2>3 DEF FutureIsBlank
    <3>5. Launched(s, h)
      BY <2>2, <2>4, <3>1, <3>3, <3>4 DEF Launched, Wanted, Alive, Dismissed
    <3> QED
      BY <1>1, <1>2, <3>5, AbstractStep
  <2>5. CASE mode # "live"
    <3>1. /\ Wanted(s) = NoCmd /\ Wanted(s)' = h
          /\ Alive(s) = {} /\ Alive(s)' = {h}
      BY <2>1, <2>2, <2>5 DEF Wanted, Alive
    <3>2. Dismissed(s)' = Dismissed(s)
      <4>1. ASSUME NEW g \in Gens
            PROVE  g < h <=> g < generation[s] \/ g = generation[s]
        BY <2>1, <2>3
      <4>2. Dismissed(s) = {g \in Gens : g < generation[s] \/ g = generation[s]}
        BY <2>2, <2>5 DEF Dismissed
      <4>3. Dismissed(s)' = {g \in Gens : g < h}
        BY <2>1, <2>2, <2>5 DEF Dismissed
      <4> QED
        BY <4>1, <4>2, <4>3
    <3>3. h \notin Dismissed(s)
      BY <2>1, <2>3, <2>5 DEF Dismissed
    <3>4. Launched(s, h)
      BY <2>2, <3>1, <3>2, <3>3 DEF Launched
    <3> QED
      BY <1>1, <1>2, <3>4, AbstractStep
  <2> QED
    BY <2>4, <2>5
<1> QED
  BY <1>3, <1>4, <1>5 DEF StartSection

\* Stop dismisses the wanted child, or finds none wanted.
LEMMA StopRefines ==
  ASSUME RInv, TypeOK', NEW s \in Servers, NEW force \in BOOLEAN,
         StopSection(s, force)
  PROVE  [Promise!SNext]_(Promise!svars)
<1> USE LifecycleAssumption DEF RInv, IInv, NoCmd
<1>1. /\ state \in [Servers -> {"OFFLINE", "ONLINE", "ERROR"}]
      /\ state' \in [Servers -> {"OFFLINE", "ONLINE", "ERROR"}]
  BY DEF TypeOK
<1>2. /\ UNCHANGED <<mode, generation, cmd, proc>>
      /\ RecordRequest(s, force)
      /\ \A r \in Servers : r # s => state'[r] = state[r]
      /\ state'[s] \in {"OFFLINE", "ERROR"}
  BY DEF StopSection, AlreadyDown, SignalProcess, MarkOffline,
     SignalDelivered, SignalRefused, TypeOK
<1>3. \A r \in Servers \ {s} : SameChildren(r)
  <2> SUFFICES ASSUME NEW r \in Servers \ {s} PROVE SameChildren(r)
    OBVIOUS
  <2>1. \A g \in Gens : asked'[r][g] = asked[r][g]
    BY <1>2, StopRecords
  <2> QED
    BY <1>2, <2>1, UntouchedServer
<1>4. CASE mode = "live" /\ state[s] = "ONLINE"
  <2>1. HasProcess(s) /\ cmd[s] \in Gens
    BY <1>4 DEF HasProcess, OnlineIsBacked, TypeOK, Gens
  <2>2. /\ asked'[s][cmd[s]] # "none"
        /\ \A g \in Gens : g # cmd[s] => asked'[s][g] = asked[s][g]
    BY <1>2, <2>1, StopRecords
  <2>3. LetGo(s)
    BY <1>2, <1>4, <2>1, <2>2 DEF LetGo, Wanted, Alive, Dismissed, Gens
  <2> QED
    BY <1>1, <1>3, <2>3, AbstractStep
<1>5. CASE mode = "live" /\ state[s] # "ONLINE"
  <2>1. \A g \in Gens : (asked'[s][g] # "none") <=> (asked[s][g] # "none")
    <3>1. CASE HasProcess(s)
      <4>1. asked[s][cmd[s]] # "none"
        BY <1>5, <3>1 DEF CmdIsDismissed, HasProcess
      <4> QED
        BY <1>2, <3>1, <4>1, StopRecords
    <3>2. CASE ~HasProcess(s)
      BY <1>2, <3>2, StopRecords
    <3> QED
      BY <3>1, <3>2
  <2>2. Rested(s)
    BY <1>2, <1>5, <2>1 DEF Rested, Wanted, Alive, Dismissed
  <2> QED
    BY <1>1, <1>3, <2>2, AbstractStep
<1>6. CASE mode # "live" /\ state[s] = "ONLINE"
  <2>1. state'[s] # "ONLINE"
    BY <1>2
  <2>2. generation[s] \in Gens
    BY <1>6 DEF OnlineIsStarted, Gens, TypeOK
  <2>3. LetGo(s)
    <3>1. Wanted(s) = generation[s] /\ Wanted(s)' = NoCmd
      BY <1>2, <1>6, <2>1 DEF Wanted
    <3>2. Alive(s) = {generation[s]} /\ Alive(s)' = {}
      BY <1>2, <1>6, <2>1, <2>2 DEF Alive
    <3>3. Dismissed(s)' = Dismissed(s) \cup {generation[s]}
      BY <1>2, <1>6, <2>1, <2>2 DEF Dismissed
    <3> QED
      BY <1>2, <2>2, <3>1, <3>2, <3>3 DEF LetGo, Gens
  <2> QED
    BY <1>1, <1>3, <2>3, AbstractStep
<1>7. CASE mode # "live" /\ state[s] # "ONLINE"
  <2>1. Rested(s)
    BY <1>2, <1>7 DEF Rested, Wanted, Alive, Dismissed
  <2> QED
    BY <1>1, <1>3, <2>1, AbstractStep
<1> QED
  BY <1>4, <1>5, <1>6, <1>7

\* Processing an exit loses the wanted child, or a child no longer wanted.
LEMMA SettleRefines ==
  ASSUME RInv, TypeOK', NEW s \in Servers, NEW g \in Gens, Settle(s, g)
  PROVE  [Promise!SNext]_(Promise!svars)
<1> USE LifecycleAssumption DEF RInv, IInv, NoCmd
<1>1. /\ state \in [Servers -> {"OFFLINE", "ONLINE", "ERROR"}]
      /\ state' \in [Servers -> {"OFFLINE", "ONLINE", "ERROR"}]
  BY DEF TypeOK
<1>2. mode = "live" /\ proc[s][g] = "reaped" /\ g # 0
  BY DEF Settle, SimulatedHasNone, TypeOK, Gens
<1>3. /\ UNCHANGED <<mode, generation, asked>>
      /\ \A r \in Servers : r # s => state'[r] = state[r] /\ cmd'[r] = cmd[r]
      /\ cmd[s] # g => state'[s] = state[s] /\ cmd'[s] = cmd[s]
      /\ cmd[s] = g => state'[s] =
           IF WasIntentional(s, g) THEN "OFFLINE" ELSE "ERROR"
  BY DEF Settle, IsCurrent, TypeOK
<1>4. \A r \in Servers, h \in Gens :
        (proc'[r][h] = "running") <=> (proc[r][h] = "running")
  <2>1. proc' = [proc EXCEPT ![s][g] = "settled"]
    BY DEF Settle
  <2>2. proc \in [Servers -> [Gens -> Phases]]
    BY DEF TypeOK
  <2> QED
    BY ONLY <1>2, <2>1, <2>2, s \in Servers, g \in Gens
<1>5. \A r \in Servers \ {s} : SameChildren(r)
  BY <1>3, <1>4, UntouchedServer
<1>6. CASE cmd[s] # g
  <2>1. SameChildren(s)
    BY <1>3, <1>4, <1>6, UntouchedServer
  <2> QED
    BY <1>1, <1>5, <2>1, AbstractStep
<1>7. Alive(s)' = Alive(s)
  BY <1>2, <1>3, <1>4 DEF Alive
<1>8. CASE cmd[s] = g /\ state[s] = "ONLINE"
  <2>1. intentional[s] # g
    BY <1>2, <1>8 DEF OnlineIsBacked
  <2>2. Lost(s)
    BY <1>2, <1>3, <1>7, <1>8, <2>1
       DEF Lost, WasIntentional, Wanted, Alive, Dismissed
  <2> QED
    BY <1>1, <1>5, <2>2, AbstractStep
<1>9. CASE cmd[s] = g /\ state[s] # "ONLINE"
  <2>1. Rested(s)
    BY <1>2, <1>3, <1>7, <1>9 DEF Rested, Wanted, Dismissed
  <2> QED
    BY <1>1, <1>5, <2>1, AbstractStep
<1> QED
  BY <1>6, <1>8, <1>9

\* The death of a child is its exit; the waiter's other steps are invisible.
LEMMA PhaseRefines ==
  ASSUME RInv, TypeOK', NEW s \in Servers, NEW g \in Gens,
         Die(s, g) \/ WaitReturns(s, g) \/ CallOnExit(s, g)
  PROVE  [Promise!SNext]_(Promise!svars)
<1> USE LifecycleAssumption DEF RInv, IInv, NoCmd
<1>1. /\ state \in [Servers -> {"OFFLINE", "ONLINE", "ERROR"}]
      /\ state' \in [Servers -> {"OFFLINE", "ONLINE", "ERROR"}]
  BY DEF TypeOK
<1>2. mode = "live" /\ UNCHANGED <<mode, managerVars, asked>>
  BY DEF Die, WaitReturns, CallOnExit, SimulatedHasNone, TypeOK
<1>3. PICK v \in {"dead", "reaped", "reported"} :
        /\ proc' = [proc EXCEPT ![s][g] = v]
        /\ v = "dead" <=> proc[s][g] = "running"
  BY DEF Die, WaitReturns, CallOnExit
<1>4. /\ proc'[s][g] = v
      /\ \A r \in Servers, h \in Gens : r # s \/ h # g => proc'[r][h] = proc[r][h]
  <2>1. proc \in [Servers -> [Gens -> Phases]]
    BY DEF TypeOK
  <2> QED
    BY ONLY <1>3, <2>1, s \in Servers, g \in Gens
<1>5. \A r \in Servers \ {s} : SameChildren(r)
  BY <1>2, <1>4, UntouchedServer DEF managerVars
<1>6. CASE proc[s][g] = "running"
  <2>1. Exited(s, g)
    BY <1>2, <1>3, <1>4, <1>6 DEF Exited, Wanted, Alive, Dismissed, managerVars
  <2> QED
    BY <1>1, <1>5, <2>1, AbstractStep
<1>7. CASE proc[s][g] # "running"
  <2>1. SameChildren(s)
    BY <1>2, <1>3, <1>4, <1>7, UntouchedServer DEF managerVars
  <2> QED
    BY <1>1, <1>5, <2>1, AbstractStep
<1> QED
  BY <1>6, <1>7

\* The initial states map to the supervisor's initial state.
LEMMA InitRefines == Init => Promise!SInit
<1> SUFFICES ASSUME Init PROVE Promise!SInit
  OBVIOUS
<1>1. \A s \in Servers : /\ Wanted(s) = NoCmd
                         /\ Alive(s) = {} /\ Dismissed(s) = {}
  BY LifecycleAssumption DEF Init, Wanted, Alive, Dismissed, Gens
<1>2. wantedChild = [s \in Servers |-> NoCmd]
  BY <1>1 DEF wantedChild, Wanted
<1>3. aliveChildren = [s \in Servers |-> {}]
  BY <1>1 DEF aliveChildren, Alive
<1>4. dismissedChildren = [s \in Servers |-> {}]
  BY <1>1 DEF dismissedChildren, Dismissed
<1> QED
  BY <1>2, <1>3, <1>4 DEF Init, Promise!SInit

\* Every behaviour of the manager is one of the supervisor.
THEOREM ManagerSupervises == Spec => Supervises
<1>1. ASSUME RInv, TypeOK', [Next]_vars PROVE [Promise!SNext]_(Promise!svars)
  <2> USE <1>1
  <2>1. ASSUME NEW s \in Servers, StartSection(s)
        PROVE [Promise!SNext]_(Promise!svars)
    BY <2>1, StartRefines
  <2>2. ASSUME NEW s \in Servers, NEW force \in BOOLEAN, StopSection(s, force)
        PROVE [Promise!SNext]_(Promise!svars)
    BY <2>2, StopRefines
  <2>3. ASSUME NEW s \in Servers, NEW g \in Gens, Die(s, g) \/ Waiter(s, g)
        PROVE [Promise!SNext]_(Promise!svars)
    BY <2>3, SettleRefines, PhaseRefines DEF Waiter
  <2>4. ASSUME UNCHANGED <<mode, managerVars, proc, asked>>
        PROVE [Promise!SNext]_(Promise!svars)
    <3>1. wantedChild' = wantedChild
      BY <2>4 DEF wantedChild, managerVars
    <3>2. aliveChildren' = aliveChildren
      BY <2>4 DEF aliveChildren, managerVars
    <3>3. dismissedChildren' = dismissedChildren
      BY <2>4 DEF dismissedChildren, managerVars
    <3> QED
      BY <2>4, <3>1, <3>2, <3>3 DEF Promise!svars, managerVars
  <2>5. ASSUME NEW c \in Callers, RestartStart(c)
        PROVE [Promise!SNext]_(Promise!svars)
    BY <2>1, <2>4, <2>5 DEF RestartStart, RInv, IInv, TypeOK
  <2>6. ASSUME UNCHANGED vars PROVE [Promise!SNext]_(Promise!svars)
    BY <2>4, <2>6 DEF vars
  <2> QED
    BY <2>1, <2>2, <2>3, <2>5, <2>6 DEF Next, Call, Start, Stop, RestartStop
<1>2. Spec => []RInv
  BY InitRInv, NextKeepsRInv, PTL DEF Spec
<1>3. Spec => []TypeOK
  BY TypeCorrect
<1> QED
  BY <1>1, <1>2, <1>3, InitRefines, PTL DEF Spec, Supervises, Promise!SSpec

=============================================================================
